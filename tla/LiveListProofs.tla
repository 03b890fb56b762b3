---------------------------- MODULE LiveListProofs ----------------------------
(***************************************************************************)
(* What LiveList promises, proved for any number of subscriptions and      *)
(* consumers, any depth of callbacks within callbacks, and any bound on    *)
(* events.                                                                 *)
(***************************************************************************)
EXTENDS LiveList, SequenceTheorems, TLAPS

Live == {"creating", "attached"}
Fans == {"sync", "error"}

-----------------------------------------------------------------------------
(* The inductive invariant.                                                *)

\* An entry counts the consumers that hold it, and only those.
HandlesAreCounted ==
  \A e \in Entries, h \in Handles :
    h \in entries[e].handles <=> handles[h].entry = e /\ handles[h].state \in Live

\* What is disposed or terminally closed has no socket; what has a consumer had one.
DeadHaveNoSocket ==
  /\ \A e \in Entries : entries[e].disposed \/ entries[e].status = "closed" =>
       entries[e].sock = "closed"
  /\ \A h \in Handles : handles[h].entry \in Entries =>
       entries[handles[h].entry].sock # "none"

\* A frame is about one opened entry and visits consumers of that entry; the
\* consumer a call will return is still being created; only consumers that have
\* joined wait for a microtask.
FrameFits(f) ==
  /\ entries[f.entry].sock # "none"
  /\ \A h \in f.todo : handles[h].entry = f.entry
  /\ f.kind = "return" => \A h \in f.todo : handles[h].state = "creating"

FramesFit ==
  /\ \A h \in microtasks : handles[h].entry \in Entries
  /\ \A i \in 1..Len(stack) : FrameFits(stack[i])

\* An entry fans out once at a time; only the close that follows a terminal error
\* waits below that error's fan-out.  No two calls return the same consumer.
Ordered(f, g) ==
  /\ f.entry = g.entry /\ f.kind \in Fans \cup {"close"} /\ g.kind \in Fans \cup {"close"} =>
       f.kind = "close" /\ g.kind # "close"
  /\ f.kind = "return" /\ g.kind = "return" => f.todo \cap g.todo = {}

FansAreSingle == \A i, j \in 1..Len(stack) : i < j => Ordered(stack[i], stack[j])

\* delivering says that a fan-out of the entry is on the stack.
DeliveringIsFanning == \A e \in Entries : entries[e].delivering <=> Fanning(e)

\* h is yet to be visited.
Awaited(h) ==
  \/ h \in microtasks
  \/ \E i \in 1..Len(stack) : stack[i].kind \in {"sync", "microtask"} /\ h \in stack[i].todo

\* A consumer that has not seen the current list and status is about to.
BehindAreAwaited ==
  \A h \in Handles : handles[h].state \in Live /\ ~Current(h) => Awaited(h)

\* A grace window is one that some consumer of the entry asked for.
GraceWasAsked ==
  \A e \in Entries : entries[e].grace =>
    \E h \in Handles : handles[h].entry = e /\ handles[h].window

ListInv ==
  /\ StreamFollowsConsumers
  /\ HandlesAreCounted
  /\ DeadHaveNoSocket
  /\ FramesFit
  /\ FansAreSingle
  /\ DeliveringIsFanning
  /\ BehindAreAwaited
  /\ GraceWasAsked

-----------------------------------------------------------------------------
(* The operators of the model.                                             *)

\* Pushing a frame leaves those below it alone.
LEMMA PushIs ==
  ASSUME NEW s \in Seq(Frame), NEW f \in Frame
  PROVE  /\ s \o <<f>> = Append(s, f)
         /\ Append(s, f) \in Seq(Frame) /\ Len(Append(s, f)) = Len(s) + 1
         /\ Append(s, f)[Len(s) + 1] = f
         /\ \A i \in 1..Len(s) : Append(s, f)[i] = s[i]
  OBVIOUS

\* So does popping one.
LEMMA PopIs ==
  ASSUME stack \in Seq(Frame), stack # <<>>
  PROVE  /\ Len(stack) \in Nat \ {0} /\ Top \in Frame
         /\ Pop \in Seq(Frame) /\ Len(Pop) = Len(stack) - 1
         /\ \A i \in 1..Len(Pop) : Pop[i] = stack[i]
<1>1. Len(stack) \in Nat \ {0} /\ Top \in Frame
  BY DEF Top
<1> DEFINE n == Len(stack) - 1
<1>2. n \in Nat /\ n <= Len(stack)
  BY <1>1
<1>3. Pop = SubSeq(stack, 1, n)
  BY DEF Pop
<1> HIDE DEF n
<1>4. \A i \in 1..n : i \in 1..Len(stack) /\ stack[i] \in Frame
  BY <1>1, <1>2
<1>5. Pop \in Seq(Frame) /\ Len(Pop) = n /\ \A i \in 1..n : Pop[i] = stack[i]
  BY <1>1, <1>2, <1>3, <1>4
<1> QED
  BY <1>1, <1>5 DEF n

\* What scheduleRelease makes of an entry E: it is left alone, or disposed if it has
\* no consumer and fans nothing out, or marked for a release that will follow.
ReleasedFrom(E, R) ==
  /\ R \in LiveListEntry
  /\ R.handles = E.handles /\ R.shared = E.shared /\ R.rev = E.rev /\ R.status = E.status
  /\ R.grace = E.grace /\ R.delivering = E.delivering
  /\ \/ R.disposed = E.disposed /\ R.sock = E.sock
     \/ R.disposed /\ R.sock = "closed" /\ ~E.disposed /\ ~E.delivering /\ E.handles = {}
  /\ R.releaseTimer => E.releaseTimer \/ (E.grace /\ E.handles = {})
  /\ E.handles = {} /\ ~R.disposed =>
       R.releaseTimer \/ (R.delivering /\ R.releaseAfterDelivery)

LEMMA ReleasedIs ==
  ASSUME NEW E \in LiveListEntry PROVE ReleasedFrom(E, Released(E))
<1> DEFINE R == Released(E)
<1>1. CASE E.disposed \/ E.handles # {}
  <2>1. R = E
    BY <1>1 DEF Released
  <2> QED
    BY <1>1, <2>1 DEF ReleasedFrom
<1>2. CASE ~(E.disposed \/ E.handles # {}) /\ E.delivering
  <2>1. R = [E EXCEPT !.releaseAfterDelivery = TRUE]
    BY <1>2 DEF Released
  <2> QED
    BY <1>2, <2>1 DEF ReleasedFrom, LiveListEntry
<1>3. CASE ~(E.disposed \/ E.handles # {}) /\ ~E.delivering /\ E.grace
  <2>1. R = [E EXCEPT !.releaseTimer = TRUE]
    BY <1>3 DEF Released
  <2> QED
    BY <1>3, <2>1 DEF ReleasedFrom, LiveListEntry
<1>4. CASE ~(E.disposed \/ E.handles # {}) /\ ~E.delivering /\ ~E.grace
  <2>1. R = [E EXCEPT !.disposed = TRUE, !.releaseTimer = FALSE, !.sock = "closed"]
    BY <1>4 DEF Released, Disposed
  <2> QED
    BY <1>4, <2>1 DEF ReleasedFrom, LiveListEntry
<1> QED
  BY <1>1, <1>2, <1>3, <1>4

\* A frame for a fan-out is a frame.
LEMMA FanIsFrame ==
  ASSUME NEW kind \in {"sync", "error", "microtask", "close", "return"}, NEW e \in Entries,
         NEW todo \in SUBSET Handles
  PROVE  /\ Fan(kind, e, todo) \in Frame
         /\ Fan(kind, e, todo).kind = kind /\ Fan(kind, e, todo).entry = e
         /\ Fan(kind, e, todo).todo = todo /\ Fan(kind, e, todo).at = NoHandle
  BY DEF Fan, Frame

\* The updates of an entry leave it an entry.
LEMMA UpdatesFit ==
  ASSUME NEW E \in LiveListEntry, NEW s \in Statuses, NEW S \in SUBSET Handles, NEW g \in BOOLEAN
  PROVE  /\ [E EXCEPT !.rev = @ + 1] \in LiveListEntry
         /\ [E EXCEPT !.status = s] \in LiveListEntry
         /\ [E EXCEPT !.status = s, !.sock = "closed"] \in LiveListEntry
         /\ [E EXCEPT !.delivering = FALSE, !.releaseAfterDelivery = FALSE] \in LiveListEntry
         /\ [E EXCEPT !.handles = @ \ S] \in LiveListEntry
         /\ [[E EXCEPT !.handles = @ \ S] EXCEPT !.grace = g] \in LiveListEntry
<1>1. [E EXCEPT !.rev = @ + 1] \in LiveListEntry
  BY DEF LiveListEntry
<1>2. [E EXCEPT !.status = s] \in LiveListEntry
  BY DEF LiveListEntry
<1>3. [E EXCEPT !.status = s, !.sock = "closed"] \in LiveListEntry
  BY DEF LiveListEntry
<1>4. [E EXCEPT !.delivering = FALSE, !.releaseAfterDelivery = FALSE] \in LiveListEntry
  BY DEF LiveListEntry
<1>5. \A F \in LiveListEntry : [F EXCEPT !.grace = g] \in LiveListEntry
  BY DEF LiveListEntry
<1>6. E.handles \ S \in SUBSET Handles
  BY DEF LiveListEntry
<1>7. [E EXCEPT !.handles = @ \ S] \in LiveListEntry
  BY <1>6 DEF LiveListEntry
<1> QED
  BY <1>1, <1>2, <1>3, <1>4, <1>5, <1>7

LEMMA DeliverIs ==
  ASSUME entries \in [Entries -> LiveListEntry], NEW e \in Entries, NEW E \in LiveListEntry,
         NEW kind \in Fans, NEW rest \in Seq(Frame), Deliver(e, E, kind, rest)
  PROVE  /\ [E EXCEPT !.delivering = TRUE] \in LiveListEntry
         /\ entries' = [entries EXCEPT ![e] = [E EXCEPT !.delivering = TRUE]]
         /\ entries' \in [Entries -> LiveListEntry]
         /\ Fan(kind, e, E.handles) \in Frame
         /\ stack' = Append(rest, Fan(kind, e, E.handles))
         /\ stack' \in Seq(Frame) /\ Len(stack') = Len(rest) + 1
         /\ stack'[Len(rest) + 1] = Fan(kind, e, E.handles)
         /\ \A i \in 1..Len(rest) : stack'[i] = rest[i]
<1>1. [E EXCEPT !.delivering = TRUE] \in LiveListEntry /\ E.handles \in SUBSET Handles
  BY DEF LiveListEntry
<1>2. entries' = [entries EXCEPT ![e] = [E EXCEPT !.delivering = TRUE]]
  BY DEF Deliver
<1>3. Fan(kind, e, E.handles) \in Frame
  BY <1>1, FanIsFrame DEF Fans
<1>4. stack' = rest \o <<Fan(kind, e, E.handles)>>
  BY DEF Deliver
<1> QED
  BY <1>1, <1>2, <1>3, <1>4, PushIs

\* The three frames of a subscribe() that fails before it returns.
LEMMA FailedCallIs ==
  ASSUME NEW s \in Seq(Frame), NEW e \in Entries, NEW h \in Handles, NEW t,
         t = s \o <<Fan("return", e, {h}), Fan("close", e, {}), Fan("error", e, {h})>>
  PROVE  /\ t \in Seq(Frame) /\ Len(t) = Len(s) + 3
         /\ \A i \in 1..Len(s) : t[i] = s[i]
         /\ t[Len(s) + 1] = Fan("return", e, {h})
         /\ t[Len(s) + 2] = Fan("close", e, {})
         /\ t[Len(s) + 3] = Fan("error", e, {h})
<1> DEFINE a == Fan("return", e, {h})
           b == Fan("close", e, {})
           c == Fan("error", e, {h})
<1>1. a \in Frame /\ b \in Frame /\ c \in Frame
  BY FanIsFrame
<1>2. t = s \o <<a, b, c>>
  OBVIOUS
<1> HIDE DEF a, b, c
<1> DEFINE w == <<a, b, c>>
<1>5. w \in Seq(Frame) /\ Len(w) = 3 /\ w[1] = a /\ w[2] = b /\ w[3] = c
  BY <1>1
<1> HIDE DEF w
<1>6. t = s \o w
  BY <1>2 DEF w
<1>7. t \in Seq(Frame) /\ Len(t) = Len(s) + Len(w)
  BY <1>5, <1>6, ConcatProperties
<1>a. \A i \in 1..(Len(s) + Len(w)) : (s \o w)[i] = IF i <= Len(s) THEN s[i] ELSE w[i - Len(s)]
  BY <1>5, ConcatProperties
<1>8. \A i \in 1..Len(t) : t[i] = IF i <= Len(s) THEN s[i] ELSE w[i - Len(s)]
  BY ONLY <1>a, <1>6, <1>7
<1>9. Len(s) \in Nat
  OBVIOUS
<1>3. t \in Seq(Frame) /\ Len(t) = Len(s) + 3
  BY <1>5, <1>7
<1>4. /\ \A i \in 1..Len(s) : t[i] = s[i]
      /\ t[Len(s) + 1] = a /\ t[Len(s) + 2] = b /\ t[Len(s) + 3] = c
  <2>1. \A i \in 1..Len(s) : t[i] = s[i]
    BY <1>3, <1>8, <1>9
  <2>2. /\ (Len(s) + 1) - Len(s) = 1 /\ (Len(s) + 2) - Len(s) = 2 /\ (Len(s) + 3) - Len(s) = 3
        /\ Len(s) + 1 \in 1..Len(t) /\ Len(s) + 2 \in 1..Len(t) /\ Len(s) + 3 \in 1..Len(t)
    BY <1>3, <1>9
  <2>3. t[Len(s) + 1] = w[1] /\ t[Len(s) + 2] = w[2] /\ t[Len(s) + 3] = w[3]
    BY <1>8, <1>9, <2>2
  <2> QED
    BY <1>5, <2>1, <2>3
<1> QED
  BY <1>3, <1>4 DEF a, b, c

-----------------------------------------------------------------------------
(* The types.                                                              *)

LEMMA TypesKept == ASSUME TypeOK, FramesFit, [Next]_vars PROVE TypeOK'
<1> USE DEF TypeOK
<1>1. CASE UNCHANGED vars
  BY <1>1 DEF vars
<1>2. ASSUME NEW h \in Handles, Join(h) PROVE TypeOK'
  <2>1. registry \in Entries /\ Fresh(h) /\ UNCHANGED <<registry, stack>>
    BY <1>2 DEF Join
  <2>2. PICK window \in BOOLEAN :
          /\ entries' = [entries EXCEPT ![registry] = Attached(entries[registry], h, window)]
          /\ Handle(h, registry, window, "attached")
    BY <1>2 DEF Join
  <2>3. Attached(entries[registry], h, window) \in LiveListEntry
    BY <2>1 DEF Attached, LiveListEntry
  <2>4. [state |-> "attached", entry |-> registry, window |-> window, seenRev |-> 0,
         seenStatus |-> "connecting"] \in EntryHandle
    BY <2>1 DEF EntryHandle, Statuses
  <2>5. handles' \in [Handles -> EntryHandle]
    BY <2>2, <2>4 DEF Handle
  <2>6. \A k \in Handles : handles'[k].state = "unused" <=> handles'[k].entry = NoEntry
    BY <2>1, <2>2, SentinelAssumption DEF Handle
  <2>7. microtasks' \in SUBSET Handles
    BY <1>2 DEF Join, LateSync
  <2> QED
    BY <2>1, <2>2, <2>3, <2>5, <2>6, <2>7
<1>3. ASSUME NEW h \in Handles, Close(h) PROVE TypeOK'
  <2> DEFINE e == handles[h].entry
             left == [entries[e] EXCEPT !.handles = @ \ {h}]
             E == [left EXCEPT !.grace = GraceOf(left, {h})]
  <2>1. e \in Entries
    BY <1>3 DEF Close, EntryHandle
  <2>a. GraceOf(left, {h}) \in BOOLEAN /\ {h} \in SUBSET Handles /\ Statuses # {}
    BY DEF GraceOf, Statuses
  <2>2. E \in LiveListEntry
    BY <2>1, <2>a, UpdatesFit
  <2>3. Released(E) \in LiveListEntry
    BY <2>2, ReleasedIs DEF ReleasedFrom
  <2>4. entries' \in [Entries -> LiveListEntry] /\ registry' \in Entries \cup {NoEntry}
    BY <1>3, <2>1, <2>3 DEF Close, Put, Deregister
  <2>5. handles' \in [Handles -> EntryHandle]
    BY <1>3 DEF Close, EntryHandle
  <2>6. \A k \in Handles : handles'[k].state = "unused" <=> handles'[k].entry = NoEntry
    BY <1>3, <2>1, SentinelAssumption DEF Close, EntryHandle
  <2> QED
    BY <1>3, <2>4, <2>5, <2>6 DEF Close
<1>4. ASSUME NEW h \in Handles, Visit(h) PROVE TypeOK'
  <2>1. stack # <<>> /\ Top \in Frame /\ Pop \in Seq(Frame)
    BY <1>4, PopIs DEF Visit
  <2> DEFINE f == Top
  <2>2. PICK k \in Handles \cup {NoHandle} :
          stack' = Append(Pop, [f EXCEPT !.todo = @ \ {h}, !.at = k])
    BY <1>4 DEF Visit
  <2>3. [f EXCEPT !.todo = @ \ {h}, !.at = k] \in Frame
    BY <2>1 DEF Frame
  <2>4. stack' \in Seq(Frame)
    BY <2>1, <2>2, <2>3
  <2>5. entries[f.entry] \in LiveListEntry
    BY <2>1 DEF Frame
  <2>6. /\ handles' \in [Handles -> EntryHandle]
        /\ \A x \in Handles : handles'[x].state = handles[x].state /\ handles'[x].entry = handles[x].entry
    <3>1. entries[f.entry].rev \in Nat /\ entries[f.entry].status \in Statuses
      BY <2>5 DEF LiveListEntry
    <3>2. \/ UNCHANGED handles
          \/ handles' = [handles EXCEPT ![h].seenRev = entries[f.entry].rev,
                                       ![h].seenStatus = entries[f.entry].status]
      BY <1>4 DEF Visit
    <3> HIDE DEF f
    <3>3. ASSUME NEW r \in Nat, NEW t \in Statuses,
                 handles' = [handles EXCEPT ![h].seenRev = r, ![h].seenStatus = t]
          PROVE  /\ handles' \in [Handles -> EntryHandle]
                 /\ \A x \in Handles : /\ handles'[x].state = handles[x].state
                                        /\ handles'[x].entry = handles[x].entry
      BY <3>3 DEF EntryHandle
    <3> QED
      BY <3>1, <3>2, <3>3
  <2> QED
    BY <1>4, <2>4, <2>6 DEF Visit
<1>5. ASSUME NEW h \in Handles, Microtask(h) PROVE TypeOK'
  <2>1. handles[h].entry \in Entries /\ {h} \in SUBSET Handles
    BY <1>5 DEF Microtask, FramesFit
  <2>2. Fan("microtask", handles[h].entry, {h}) \in Frame
    BY <2>1, FanIsFrame
  <2>3. stack' \in Seq(Frame)
    BY <1>5, <2>2 DEF Microtask
  <2> QED
    BY <1>5, <2>3 DEF Microtask
<1>6. ASSUME NEW h \in Handles, NEW e \in Entries, Open(h, e) PROVE TypeOK'
  <2>1. PICK shared \in BOOLEAN, window \in BOOLEAN :
          LET E == NewEntry(h, shared, window)
              owned == IF shared THEN e ELSE registry
          IN \/ /\ entries' = [entries EXCEPT ![e] = E]
                /\ registry' = owned
                /\ Handle(h, e, window, "attached")
                /\ UNCHANGED stack
             \/ /\ entries' = [entries EXCEPT ![e] = [Disposed(E) EXCEPT !.handles = {}]]
                /\ UNCHANGED <<registry, stack>>
                /\ Handle(h, e, window, "released")
             \/ /\ entries' = [entries EXCEPT ![e] = [E EXCEPT !.delivering = TRUE]]
                /\ registry' = owned
                /\ Handle(h, e, window, "creating")
                /\ stack' = stack \o <<Fan("return", e, {h}), Fan("close", e, {}),
                                       Fan("error", e, {h})>>
    BY <1>6 DEF Open
  <2> DEFINE E == NewEntry(h, shared, window)
  <2>2. E \in LiveListEntry /\ [Disposed(E) EXCEPT !.handles = {}] \in LiveListEntry
        /\ [E EXCEPT !.delivering = TRUE] \in LiveListEntry
    BY DEF NewEntry, LiveListEntry, Disposed, Statuses
  <2>3. entries' \in [Entries -> LiveListEntry] /\ registry' \in Entries \cup {NoEntry}
    BY <2>1, <2>2
  <2>4. \A state \in {"creating", "attached", "released"} :
          [state |-> state, entry |-> e, window |-> window, seenRev |-> 0,
           seenStatus |-> "connecting"] \in EntryHandle
    BY DEF EntryHandle, Statuses
  <2>5. PICK state \in {"creating", "attached", "released"} : Handle(h, e, window, state)
    BY <2>1
  <2>6. /\ handles' \in [Handles -> EntryHandle]
        /\ \A k \in Handles : handles'[k].state = "unused" <=> handles'[k].entry = NoEntry
    BY <2>4, <2>5, SentinelAssumption DEF Handle
  <2>7. stack' \in Seq(Frame)
    <3>1. CASE UNCHANGED stack
      BY <3>1
    <3>2. CASE stack' = stack \o <<Fan("return", e, {h}), Fan("close", e, {}), Fan("error", e, {h})>>
      <4>1. stack \in Seq(Frame)
        OBVIOUS
      <4> QED
        BY ONLY <3>2, <4>1, FailedCallIs, <1>6
    <3> QED
      BY <2>1, <3>1, <3>2
  <2> QED
    BY <1>6, <2>3, <2>6, <2>7 DEF Open
<1>7. ASSUME NEW e \in Entries, ReleaseTimer(e) PROVE TypeOK'
  <2> DEFINE E == [entries[e] EXCEPT !.releaseTimer = FALSE]
  <2>1. E \in LiveListEntry /\ Disposed(E) \in LiveListEntry
    BY DEF LiveListEntry, Disposed
  <2> QED
    BY <1>7, <2>1 DEF ReleaseTimer, Put, Deregister
<1>8. ASSUME NEW e \in Entries, ListEvent(e) \/ StatusEvent(e) \/ ErrorEvent(e) PROVE TypeOK'
  <2>1. /\ [entries[e] EXCEPT !.rev = @ + 1] \in LiveListEntry
        /\ \A s \in Statuses : [entries[e] EXCEPT !.status = s] \in LiveListEntry
        /\ entries[e] \in LiveListEntry
    BY UpdatesFit DEF Statuses
  <2>2. PICK E \in LiveListEntry, kind \in Fans, rest \in {stack, Append(stack, Fan("close", e, {}))} :
          Deliver(e, E, kind, rest)
    BY <1>8, <2>1 DEF ListEvent, StatusEvent, ErrorEvent, Fans, Statuses
  <2>3. rest \in Seq(Frame)
    BY FanIsFrame
  <2>4. entries' \in [Entries -> LiveListEntry] /\ stack' \in Seq(Frame)
    BY <2>2, <2>3, DeliverIs
  <2>5. UNCHANGED <<registry, handles, microtasks>>
    BY <1>8 DEF ListEvent, StatusEvent, ErrorEvent
  <2> QED
    BY <2>4, <2>5
<1>9. CASE Unwind
  <2>1. stack # <<>> /\ Top \in Frame /\ Pop \in Seq(Frame)
    BY <1>9, PopIs DEF Unwind
  <2> DEFINE e == Top.entry
             E == [entries[e] EXCEPT !.delivering = FALSE, !.releaseAfterDelivery = FALSE]
  <2>2. e \in Entries
    BY <2>1 DEF Frame
  <2>3. E \in LiveListEntry
    BY <2>2, UpdatesFit DEF Statuses
  <2>4. Released(E) \in LiveListEntry
    BY <2>3, ReleasedIs DEF ReleasedFrom
  <2>5. entries' \in [Entries -> LiveListEntry] /\ registry' \in Entries \cup {NoEntry}
    BY <1>9, <2>2, <2>3, <2>4 DEF Unwind, Put, Deregister
  <2> QED
    BY <1>9, <2>1, <2>5 DEF Unwind
<1>10. CASE Return
  <2>1. stack # <<>> /\ Top \in Frame /\ Pop \in Seq(Frame)
    BY <1>10, PopIs DEF Return
  <2>2. Len(stack) \in 1..Len(stack)
    BY <2>1, PopIs
  <2>3. \A h \in Top.todo : handles[h].state = "creating"
    BY <1>10, <2>2 DEF Return, FramesFit, FrameFits, Top
  <2>4. /\ handles' \in [Handles -> EntryHandle]
        /\ \A k \in Handles : handles'[k].state = "unused" <=> handles'[k].entry = NoEntry
    BY <1>10, <2>3 DEF Return, EntryHandle
  <2> QED
    BY <1>10, <2>1, <2>4 DEF Return
<1>11. CASE Closed
  <2>1. stack # <<>> /\ Top \in Frame /\ Pop \in Seq(Frame)
    BY <1>11, PopIs DEF Closed
  <2> DEFINE e == Top.entry
             E == [entries[e] EXCEPT !.status = "closed", !.sock = "closed"]
  <2>2. e \in Entries
    BY <2>1 DEF Frame
  <2>3. E \in LiveListEntry
    BY <2>2, UpdatesFit DEF Statuses
  <2>4. CASE entries[e].disposed
    BY <1>11, <2>1, <2>4 DEF Closed
  <2>5. CASE ~entries[e].disposed
    <3>1. Deliver(e, E, "sync", Pop)
      BY <1>11, <2>5 DEF Closed
    <3>2. entries' \in [Entries -> LiveListEntry] /\ stack' \in Seq(Frame)
      BY <2>1, <2>2, <2>3, <3>1, DeliverIs DEF Fans
    <3>3. registry' \in Entries \cup {NoEntry}
      BY <1>11, <2>5 DEF Closed, Retire, Deregister
    <3> QED
      BY <1>11, <3>2, <3>3 DEF Closed
  <2> QED
    BY <2>4, <2>5
<1> QED
  BY <1>1, <1>2, <1>3, <1>4, <1>5, <1>6, <1>7, <1>8, <1>9, <1>10, <1>11 DEF Next

-----------------------------------------------------------------------------
(* Entries and the consumers that hold them.                               *)

EntriesInv ==
  OneLiveStream /\ NeverTornFromUnder /\ HandlesAreCounted /\ DeadHaveNoSocket /\ GraceWasAsked

\* An entry without a socket yet has no consumer, and no consumer ever had it.
LEMMA UnusedIsFree ==
  ASSUME TypeOK, EntriesInv, NEW e \in Entries, entries[e].sock = "none"
  PROVE  entries[e].handles = {} /\ \A h \in Handles : handles[h].entry # e
  BY DEF TypeOK, EntriesInv, DeadHaveNoSocket, HandlesAreCounted, LiveListEntry

\* What attachHandle adds.
LEMMA EntriesJoin ==
  ASSUME TypeOK, EntriesInv, NEW h \in Handles, Join(h) PROVE EntriesInv'
<1>1. registry \in Entries /\ handles[h].state = "unused" /\ UNCHANGED <<registry, stack>>
      /\ ~entries[registry].disposed
  BY DEF Join, Fresh, TypeOK
<1>2. PICK r \in Entries : r = registry
  BY <1>1
<1>3. PICK window \in BOOLEAN :
        /\ entries' = [entries EXCEPT ![r] = Attached(entries[r], h, window)]
        /\ Handle(h, r, window, "attached")
  BY <1>2 DEF Join
<1> DEFINE F == Attached(entries[r], h, window)
<1>4. entries[r] \in LiveListEntry
  BY DEF TypeOK
<1>5. /\ F.sock = entries[r].sock /\ F.shared = entries[r].shared
      /\ F.status = entries[r].status /\ F.disposed = entries[r].disposed
      /\ F.handles = entries[r].handles \cup {h}
      /\ F.grace = (window \/ \E k \in entries[r].handles : handles[k].window)
  BY <1>4 DEF Attached, LiveListEntry
<1> HIDE DEF F
<1>6. \A e \in Entries : entries'[e] = IF e = r THEN F ELSE entries[e]
  BY <1>3 DEF TypeOK, F
<1>7. \A k \in Handles : k # h => handles'[k] = handles[k]
  BY <1>3 DEF Handle, TypeOK
<1>8. handles'[h].state = "attached" /\ handles'[h].entry = r /\ handles'[h].window = window
  BY <1>3 DEF Handle, TypeOK
<1>9. handles[h].entry = NoEntry
  BY <1>1 DEF TypeOK
<1>10. entries[r].sock = "open"
  BY <1>2 DEF EntriesInv, OneLiveStream
<1>11. OneLiveStream'
  BY <1>1, <1>2, <1>5, <1>6 DEF EntriesInv, OneLiveStream
<1>12. NeverTornFromUnder'
  <2> SUFFICES ASSUME NEW k \in Handles, handles'[k].state \in {"creating", "attached"}
               PROVE  ~entries'[handles'[k].entry].disposed
    BY DEF NeverTornFromUnder
  <2>1. CASE k = h
    BY <1>1, <1>2, <1>5, <1>6, <1>8, <2>1
  <2>2. CASE k # h
    <3>1. handles[k].entry \in Entries
      BY <1>7, <2>2 DEF TypeOK, EntryHandle
    <3> QED
      BY <1>5, <1>6, <1>7, <2>2, <3>1 DEF EntriesInv, NeverTornFromUnder
  <2> QED
    BY <2>1, <2>2
<1>13. HandlesAreCounted'
  BY <1>5, <1>6, <1>7, <1>8, <1>9, SentinelAssumption DEF EntriesInv, HandlesAreCounted, Live
<1>14. DeadHaveNoSocket'
  BY <1>5, <1>6, <1>7, <1>8, <1>10 DEF EntriesInv, DeadHaveNoSocket
<1>15. GraceWasAsked'
  <2> SUFFICES ASSUME NEW e \in Entries, entries'[e].grace
               PROVE  \E k \in Handles : handles'[k].entry = e /\ handles'[k].window
    BY DEF GraceWasAsked
  <2>1. CASE e = r /\ window
    BY <1>8, <2>1
  <2>2. CASE ~(e = r /\ window)
    <3>1. PICK k \in Handles : handles[k].entry = e /\ handles[k].window
      <4>1. CASE e = r
        <5>1. PICK k \in entries[r].handles : handles[k].window
          BY <1>5, <1>6, <2>2, <4>1
        <5>2. k \in Handles /\ handles[k].entry = r
          BY <1>4, <5>1 DEF EntriesInv, HandlesAreCounted, LiveListEntry
        <5> QED
          BY <4>1, <5>1, <5>2
      <4>2. CASE e # r
        BY <1>6, <4>2 DEF EntriesInv, GraceWasAsked
      <4> QED
        BY <4>1, <4>2
    <3>2. k # h
      BY <1>9, <3>1, SentinelAssumption
    <3> QED
      BY <1>7, <3>1, <3>2
  <2> QED
    BY <2>1, <2>2
<1> QED
  BY <1>11, <1>12, <1>13, <1>14, <1>15 DEF EntriesInv

\* What a step does that changes one entry: consumers of it may leave; then it stays
\* in service, or it loses its socket and its place in the registry.
Leave(k) == handles'[k].state = "released" /\ handles[k].state \in Live

ChangesOne(e, F, D) ==
  /\ \A x \in Entries : entries'[x] = IF x = e THEN F ELSE entries[x]
  /\ F.shared = entries[e].shared /\ F.handles = entries[e].handles \ D
  /\ \A k \in D : Leave(k) /\ handles[k].entry = e
  /\ \A k \in Handles : /\ handles'[k].entry = handles[k].entry
                        /\ handles'[k].window = handles[k].window
                        /\ k \notin D => (handles'[k].state \in Live <=> handles[k].state \in Live)
  /\ F.grace => \E k \in Handles : handles[k].entry = e /\ handles[k].window
  /\ \/ /\ registry' = registry
        /\ F.sock = entries[e].sock /\ F.disposed = entries[e].disposed
        /\ F.status = "closed" <=> entries[e].status = "closed"
     \/ /\ registry' = Deregister(e)
        /\ F.sock = "closed" /\ (F.disposed => F.handles = {})

LEMMA EntriesChange ==
  ASSUME TypeOK, EntriesInv, NEW e \in Entries, NEW F, NEW D \in SUBSET Handles,
         ChangesOne(e, F, D)
  PROVE  EntriesInv'
<1>1. \A x \in Entries : entries'[x] = IF x = e THEN F ELSE entries[x]
  BY DEF ChangesOne
<1>2. F.shared = entries[e].shared /\ F.handles = entries[e].handles \ D
  BY DEF ChangesOne
<1>3. \A k \in D : handles'[k].state = "released" /\ handles[k].state \in Live
                   /\ handles[k].entry = e
  BY DEF ChangesOne, Leave
<1>4. \A k \in Handles : /\ handles'[k].entry = handles[k].entry
                         /\ handles'[k].window = handles[k].window
                         /\ k \notin D => (handles'[k].state \in Live <=> handles[k].state \in Live)
  BY DEF ChangesOne
<1>5. \/ /\ registry' = registry
         /\ F.sock = entries[e].sock /\ F.disposed = entries[e].disposed
         /\ F.status = "closed" <=> entries[e].status = "closed"
      \/ /\ registry' = Deregister(e)
         /\ F.sock = "closed" /\ (F.disposed => F.handles = {})
  BY DEF ChangesOne
<1>6. OneLiveStream'
  BY <1>1, <1>2, <1>5, SentinelAssumption DEF EntriesInv, OneLiveStream, Deregister, TypeOK
<1>7. HandlesAreCounted'
  <2> SUFFICES ASSUME NEW x \in Entries, NEW k \in Handles
               PROVE  k \in entries'[x].handles <=>
                        handles'[k].entry = x /\ handles'[k].state \in Live
    BY DEF HandlesAreCounted
  <2>1. k \in entries[x].handles <=> handles[k].entry = x /\ handles[k].state \in Live
    BY DEF EntriesInv, HandlesAreCounted
  <2>2. CASE k \in D
    BY <1>1, <1>2, <1>3, <1>4, <2>1, <2>2 DEF Live
  <2>3. CASE k \notin D
    BY <1>1, <1>2, <1>4, <2>1, <2>3
  <2> QED
    BY <2>2, <2>3
<1>8. NeverTornFromUnder'
  <2> SUFFICES ASSUME NEW k \in Handles, handles'[k].state \in Live
               PROVE  ~entries'[handles'[k].entry].disposed
    BY DEF NeverTornFromUnder, Live
  <2>1. handles[k].state \in Live /\ k \notin D
    BY <1>3, <1>4 DEF Live
  <2>2. handles[k].entry \in Entries
    BY <2>1 DEF TypeOK, EntryHandle, Live
  <2>3. ~entries[handles[k].entry].disposed /\ k \in entries[handles[k].entry].handles
    BY <2>1, <2>2 DEF EntriesInv, NeverTornFromUnder, HandlesAreCounted, Live
  <2>4. CASE handles[k].entry = e
    BY <1>1, <1>2, <1>4, <1>5, <2>1, <2>3, <2>4
  <2>5. CASE handles[k].entry # e
    BY <1>1, <1>4, <2>2, <2>3, <2>5
  <2> QED
    BY <2>4, <2>5
<1>9. DeadHaveNoSocket'
  <2>1. ASSUME NEW x \in Entries, entries'[x].disposed \/ entries'[x].status = "closed"
        PROVE  entries'[x].sock = "closed"
    BY <1>1, <1>5, <2>1 DEF EntriesInv, DeadHaveNoSocket
  <2>2. ASSUME NEW k \in Handles, handles'[k].entry \in Entries
        PROVE  entries'[handles'[k].entry].sock # "none"
    <3>1. handles[k].entry \in Entries /\ entries[handles[k].entry].sock # "none"
      BY <1>4, <2>2 DEF EntriesInv, DeadHaveNoSocket
    <3> QED
      BY <1>1, <1>4, <1>5, <3>1
  <2> QED
    BY <2>1, <2>2 DEF DeadHaveNoSocket
<1>10. GraceWasAsked'
  <2> SUFFICES ASSUME NEW x \in Entries, entries'[x].grace
               PROVE  \E k \in Handles : handles'[k].entry = x /\ handles'[k].window
    BY DEF GraceWasAsked
  <2>1. \E k \in Handles : handles[k].entry = x /\ handles[k].window
    BY <1>1 DEF ChangesOne, EntriesInv, GraceWasAsked
  <2> QED
    BY <1>4, <2>1
<1> QED
  BY <1>6, <1>7, <1>8, <1>9, <1>10 DEF EntriesInv

\* What putting back an entry does that scheduleRelease has seen to.
LEMMA PutChanges ==
  ASSUME TypeOK, EntriesInv, NEW e \in Entries, NEW E \in LiveListEntry, NEW R, NEW D \in SUBSET Handles,
         ReleasedFrom(E, R), Put(e, R),
         E.sock = entries[e].sock, E.shared = entries[e].shared, E.disposed = entries[e].disposed,
         E.status = entries[e].status, E.handles = entries[e].handles \ D,
         E.grace => \E k \in Handles : handles[k].entry = e /\ handles[k].window,
         \A k \in D : Leave(k) /\ handles[k].entry = e,
         \A k \in Handles : /\ handles'[k].entry = handles[k].entry
                            /\ handles'[k].window = handles[k].window
                            /\ k \notin D => (handles'[k].state \in Live <=> handles[k].state \in Live)
  PROVE  ChangesOne(e, R, D)
<1>1. \A x \in Entries : entries'[x] = IF x = e THEN R ELSE entries[x]
  BY DEF Put, TypeOK
<1>2. /\ R.handles = E.handles /\ R.shared = E.shared /\ R.status = E.status /\ R.grace = E.grace
  BY DEF ReleasedFrom
<1>3. CASE R.disposed = E.disposed /\ R.sock = E.sock
  <2>1. registry' = registry
    BY <1>3 DEF Put, ReleasedFrom, LiveListEntry
  <2> QED
    BY <1>1, <1>2, <1>3, <2>1 DEF ChangesOne
<1>4. CASE R.disposed /\ R.sock = "closed" /\ ~E.disposed /\ E.handles = {}
  <2>1. registry' = Deregister(e)
    BY <1>4 DEF Put
  <2> QED
    BY <1>1, <1>2, <1>4, <2>1 DEF ChangesOne
<1> QED
  BY <1>3, <1>4 DEF ReleasedFrom

\* A consumer opens a subscription of its own.
LEMMA EntriesOpen ==
  ASSUME TypeOK, EntriesInv, NEW h \in Handles, NEW e \in Entries, Open(h, e) PROVE EntriesInv'
<1>1. handles[h].state = "unused" /\ handles[h].entry = NoEntry /\ entries[e].sock = "none"
  BY DEF Open, Fresh, Unused, TypeOK
<1>2. entries[e].handles = {} /\ registry # e /\ \A k \in Handles : handles[k].entry # e
  BY <1>1, UnusedIsFree DEF EntriesInv, OneLiveStream
<1>3. PICK shared \in BOOLEAN, window \in BOOLEAN, state \in {"creating", "attached", "released"},
           F \in LiveListEntry :
        /\ shared /\ registry # NoEntry =>
             entries[registry].disposed \/ entries[registry].status = "closed"
        /\ entries' = [entries EXCEPT ![e] = F]
        /\ Handle(h, e, window, state)
        /\ F.shared = shared /\ F.grace = window /\ F.status = "connecting"
        /\ \/ /\ state # "released" /\ F.handles = {h} /\ F.sock = "open" /\ ~F.disposed
              /\ registry' = IF shared THEN e ELSE registry
           \/ /\ state = "released" /\ F.handles = {} /\ F.sock = "closed" /\ F.disposed
              /\ registry' = registry
  <2>1. PICK shared \in BOOLEAN, window \in BOOLEAN :
          LET E == NewEntry(h, shared, window)
              owned == IF shared THEN e ELSE registry
          IN /\ shared /\ registry # NoEntry =>
                  entries[registry].disposed \/ entries[registry].status = "closed"
             /\ \/ /\ entries' = [entries EXCEPT ![e] = E]
                   /\ registry' = owned
                   /\ Handle(h, e, window, "attached")
                \/ /\ entries' = [entries EXCEPT ![e] = [Disposed(E) EXCEPT !.handles = {}]]
                   /\ UNCHANGED registry
                   /\ Handle(h, e, window, "released")
                \/ /\ entries' = [entries EXCEPT ![e] = [E EXCEPT !.delivering = TRUE]]
                   /\ registry' = owned
                   /\ Handle(h, e, window, "creating")
    BY DEF Open
  <2> DEFINE E == NewEntry(h, shared, window)
             A == [Disposed(E) EXCEPT !.handles = {}]
             B == [E EXCEPT !.delivering = TRUE]
  <2>2. /\ E \in LiveListEntry /\ E.shared = shared /\ E.grace = window /\ E.status = "connecting"
        /\ E.handles = {h} /\ E.sock = "open" /\ ~E.disposed
    BY DEF NewEntry, LiveListEntry, Statuses
  <2>3. /\ A \in LiveListEntry /\ A.shared = shared /\ A.grace = window /\ A.status = "connecting"
        /\ A.handles = {} /\ A.sock = "closed" /\ A.disposed
    BY DEF NewEntry, LiveListEntry, Statuses, Disposed
  <2>4. /\ B \in LiveListEntry /\ B.shared = shared /\ B.grace = window /\ B.status = "connecting"
        /\ B.handles = {h} /\ B.sock = "open" /\ ~B.disposed
    BY DEF NewEntry, LiveListEntry, Statuses
  <2>5. CASE entries' = [entries EXCEPT ![e] = E] /\ Handle(h, e, window, "attached")
             /\ registry' = IF shared THEN e ELSE registry
    BY <2>1, <2>2, <2>5
  <2>6. CASE entries' = [entries EXCEPT ![e] = A] /\ Handle(h, e, window, "released")
             /\ registry' = registry
    BY <2>1, <2>3, <2>6
  <2>7. CASE entries' = [entries EXCEPT ![e] = B] /\ Handle(h, e, window, "creating")
             /\ registry' = IF shared THEN e ELSE registry
    BY <2>1, <2>4, <2>7
  <2> QED
    BY <2>1, <2>5, <2>6, <2>7
<1>4. \A x \in Entries : entries'[x] = IF x = e THEN F ELSE entries[x]
  BY <1>3 DEF TypeOK
<1>5. \A k \in Handles : k # h => handles'[k] = handles[k]
  BY <1>3 DEF Handle, TypeOK
<1>6. handles'[h].state = state /\ handles'[h].entry = e /\ handles'[h].window = window
  BY <1>3 DEF Handle, TypeOK
<1>7. shared => registry = NoEntry
  BY <1>3 DEF EntriesInv, OneLiveStream, DeadHaveNoSocket, TypeOK
<1>8. OneLiveStream'
  <2> SUFFICES ASSUME NEW x \in Entries
               PROVE (/\ entries'[x].sock = "open" /\ entries'[x].shared
                      /\ entries'[x].status # "closed") <=> registry' = x
    BY DEF OneLiveStream
  <2>1. CASE x = e
    BY <1>2, <1>3, <1>4, <2>1, SentinelAssumption
  <2>2. CASE x # e
    <3>1. (/\ entries[x].sock = "open" /\ entries[x].shared
           /\ entries[x].status # "closed") <=> registry = x
      BY DEF EntriesInv, OneLiveStream
    <3>2. registry' = x <=> registry = x
      BY <1>3, <1>7, <2>2, SentinelAssumption
    <3> QED
      BY <1>4, <2>2, <3>1, <3>2
  <2> QED
    BY <2>1, <2>2
<1>9. NeverTornFromUnder'
  <2> SUFFICES ASSUME NEW k \in Handles, handles'[k].state \in {"creating", "attached"}
               PROVE  ~entries'[handles'[k].entry].disposed
    BY DEF NeverTornFromUnder
  <2>1. CASE k = h
    BY <1>3, <1>4, <1>6, <2>1
  <2>2. CASE k # h
    <3>1. handles[k].entry \in Entries \ {e}
      BY <1>2, <1>5, <2>2 DEF TypeOK, EntryHandle
    <3> QED
      BY <1>4, <1>5, <2>2, <3>1 DEF EntriesInv, NeverTornFromUnder
  <2> QED
    BY <2>1, <2>2
<1>10. HandlesAreCounted'
  <2> SUFFICES ASSUME NEW x \in Entries, NEW k \in Handles
               PROVE  k \in entries'[x].handles <=>
                        handles'[k].entry = x /\ handles'[k].state \in Live
    BY DEF HandlesAreCounted
  <2>1. k \in entries[x].handles <=> handles[k].entry = x /\ handles[k].state \in Live
    BY DEF EntriesInv, HandlesAreCounted
  <2>2. CASE x = e /\ k = h
    BY <1>3, <1>4, <1>6, <2>2 DEF Live
  <2>3. CASE x = e /\ k # h
    BY <1>2, <1>3, <1>4, <1>5, <2>3
  <2>4. CASE x # e /\ k = h
    BY <1>1, <1>4, <1>6, <2>1, <2>4, SentinelAssumption
  <2>5. CASE x # e /\ k # h
    BY <1>4, <1>5, <2>1, <2>5
  <2> QED
    BY <2>2, <2>3, <2>4, <2>5
<1>11. DeadHaveNoSocket'
  <2>1. ASSUME NEW x \in Entries, entries'[x].disposed \/ entries'[x].status = "closed"
        PROVE  entries'[x].sock = "closed"
    BY <1>3, <1>4, <2>1 DEF EntriesInv, DeadHaveNoSocket
  <2>2. ASSUME NEW k \in Handles, handles'[k].entry \in Entries
        PROVE  entries'[handles'[k].entry].sock # "none"
    BY <1>2, <1>3, <1>4, <1>5, <1>6, <2>2 DEF EntriesInv, DeadHaveNoSocket
  <2> QED
    BY <2>1, <2>2 DEF DeadHaveNoSocket
<1>12. GraceWasAsked'
  <2> SUFFICES ASSUME NEW x \in Entries, entries'[x].grace
               PROVE  \E k \in Handles : handles'[k].entry = x /\ handles'[k].window
    BY DEF GraceWasAsked
  <2>1. CASE x = e
    BY <1>3, <1>4, <1>6, <2>1
  <2>2. CASE x # e
    <3>1. PICK k \in Handles : handles[k].entry = x /\ handles[k].window
      BY <1>4, <2>2 DEF EntriesInv, GraceWasAsked
    <3>2. k # h
      BY <1>1, <3>1, SentinelAssumption
    <3> QED
      BY <1>5, <3>1, <3>2
  <2> QED
    BY <2>1, <2>2
<1> QED
  BY <1>8, <1>9, <1>10, <1>11, <1>12 DEF EntriesInv

\* The consumer that closes, and what is left of its entry.
Left(h) ==
  LET left == [entries[handles[h].entry] EXCEPT !.handles = @ \ {h}]
  IN [left EXCEPT !.grace = GraceOf(left, {h})]

LEMMA LeftIs ==
  ASSUME TypeOK, EntriesInv, NEW h \in Handles, handles[h].state = "attached",
         NEW e, e = handles[h].entry
  PROVE  /\ e \in Entries /\ Left(h) \in LiveListEntry
         /\ Left(h).handles = entries[e].handles \ {h}
         /\ Left(h).sock = entries[e].sock /\ Left(h).shared = entries[e].shared
         /\ Left(h).disposed = entries[e].disposed /\ Left(h).status = entries[e].status
         /\ Left(h).rev = entries[e].rev /\ Left(h).delivering = entries[e].delivering
         /\ Left(h).releaseTimer = entries[e].releaseTimer
         /\ Left(h).grace => \E k \in Handles : handles[k].entry = e /\ handles[k].window
         /\ Left(h).grace /\ Left(h).handles = {} => handles[h].window
<1>1. e \in Entries /\ entries[e] \in LiveListEntry
  BY DEF TypeOK, EntryHandle
<1> DEFINE left == [entries[e] EXCEPT !.handles = @ \ {h}]
<1>2. /\ left.handles = entries[e].handles \ {h} /\ left \in LiveListEntry
      /\ left.sock = entries[e].sock /\ left.shared = entries[e].shared
      /\ left.disposed = entries[e].disposed /\ left.status = entries[e].status
      /\ left.rev = entries[e].rev /\ left.delivering = entries[e].delivering
      /\ left.releaseTimer = entries[e].releaseTimer
  BY <1>1 DEF LiveListEntry
<1>3. Left(h) = [left EXCEPT !.grace = GraceOf(left, {h})]
  BY DEF Left
<1> HIDE DEF left
<1>4. GraceOf(left, {h}) \in BOOLEAN
  BY DEF GraceOf
<1>5. GraceOf(left, {h}) => \E k \in left.handles \cup {h} : handles[k].window
  BY DEF GraceOf
<1>6. \A k \in left.handles \cup {h} : k \in Handles /\ handles[k].entry = e
  BY <1>1, <1>2 DEF EntriesInv, HandlesAreCounted, LiveListEntry
<1>7. GraceOf(left, {h}) /\ left.handles = {} => handles[h].window
  BY DEF GraceOf
<1>8. Left(h) \in LiveListEntry
  BY <1>2, <1>3, <1>4 DEF LiveListEntry
<1>9. /\ Left(h).handles = left.handles /\ Left(h).sock = left.sock /\ Left(h).shared = left.shared
      /\ Left(h).disposed = left.disposed /\ Left(h).status = left.status
      /\ Left(h).rev = left.rev /\ Left(h).delivering = left.delivering
      /\ Left(h).releaseTimer = left.releaseTimer /\ Left(h).grace = GraceOf(left, {h})
  BY <1>2, <1>3 DEF LiveListEntry
<1> QED
  BY <1>1, <1>2, <1>5, <1>6, <1>7, <1>8, <1>9

\* close() puts back what is left of the entry.
LEMMA CloseIs ==
  ASSUME TypeOK, EntriesInv, NEW h \in Handles, Close(h), NEW e, e = handles[h].entry
  PROVE  /\ handles[h].state = "attached" /\ UNCHANGED <<microtasks, stack>>
         /\ ReleasedFrom(Left(h), Released(Left(h))) /\ Put(e, Released(Left(h)))
         /\ \A k \in Handles :
              handles'[k] = IF k = h THEN [handles[k] EXCEPT !.state = "released"] ELSE handles[k]
<1>1. handles[h].state = "attached" /\ handles' = [handles EXCEPT ![h].state = "released"]
  BY DEF Close
<1>2. Put(e, Released(Left(h))) /\ UNCHANGED <<microtasks, stack>>
  BY DEF Close, Left
<1>3. Left(h) \in LiveListEntry
  BY <1>1, LeftIs
<1> QED
  BY <1>1, <1>2, <1>3, ReleasedIs DEF TypeOK

\* The end of a fan-out puts the entry back, released if that was put off.
UnwoundOf(e) == [entries[e] EXCEPT !.delivering = FALSE, !.releaseAfterDelivery = FALSE]
Back(e) == IF entries[e].releaseAfterDelivery THEN Released(UnwoundOf(e)) ELSE UnwoundOf(e)

LEMMA UnwindIs ==
  ASSUME TypeOK, Unwind, NEW e, e = Top.entry
  PROVE  /\ stack # <<>> /\ Top \in Frame /\ Top.todo = {} /\ e \in Entries
         /\ Top.kind \in Fans \cup {"microtask"}
         /\ stack' = Pop /\ UNCHANGED <<handles, microtasks>>
         /\ UnwoundOf(e) \in LiveListEntry
         /\ UnwoundOf(e).handles = entries[e].handles /\ UnwoundOf(e).sock = entries[e].sock
         /\ UnwoundOf(e).shared = entries[e].shared /\ UnwoundOf(e).grace = entries[e].grace
         /\ UnwoundOf(e).disposed = entries[e].disposed /\ UnwoundOf(e).status = entries[e].status
         /\ UnwoundOf(e).rev = entries[e].rev /\ ~UnwoundOf(e).delivering
         /\ UnwoundOf(e).releaseTimer = entries[e].releaseTimer
         /\ \/ Top.kind = "microtask" /\ UNCHANGED <<registry, entries>>
            \/ /\ Top.kind \in Fans /\ Put(e, Back(e))
               /\ entries[e].releaseAfterDelivery => ReleasedFrom(UnwoundOf(e), Back(e))
               /\ ~entries[e].releaseAfterDelivery => Back(e) = UnwoundOf(e)
<1>1. stack # <<>> /\ Top.todo = {} /\ Top.kind \in FanKinds
  BY DEF Unwind
<1>2. Top \in Frame /\ e \in Entries
  BY <1>1, PopIs DEF TypeOK, Frame
<1>3. entries[e] \in LiveListEntry
  BY <1>2 DEF TypeOK
<1>4. /\ UnwoundOf(e) \in LiveListEntry
      /\ UnwoundOf(e).handles = entries[e].handles /\ UnwoundOf(e).sock = entries[e].sock
      /\ UnwoundOf(e).shared = entries[e].shared /\ UnwoundOf(e).grace = entries[e].grace
      /\ UnwoundOf(e).disposed = entries[e].disposed /\ UnwoundOf(e).status = entries[e].status
      /\ UnwoundOf(e).rev = entries[e].rev /\ ~UnwoundOf(e).delivering
      /\ UnwoundOf(e).releaseTimer = entries[e].releaseTimer
  BY <1>3 DEF UnwoundOf, LiveListEntry
<1>5. stack' = Pop /\ UNCHANGED <<handles, microtasks>>
  BY DEF Unwind
<1>6. CASE Top.kind = "microtask"
  BY <1>1, <1>2, <1>4, <1>5, <1>6 DEF Unwind
<1>7. CASE Top.kind # "microtask"
  <2>1. Top.kind \in Fans
    BY <1>1, <1>7 DEF FanKinds, Fans
  <2>2. Put(e, Back(e))
    BY <1>7 DEF Unwind, Back, UnwoundOf
  <2>3. ReleasedFrom(UnwoundOf(e), Released(UnwoundOf(e)))
    BY <1>4, ReleasedIs
  <2> QED
    BY <1>1, <1>2, <1>4, <1>5, <2>1, <2>2, <2>3 DEF Back
<1> QED
  BY <1>6, <1>7

\* What one of these steps does to the entries.
EntryChanges ==
  \/ UNCHANGED <<registry, entries, handles>>
  \/ \E e \in Entries, D \in SUBSET Handles : ChangesOne(e, entries'[e], D)

ChangeSteps ==
  \/ \E h \in Handles : Close(h)
  \/ \E e \in Entries : ReleaseTimer(e) \/ ListEvent(e) \/ StatusEvent(e) \/ ErrorEvent(e)
  \/ Unwind \/ Closed

LEMMA StepsChangeOne == ASSUME TypeOK, EntriesInv, ChangeSteps PROVE EntryChanges
<1>1. ASSUME NEW e \in Entries, NEW F, NEW D \in SUBSET Handles, ChangesOne(e, F, D)
      PROVE  EntryChanges
  <2>1. entries'[e] = F
    BY <1>1 DEF ChangesOne
  <2> QED
    BY <1>1, <2>1 DEF EntryChanges
<1>2. ASSUME NEW h \in Handles, Close(h) PROVE EntryChanges
  <2>1. PICK e : e = handles[h].entry
    OBVIOUS
  <2>2. /\ handles[h].state = "attached"
        /\ ReleasedFrom(Left(h), Released(Left(h))) /\ Put(e, Released(Left(h)))
        /\ \A k \in Handles :
             handles'[k] = IF k = h THEN [handles[k] EXCEPT !.state = "released"] ELSE handles[k]
    BY <1>2, <2>1, CloseIs
  <2>3. /\ e \in Entries /\ Left(h) \in LiveListEntry
        /\ Left(h).handles = entries[e].handles \ {h}
        /\ Left(h).sock = entries[e].sock /\ Left(h).shared = entries[e].shared
        /\ Left(h).disposed = entries[e].disposed /\ Left(h).status = entries[e].status
        /\ Left(h).grace => \E k \in Handles : handles[k].entry = e /\ handles[k].window
    BY <2>1, <2>2, LeftIs
  <2>4. \A k \in {h} : Leave(k) /\ handles[k].entry = e
    BY <2>1, <2>2 DEF Leave, Live, TypeOK, EntryHandle
  <2>5. \A k \in Handles : /\ handles'[k].entry = handles[k].entry
                           /\ handles'[k].window = handles[k].window
                           /\ k \notin {h} => (handles'[k].state \in Live <=> handles[k].state \in Live)
    BY <2>2 DEF TypeOK, EntryHandle
  <2>6. ChangesOne(e, Released(Left(h)), {h})
    BY <2>2, <2>3, <2>4, <2>5, PutChanges
  <2> QED
    BY <2>3, <2>6, <1>1 DEF EntryChanges
<1>3. ASSUME NEW e \in Entries, ReleaseTimer(e) PROVE EntryChanges
  <2> DEFINE E == [entries[e] EXCEPT !.releaseTimer = FALSE]
             R == IF E.handles = {} THEN Disposed(E) ELSE E
  <2>1. Put(e, R) /\ UNCHANGED handles
    BY <1>3 DEF ReleaseTimer
  <2>2. entries[e] \in LiveListEntry
    BY DEF TypeOK
  <2>3. /\ E.handles = entries[e].handles /\ E.sock = entries[e].sock /\ E.shared = entries[e].shared
        /\ E.disposed = entries[e].disposed /\ E.status = entries[e].status
        /\ E.grace = entries[e].grace
    BY <2>2 DEF LiveListEntry
  <2>4. /\ R.handles = entries[e].handles /\ R.shared = entries[e].shared
        /\ R.grace = entries[e].grace /\ R.status = entries[e].status
        /\ \/ entries[e].handles # {} /\ R.sock = entries[e].sock /\ R.disposed = entries[e].disposed
           \/ entries[e].handles = {} /\ R.sock = "closed" /\ R.disposed
    BY <2>2, <2>3 DEF LiveListEntry, Disposed
  <2> HIDE DEF R, E
  <2>5. \A x \in Entries : entries'[x] = IF x = e THEN R ELSE entries[x]
    BY <2>1 DEF Put, TypeOK
  <2>6. R.grace => \E k \in Handles : handles[k].entry = e /\ handles[k].window
    BY <2>4 DEF EntriesInv, GraceWasAsked
  <2>7. registry' = registry \/ registry' = Deregister(e)
    BY <2>1 DEF Put
  <2>8. entries[e].disposed => Deregister(e) = registry
    BY DEF EntriesInv, OneLiveStream, DeadHaveNoSocket, Deregister
  <2>9. registry' = IF R.disposed /\ ~entries[e].disposed THEN Deregister(e) ELSE registry
    BY <2>1 DEF Put
  <2>10. R.disposed \in BOOLEAN /\ entries[e].disposed \in BOOLEAN
    BY <2>2, <2>4 DEF LiveListEntry
  <2>11. \/ registry' = registry /\ R.sock = entries[e].sock /\ R.disposed = entries[e].disposed
         \/ registry' = Deregister(e) /\ R.sock = "closed" /\ R.handles = {}
    BY <2>4, <2>8, <2>9, <2>10
  <2>12. ChangesOne(e, R, {})
    BY <2>1, <2>4, <2>5, <2>6, <2>11 DEF ChangesOne
  <2> QED
    BY <2>12, <1>1 DEF EntryChanges
<1>4. ASSUME NEW e \in Entries, ListEvent(e) \/ StatusEvent(e) \/ ErrorEvent(e) PROVE EntryChanges
  <2>1. entries[e] \in LiveListEntry /\ entries[e].sock = "open"
    BY <1>4 DEF TypeOK, ListEvent, StatusEvent, ErrorEvent, Receives
  <2>2. entries[e].status # "closed"
    BY <2>1 DEF EntriesInv, DeadHaveNoSocket
  <2>3. PICK E \in LiveListEntry :
          /\ entries' = [entries EXCEPT ![e] = [E EXCEPT !.delivering = TRUE]]
          /\ E.shared = entries[e].shared /\ E.handles = entries[e].handles
          /\ E.grace = entries[e].grace /\ E.sock = entries[e].sock
          /\ E.disposed = entries[e].disposed /\ E.status # "closed"
    <3>1. CASE ListEvent(e)
      <4> DEFINE E == [entries[e] EXCEPT !.rev = @ + 1]
      <4>1. E \in LiveListEntry
        BY <2>1, UpdatesFit DEF Statuses
      <4>2. entries' = [entries EXCEPT ![e] = [E EXCEPT !.delivering = TRUE]]
        BY <3>1 DEF ListEvent, Deliver
      <4>3. /\ E.shared = entries[e].shared /\ E.handles = entries[e].handles
            /\ E.grace = entries[e].grace /\ E.sock = entries[e].sock
            /\ E.disposed = entries[e].disposed /\ E.status = entries[e].status
        BY <2>1 DEF LiveListEntry
      <4> QED
        BY <2>2, <4>1, <4>2, <4>3
    <3>2. CASE StatusEvent(e)
      <4>1. PICK s \in {"live", "reconnecting"} :
              Deliver(e, [entries[e] EXCEPT !.status = s], "sync", stack)
        BY <3>2 DEF StatusEvent
      <4> DEFINE E == [entries[e] EXCEPT !.status = s]
      <4>2. E \in LiveListEntry
        BY <2>1, UpdatesFit DEF Statuses
      <4>3. entries' = [entries EXCEPT ![e] = [E EXCEPT !.delivering = TRUE]]
        BY <4>1 DEF Deliver
      <4>4. /\ E.shared = entries[e].shared /\ E.handles = entries[e].handles
            /\ E.grace = entries[e].grace /\ E.sock = entries[e].sock
            /\ E.disposed = entries[e].disposed /\ E.status = s
        BY <2>1 DEF LiveListEntry
      <4> QED
        BY <4>2, <4>3, <4>4
    <3>3. CASE ErrorEvent(e)
      BY <2>1, <2>2, <3>3 DEF ErrorEvent, Deliver
    <3> QED
      BY <1>4, <3>1, <3>2, <3>3
  <2> DEFINE F == [E EXCEPT !.delivering = TRUE]
  <2>4. /\ F.shared = E.shared /\ F.handles = E.handles /\ F.grace = E.grace /\ F.sock = E.sock
        /\ F.disposed = E.disposed /\ F.status = E.status
    BY DEF LiveListEntry
  <2> HIDE DEF F
  <2>5. \A x \in Entries : entries'[x] = IF x = e THEN F ELSE entries[x]
    BY <2>3 DEF F, TypeOK
  <2>6. F.grace => \E k \in Handles : handles[k].entry = e /\ handles[k].window
    BY <2>3, <2>4 DEF EntriesInv, GraceWasAsked
  <2>7. UNCHANGED <<registry, handles>>
    BY <1>4 DEF ListEvent, StatusEvent, ErrorEvent
  <2>8. ChangesOne(e, F, {})
    BY <2>2, <2>3, <2>4, <2>5, <2>6, <2>7 DEF ChangesOne
  <2> QED
    BY <2>8, <1>1 DEF EntryChanges
<1>5. CASE Unwind
  <2>1. PICK e : e = Top.entry
    OBVIOUS
  <2>2. /\ e \in Entries /\ UNCHANGED <<handles, microtasks>>
        /\ UnwoundOf(e) \in LiveListEntry
        /\ UnwoundOf(e).handles = entries[e].handles /\ UnwoundOf(e).sock = entries[e].sock
        /\ UnwoundOf(e).shared = entries[e].shared /\ UnwoundOf(e).grace = entries[e].grace
        /\ UnwoundOf(e).disposed = entries[e].disposed /\ UnwoundOf(e).status = entries[e].status
        /\ \/ Top.kind = "microtask" /\ UNCHANGED <<registry, entries>>
           \/ /\ Top.kind \in Fans /\ Put(e, Back(e))
              /\ entries[e].releaseAfterDelivery => ReleasedFrom(UnwoundOf(e), Back(e))
              /\ ~entries[e].releaseAfterDelivery => Back(e) = UnwoundOf(e)
    BY <1>5, <2>1, UnwindIs
  <2>3. UnwoundOf(e).grace => \E k \in Handles : handles[k].entry = e /\ handles[k].window
    BY <2>2 DEF EntriesInv, GraceWasAsked
  <2>4. CASE Top.kind = "microtask"
    BY <2>2, <2>4 DEF EntryChanges, Fans
  <2>5. CASE Top.kind # "microtask" /\ entries[e].releaseAfterDelivery
    <3>1. ReleasedFrom(UnwoundOf(e), Back(e)) /\ Put(e, Back(e))
      BY <2>2, <2>5
    <3>2. ChangesOne(e, Back(e), {})
      BY <2>2, <2>3, <3>1, PutChanges
    <3> QED
      BY <2>2, <3>2, <1>1 DEF EntryChanges
  <2>6. CASE Top.kind # "microtask" /\ ~entries[e].releaseAfterDelivery
    <3>1. Back(e) = UnwoundOf(e) /\ Put(e, UnwoundOf(e))
      BY <2>2, <2>6
    <3>2. \A x \in Entries : entries'[x] = IF x = e THEN UnwoundOf(e) ELSE entries[x]
      BY <3>1 DEF Put, TypeOK
    <3>3. registry' = registry
      BY <2>2, <3>1 DEF Put
    <3>4. ChangesOne(e, UnwoundOf(e), {})
      BY <2>2, <2>3, <3>2, <3>3 DEF ChangesOne
    <3> QED
      BY <2>2, <3>4, <1>1 DEF EntryChanges
  <2> QED
    BY <2>4, <2>5, <2>6
<1>8. CASE Closed
  <2>1. PICK e : e = Top.entry
    OBVIOUS
  <2>2. e \in Entries
    BY <1>8, <2>1, PopIs DEF Closed, TypeOK, Frame
  <2>3. CASE entries[e].disposed
    BY <1>8, <2>1, <2>3 DEF EntryChanges, Closed
  <2>4. CASE ~entries[e].disposed
    <3> DEFINE E == [entries[e] EXCEPT !.status = "closed", !.sock = "closed"]
               F == [E EXCEPT !.delivering = TRUE]
    <3>1. Retire(e) /\ Deliver(e, E, "sync", Pop) /\ UNCHANGED handles
      BY <1>8, <2>1, <2>4 DEF Closed
    <3>2. entries[e] \in LiveListEntry
      BY <2>2 DEF TypeOK
    <3>3. /\ F.shared = entries[e].shared /\ F.handles = entries[e].handles
          /\ F.grace = entries[e].grace /\ F.sock = "closed" /\ F.disposed = entries[e].disposed
      BY <3>2 DEF LiveListEntry
    <3>4. entries' = [entries EXCEPT ![e] = F]
      BY <3>1 DEF Deliver
    <3> HIDE DEF F, E
    <3>5. \A x \in Entries : entries'[x] = IF x = e THEN F ELSE entries[x]
      BY <3>4 DEF TypeOK
    <3>6. F.grace => \E k \in Handles : handles[k].entry = e /\ handles[k].window
      BY <2>2, <3>3 DEF EntriesInv, GraceWasAsked
    <3>7. ChangesOne(e, F, {})
      BY <2>4, <3>1, <3>3, <3>5, <3>6 DEF ChangesOne, Retire
    <3> QED
      BY <2>2, <3>7, <1>1 DEF EntryChanges
  <2> QED
    BY <2>3, <2>4
<1> QED
  BY <1>2, <1>3, <1>4, <1>5, <1>8 DEF ChangeSteps

LEMMA EntriesKept ==
  ASSUME TypeOK, EntriesInv, FramesFit, [Next]_vars PROVE EntriesInv'
<1>1. CASE UNCHANGED <<registry, entries, handles>>
  BY <1>1 DEF EntriesInv, OneLiveStream, NeverTornFromUnder, HandlesAreCounted,
              DeadHaveNoSocket, GraceWasAsked
<1>2. CASE ChangeSteps
  BY <1>1, <1>2, StepsChangeOne, EntriesChange DEF EntryChanges
<1>6. CASE Return
  <2>1. Len(stack) \in 1..Len(stack) /\ stack # <<>> /\ Top.kind = "return"
    BY <1>6, PopIs DEF Return, TypeOK
  <2>2. \A h \in Top.todo : handles[h].state = "creating"
    BY <2>1 DEF FramesFit, FrameFits, Top
  <2>3. \A h \in Handles : /\ handles'[h].entry = handles[h].entry
                           /\ handles'[h].window = handles[h].window
                           /\ handles'[h].state \in Live <=> handles[h].state \in Live
    BY <1>6, <2>2 DEF Return, TypeOK, EntryHandle, Live
  <2>4. UNCHANGED <<registry, entries>>
    BY <1>6 DEF Return
  <2> QED
    BY <2>3, <2>4 DEF EntriesInv, OneLiveStream, NeverTornFromUnder, HandlesAreCounted,
                      DeadHaveNoSocket, GraceWasAsked, Live
<1>7. ASSUME NEW h \in Handles, Visit(h) PROVE EntriesInv'
  <2>1. UNCHANGED <<registry, entries>>
    BY <1>7 DEF Visit
  <2>2. \A x \in Handles : /\ handles'[x].entry = handles[x].entry
                           /\ handles'[x].window = handles[x].window
                           /\ handles'[x].state = handles[x].state
    BY <1>7 DEF Visit, TypeOK, EntryHandle
  <2> QED
    BY <2>1, <2>2 DEF EntriesInv, OneLiveStream, NeverTornFromUnder, HandlesAreCounted,
                      DeadHaveNoSocket, GraceWasAsked
<1>9. ASSUME NEW h \in Handles, Microtask(h) PROVE EntriesInv'
  BY <1>1, <1>9 DEF Microtask
<1> QED
  BY <1>1, <1>2, <1>6, <1>7, <1>9, EntriesJoin, EntriesOpen DEF Next, vars, ChangeSteps

-----------------------------------------------------------------------------
(* The call stack.                                                         *)

\* What a step never undoes: an entry stays opened, a consumer keeps its entry and
\* its window, and only the call that returns it ends its creation.
Lasting ==
  /\ \A x \in Entries : entries[x].sock # "none" => entries'[x].sock # "none"
  /\ \A k \in Handles : handles[k].state # "unused" =>
       handles'[k].entry = handles[k].entry /\ handles'[k].window = handles[k].window
  /\ ~Return => \A k \in Handles : handles[k].state = "creating" => handles'[k].state = "creating"

LEMMA ChangeLasts ==
  ASSUME TypeOK, NEW e \in Entries, NEW F, NEW D, ChangesOne(e, F, D),
         \A k \in Handles : handles[k].state = "creating" => handles'[k].state = "creating"
  PROVE  Lasting
  BY DEF Lasting, ChangesOne

LEMMA StepLasts == ASSUME TypeOK, EntriesInv, FramesFit, [Next]_vars PROVE Lasting
<1>1. CASE UNCHANGED <<entries, handles>>
  BY <1>1 DEF Lasting
<1>2. CASE ChangeSteps
  <2>1. \A k \in Handles : handles[k].state = "creating" => handles'[k].state = "creating"
    <3>1. CASE UNCHANGED handles
      BY <3>1
    <3>2. CASE \E h \in Handles : Close(h)
      BY <3>2 DEF Close, TypeOK, EntryHandle
    <3> QED
      BY <1>2, <3>1, <3>2 DEF ChangeSteps, ReleaseTimer, ListEvent, StatusEvent, ErrorEvent,
                             Unwind, Closed
  <2> QED
    BY <1>2, <2>1, StepsChangeOne, ChangeLasts DEF EntryChanges, Lasting
<1>3. ASSUME NEW h \in Handles, Join(h) PROVE Lasting
  <2>1. PICK r \in Entries : r = registry
    BY <1>3 DEF Join, TypeOK
  <2>2. PICK window \in BOOLEAN :
          /\ entries' = [entries EXCEPT ![r] = Attached(entries[r], h, window)]
          /\ Handle(h, r, window, "attached")
    BY <1>3, <2>1 DEF Join
  <2>3. Attached(entries[r], h, window).sock = entries[r].sock
    BY DEF Attached, TypeOK, LiveListEntry
  <2>4. \A x \in Entries : entries[x].sock # "none" => entries'[x].sock # "none"
    BY <2>2, <2>3 DEF TypeOK
  <2>5. \A k \in Handles : handles[k].state # "unused" => handles'[k] = handles[k]
    BY <1>3, <2>2 DEF Join, Fresh, Handle, TypeOK
  <2> QED
    BY <2>4, <2>5 DEF Lasting
<1>4. ASSUME NEW h \in Handles, NEW e \in Entries, Open(h, e) PROVE Lasting
  <2>1. entries[e].sock = "none" /\ handles[h].state = "unused"
    BY <1>4 DEF Open, Unused, Fresh
  <2>2. \E F \in {entries'[e]} : entries' = [entries EXCEPT ![e] = F]
    BY <1>4 DEF Open, TypeOK
  <2>3. \A k \in Handles : handles[k].state # "unused" => handles'[k] = handles[k]
    BY <1>4, <2>1 DEF Open, Handle, TypeOK
  <2> QED
    BY <2>1, <2>2, <2>3 DEF Lasting, TypeOK
<1>5. ASSUME NEW h \in Handles, Visit(h) PROVE Lasting
  <2>1. \A x \in Handles : /\ handles'[x].entry = handles[x].entry
                           /\ handles'[x].window = handles[x].window
                           /\ handles'[x].state = handles[x].state
    BY <1>5 DEF Visit, TypeOK, EntryHandle
  <2> QED
    BY <1>5, <2>1 DEF Visit, Lasting
<1>6. CASE Return
  BY <1>6 DEF Return, Lasting, TypeOK, EntryHandle
<1> QED
  BY <1>1, <1>2, <1>3, <1>4, <1>5, <1>6 DEF Next, vars, ChangeSteps, Microtask

\* A frame that fitted still does, unless the step returns from the call it is about.
LEMMA FitLasts ==
  ASSUME TypeOK, Lasting, NEW f \in Frame, FrameFits(f),
         f.kind = "return" /\ Return => \A h \in f.todo : handles'[h].state = "creating"
  PROVE  FrameFits(f)'
<1>1. f.entry \in Entries /\ f.todo \in SUBSET Handles
  BY DEF Frame
<1>2. \A h \in f.todo : handles[h].state # "unused"
  BY <1>1, SentinelAssumption DEF FrameFits, TypeOK
<1>3. \A h \in f.todo : handles'[h].entry = f.entry
  BY <1>1, <1>2 DEF Lasting, FrameFits
<1>4. entries'[f.entry].sock # "none"
  BY <1>1 DEF Lasting, FrameFits
<1>5. f.kind = "return" => \A h \in f.todo : handles'[h].state = "creating"
  BY <1>1 DEF Lasting, FrameFits
<1> QED
  BY <1>3, <1>4, <1>5 DEF FrameFits

\* A new frame is about an entry that is open and visits its consumers.
NewFits(g) == entries'[g.entry].sock # "none" /\ \A h \in g.todo : handles'[h].entry = g.entry

\* What a step does to the stack.
Untouched == stack' = stack
Popped == stack # <<>> /\ stack' = Pop
Revisited ==
  /\ stack # <<>>
  /\ \E g \in Frame :
       /\ stack' = Append(Pop, g)
       /\ g.kind = Top.kind /\ g.entry = Top.entry /\ g.todo \subseteq Top.todo
       /\ Top.kind \in FanKinds
\* The loop's task fans out, or a terminal error does, with a close to follow.
Started ==
  /\ stack = <<>>
  /\ \E g \in Frame :
       /\ g.kind \in FanKinds /\ NewFits(g)
       /\ \/ stack' = <<g>>
          \/ g.kind = "error" /\ stack' = Append(<<Fan("close", g.entry, {})>>, g)
ClosedOut ==
  /\ stack # <<>> /\ Top.kind = "close"
  /\ \E g \in Frame :
       stack' = Append(Pop, g) /\ g.kind = "sync" /\ g.entry = Top.entry /\ NewFits(g)
CallFailed(h, e) ==
  /\ handles[h].state = "unused" /\ entries[e].sock = "none"
  /\ handles'[h].state = "creating" /\ handles'[h].entry = e /\ entries'[e].sock = "open"
  /\ stack' = stack \o <<Fan("return", e, {h}), Fan("close", e, {}), Fan("error", e, {h})>>

LEMMA StackSteps ==
  ASSUME TypeOK, EntriesInv, FramesFit, Lasting, [Next]_vars
  PROVE  \/ Untouched \/ Popped \/ Revisited \/ Started \/ ClosedOut
         \/ \E h \in Handles, e \in Entries : CallFailed(h, e)
<1> SUFFICES ASSUME ~Untouched
             PROVE \/ Popped \/ Revisited \/ Started \/ ClosedOut
                   \/ \E h \in Handles, e \in Entries : CallFailed(h, e)
  OBVIOUS
<1>1. CASE Unwind \/ Return
  BY <1>1 DEF Unwind, Return, Popped
<1>2. ASSUME NEW h \in Handles, Visit(h) PROVE Revisited
  <2>1. stack # <<>> /\ Top \in Frame /\ Top.kind \in FanKinds
    BY <1>2, PopIs DEF Visit, TypeOK
  <2>2. PICK k \in Handles \cup {NoHandle} :
          stack' = Append(Pop, [Top EXCEPT !.todo = @ \ {h}, !.at = k])
    BY <1>2 DEF Visit
  <2>3. ASSUME NEW f \in Frame
        PROVE  LET g == [f EXCEPT !.todo = @ \ {h}, !.at = k]
               IN g \in Frame /\ g.kind = f.kind /\ g.entry = f.entry /\ g.todo \subseteq f.todo
    BY DEF Frame
  <2> QED
    BY <2>1, <2>2, <2>3 DEF Revisited
<1>3. ASSUME NEW h \in Handles, Microtask(h) PROVE Started
  <2>1. Fan("microtask", handles[h].entry, {h}) \in Frame
    BY <1>3, FanIsFrame DEF Microtask, FramesFit
  <2>2. PICK g \in Frame : g = Fan("microtask", handles[h].entry, {h})
    BY <2>1
  <2>3. g.kind \in FanKinds /\ g.entry = handles[h].entry /\ g.todo = {h}
    BY <2>2 DEF Fan, FanKinds
  <2>4. entries[handles[h].entry].sock # "none"
    BY <1>3 DEF Microtask, FramesFit, EntriesInv, DeadHaveNoSocket
  <2>5. NewFits(g)
    BY <1>3, <2>3, <2>4 DEF Microtask, NewFits
  <2>6. stack' = <<g>> /\ stack = <<>>
    BY <1>3, <2>2 DEF Microtask
  <2> QED
    BY <2>3, <2>5, <2>6 DEF Started
<1>4. ASSUME NEW e \in Entries, NEW E \in LiveListEntry, NEW kind \in Fans,
             NEW rest \in {<<>>, <<Fan("close", e, {})>>},
             stack = <<>>, Deliver(e, E, kind, rest), rest # <<>> => kind = "error",
             entries[e].sock = "open", E.handles = entries[e].handles, UNCHANGED handles
      PROVE  Started
  <2> DEFINE g == Fan(kind, e, E.handles)
  <2>1. g \in Frame /\ g.kind = kind /\ g.entry = e /\ g.todo = entries[e].handles
    BY <1>4, FanIsFrame DEF Fans, LiveListEntry
  <2>a. \A h \in g.todo : handles'[h].entry = e
    BY <1>4, <2>1 DEF EntriesInv, HandlesAreCounted, Frame
  <2>b. NewFits(g)
    BY <1>4, <2>1, <2>a DEF NewFits, Lasting
  <2>2. stack' = rest \o <<g>>
    BY <1>4 DEF Deliver
  <2>3. CASE rest = <<>>
    <3>1. stack' = <<g>>
      BY <2>1, <2>2, <2>3
    <3> QED
      BY <1>4, <2>1, <2>b, <3>1 DEF Started, FanKinds, Fans
  <2>4. CASE rest = <<Fan("close", e, {})>>
    <3>1. stack' = Append(<<Fan("close", e, {})>>, g)
      <4>1. Fan("close", e, {}) \in Frame
        BY FanIsFrame
      <4>2. <<Fan("close", e, {})>> \in Seq(Frame)
        BY <4>1
      <4> QED
        BY <2>1, <2>2, <2>4, <4>2, PushIs
    <3>2. kind = "error"
      BY <1>4, <2>4, FanIsFrame
    <3> QED
      BY <1>4, <2>1, <2>b, <3>1, <3>2 DEF Started, FanKinds, Fans
  <2> QED
    BY <2>3, <2>4
<1>5. ASSUME NEW e \in Entries, ListEvent(e) \/ StatusEvent(e) \/ ErrorEvent(e) PROVE Started
  <2>1. stack = <<>> /\ entries[e] \in LiveListEntry /\ entries[e].sock = "open" /\ UNCHANGED handles
    BY <1>5 DEF ListEvent, StatusEvent, ErrorEvent, Receives, LoopIdle, TypeOK
  <2>2. CASE ListEvent(e)
    <3>1. [entries[e] EXCEPT !.rev = @ + 1] \in LiveListEntry
      BY <2>1, UpdatesFit DEF Statuses
    <3>2. [entries[e] EXCEPT !.rev = @ + 1].handles = entries[e].handles
      BY <2>1 DEF LiveListEntry
    <3> QED
      BY <1>4, <2>1, <2>2, <3>1, <3>2 DEF ListEvent, Fans
  <2>3. CASE StatusEvent(e)
    <3>1. \A s \in Statuses : /\ [entries[e] EXCEPT !.status = s] \in LiveListEntry
                             /\ [entries[e] EXCEPT !.status = s].handles = entries[e].handles
      BY <2>1, UpdatesFit DEF LiveListEntry
    <3> QED
      BY <1>4, <2>1, <2>3, <3>1 DEF StatusEvent, Fans, Statuses
  <2>4. CASE ErrorEvent(e)
    <3>1. Append(stack, Fan("close", e, {})) = <<Fan("close", e, {})>>
      BY <2>1, FanIsFrame
    <3> QED
      BY <1>4, <2>1, <2>4, <3>1 DEF ErrorEvent, Fans
  <2> QED
    BY <1>5, <2>2, <2>3, <2>4
<1>6. CASE Closed
  <2>1. stack # <<>> /\ Top.kind = "close" /\ Top \in Frame
    BY <1>6, PopIs DEF Closed, TypeOK
  <2>2. Top.entry \in Entries
    BY <2>1 DEF Frame
  <2>3. CASE entries[Top.entry].disposed
    BY <1>6, <2>1, <2>3 DEF Closed, Popped
  <2>4. CASE ~entries[Top.entry].disposed
    <3> DEFINE E == [entries[Top.entry] EXCEPT !.status = "closed", !.sock = "closed"]
               g == Fan("sync", Top.entry, E.handles)
    <3>1. E \in LiveListEntry
      BY <2>2, UpdatesFit DEF Statuses, TypeOK
    <3>3. stack' = Pop \o <<g>>
      BY <1>6, <2>4 DEF Closed, Deliver
    <3>a. E.handles = entries[Top.entry].handles /\ E.handles \in SUBSET Handles
      BY <2>2 DEF TypeOK, LiveListEntry
    <3>2. /\ g \in Frame /\ g.kind = "sync" /\ g.entry = Top.entry
          /\ g.todo = entries[Top.entry].handles
      BY <2>2, <3>a, FanIsFrame
    <3>b. entries[Top.entry].sock # "none"
      BY <2>1, PopIs DEF FramesFit, FrameFits, Top, TypeOK
    <3>c. \A h \in g.todo : handles'[h].entry = Top.entry
      BY <1>6, <2>2, <3>a, <3>2 DEF EntriesInv, HandlesAreCounted, Closed
    <3>d. NewFits(g)
      BY <2>2, <3>2, <3>b, <3>c DEF NewFits, Lasting
    <3>4. stack' = Append(Pop, g)
      BY <2>1, <3>2, <3>3, PopIs, PushIs DEF TypeOK
    <3> QED
      BY <2>1, <3>2, <3>4, <3>d DEF ClosedOut
  <2> QED
    BY <2>3, <2>4
<1>7. ASSUME NEW h \in Handles, NEW e \in Entries, Open(h, e) PROVE CallFailed(h, e)
  <2>1. PICK shared \in BOOLEAN, window \in BOOLEAN :
          /\ entries' = [entries EXCEPT ![e] = [NewEntry(h, shared, window) EXCEPT !.delivering = TRUE]]
          /\ Handle(h, e, window, "creating")
          /\ stack' = stack \o <<Fan("return", e, {h}), Fan("close", e, {}), Fan("error", e, {h})>>
    BY <1>7 DEF Open, Untouched
  <2>2. [NewEntry(h, shared, window) EXCEPT !.delivering = TRUE].sock = "open"
    BY DEF NewEntry
  <2>3. handles'[h].state = "creating" /\ handles'[h].entry = e /\ entries'[e].sock = "open"
    BY <2>1, <2>2 DEF Handle, TypeOK
  <2> QED
    BY <1>7, <2>1, <2>3 DEF Open, Fresh, Unused, CallFailed
<1>8. CASE UNCHANGED vars \/ (\E h \in Handles : Join(h) \/ Close(h)) \/ \E e \in Entries : ReleaseTimer(e)
  BY <1>8 DEF vars, Join, Close, ReleaseTimer, Untouched
<1> QED
  BY <1>1, <1>2, <1>3, <1>5, <1>6, <1>7, <1>8 DEF Next

LEMMA FramesKept ==
  ASSUME TypeOK, TypeOK', EntriesInv, FramesFit, FansAreSingle, Lasting, [Next]_vars
  PROVE  FramesFit' /\ FansAreSingle'
<1> DEFINE n == Len(stack)
<1>1. /\ n \in Nat /\ \A i \in 1..n : stack[i] \in Frame /\ FrameFits(stack[i])
      /\ \A i, j \in 1..n : i < j => Ordered(stack[i], stack[j])
  BY DEF TypeOK, FramesFit, FansAreSingle
<1>2. \A h \in microtasks' : handles'[h].entry \in Entries
  <2>1. \A h \in microtasks : handles'[h].entry \in Entries
    BY SentinelAssumption DEF FramesFit, Lasting, TypeOK
  <2>2. \A h \in Handles : Join(h) => handles'[h].entry \in Entries /\ microtasks' \subseteq microtasks \cup {h}
    BY DEF Join, Handle, LateSync, TypeOK
  <2>3. (\A h \in Handles : ~Join(h)) => microtasks' \subseteq microtasks
    BY DEF Next, vars, Close, Visit, Microtask, Open, ReleaseTimer, ListEvent, StatusEvent, ErrorEvent,
           Unwind, Return, Closed
  <2> QED
    BY <2>1, <2>2, <2>3
<1>3. ASSUME NEW f \in Frame, FrameFits(f), ~Return PROVE FrameFits(f)'
  BY <1>3, FitLasts
<1>4. ASSUME NEW g \in Frame, NewFits(g), g.kind # "return" PROVE FrameFits(g)'
  BY <1>4 DEF NewFits, FrameFits
<1>5. Return => stack # <<>> /\ stack' = Pop /\ Top.kind = "return"
  BY DEF Return
<1>6. stack # <<>> =>
        /\ n \in Nat \ {0} /\ Top = stack[n]
        /\ Pop \in Seq(Frame) /\ Len(Pop) = n - 1 /\ \A i \in 1..(n - 1) : Pop[i] = stack[i]
  BY PopIs DEF TypeOK, Top
<1>7. SUFFICES /\ \A i \in 1..Len(stack') : FrameFits(stack[i])'
               /\ \A i, j \in 1..Len(stack') : i < j => Ordered(stack'[i], stack'[j])
  BY <1>2 DEF FramesFit, FansAreSingle
<1>8. CASE Untouched
  <2>1. ~Return
    BY <1>5, <1>6, <1>8 DEF Untouched
  <2>2. \A i \in 1..Len(stack') : FrameFits(stack[i])'
    <3> SUFFICES ASSUME NEW i \in 1..Len(stack') PROVE FrameFits(stack[i])'
      OBVIOUS
    <3>1. PICK f \in Frame : f = stack[i] /\ FrameFits(f)
      BY <1>1, <1>8 DEF Untouched
    <3>2. FrameFits(f)'
      BY <1>3, <2>1, <3>1
    <3> QED
      BY <1>8, <3>1, <3>2 DEF Untouched, FrameFits
  <2> QED
    BY <1>1, <1>8, <2>2 DEF Untouched
<1>9. CASE Popped
  <2>1. /\ stack # <<>> /\ stack' = Pop /\ Len(stack') = n - 1
        /\ \A i \in 1..Len(stack') : stack'[i] = stack[i] /\ i \in 1..n /\ i < n
    BY <1>6, <1>9 DEF Popped
  <2>2. \A i \in 1..Len(stack') : FrameFits(stack[i])'
    <3> SUFFICES ASSUME NEW i \in 1..Len(stack') PROVE FrameFits(stack[i])'
      OBVIOUS
    <3>1. PICK f \in Frame : f = stack[i] /\ FrameFits(f)
      BY <1>1, <2>1
    <3>2. f.kind = "return" /\ Return => \A h \in f.todo : handles'[h].state = "creating"
      <4> SUFFICES ASSUME f.kind = "return", Return, NEW h \in f.todo
                   PROVE  handles'[h].state = "creating"
        OBVIOUS
      <4>1. h \in Handles /\ handles[h].state = "creating"
        BY <3>1 DEF Frame, FrameFits
      <4>2. h \notin Top.todo
        BY <1>1, <1>5, <1>6, <2>1, <3>1 DEF Ordered
      <4> QED
        BY <4>1, <4>2 DEF Return
    <3>3. FrameFits(f)'
      BY <3>1, <3>2, FitLasts
    <3> QED
      BY <2>1, <3>1, <3>3 DEF FrameFits
  <2> QED
    BY <1>1, <2>1, <2>2
<1>10. CASE Revisited \/ ClosedOut
  <2>1. stack # <<>>
    BY <1>10 DEF Revisited, ClosedOut
  <2>2. PICK g \in Frame :
          /\ stack' = Append(Pop, g) /\ g.entry = Top.entry
          /\ \/ g.kind = Top.kind /\ g.todo \subseteq Top.todo /\ Top.kind \in FanKinds
             \/ Top.kind = "close" /\ g.kind = "sync" /\ NewFits(g)
    BY <1>10 DEF Revisited, ClosedOut
  <2>3. /\ Len(stack') = n /\ stack'[n] = g /\ n \in Nat \ {0}
        /\ \A i \in 1..(n - 1) : stack'[i] = stack[i] /\ i \in 1..n /\ i < n
    BY <1>6, <2>1, <2>2, PushIs
  <2>4. ~Return
    BY <1>5, <1>6, <2>3
  <2>5. FrameFits(g)'
    <3>1. CASE Top.kind = "close" /\ g.kind = "sync" /\ NewFits(g)
      BY <1>4, <3>1
    <3>2. CASE g.kind = Top.kind /\ g.todo \subseteq Top.todo /\ Top.kind \in FanKinds
      <4>1. FrameFits(Top)
        BY <1>1, <1>6, <2>1
      <4>2. FrameFits(g)
        BY <2>2, <3>2, <4>1 DEF FrameFits
      <4> QED
        BY <1>3, <2>4, <4>2
    <3> QED
      BY <2>2, <3>1, <3>2
  <2>6. \A i \in 1..Len(stack') : FrameFits(stack[i])'
    <3> SUFFICES ASSUME NEW i \in 1..Len(stack') PROVE FrameFits(stack[i])'
      OBVIOUS
    <3>1. CASE i = n
      BY <2>3, <2>5, <3>1 DEF FrameFits
    <3>2. CASE i # n
      <4>1. i \in 1..(n - 1) /\ i \in 1..n /\ stack'[i] = stack[i]
        BY <2>3, <3>2
      <4>2. PICK f \in Frame : f = stack[i] /\ FrameFits(f)
        BY <1>1, <4>1
      <4>3. FrameFits(f)'
        BY <1>3, <2>4, <4>2
      <4> QED
        BY <4>1, <4>2, <4>3 DEF FrameFits
    <3> QED
      BY <3>1, <3>2
  <2>7. ASSUME NEW i \in 1..Len(stack'), NEW j \in 1..Len(stack'), i < j
        PROVE  Ordered(stack'[i], stack'[j])
    <3>1. i \in 1..(n - 1) /\ stack'[i] = stack[i] /\ i \in 1..n
      BY <2>3, <2>7
    <3>2. CASE j # n
      BY <1>1, <2>3, <2>7, <3>1, <3>2
    <3>3. CASE j = n
      <4>1. Ordered(stack[i], Top)
        BY <1>1, <1>6, <2>1, <2>3, <3>1
      <4>2. Ordered(stack[i], g)
        BY <2>2, <4>1 DEF Ordered, Fans, FanKinds
      <4> QED
        BY <2>3, <3>1, <3>3, <4>2
    <3> QED
      BY <3>2, <3>3
  <2> QED
    BY <2>6, <2>7
<1>11. CASE Started
  <2>1. PICK g \in Frame :
          /\ g.kind \in FanKinds /\ NewFits(g)
          /\ \/ stack' = <<g>>
             \/ g.kind = "error" /\ stack' = Append(<<Fan("close", g.entry, {})>>, g)
    BY <1>11 DEF Started
  <2>2. FrameFits(g)'
    BY <1>4, <2>1 DEF FanKinds
  <2>3. CASE stack' = <<g>>
    <3>1. Len(stack') = 1 /\ stack'[1] = g
      BY <2>3
    <3> QED
      BY <2>2, <3>1 DEF FrameFits
  <2>4. CASE g.kind = "error" /\ stack' = Append(<<Fan("close", g.entry, {})>>, g)
    <3>1. PICK c \in Frame : c = Fan("close", g.entry, {}) /\ c.kind = "close" /\ c.entry = g.entry /\ c.todo = {}
      BY FanIsFrame DEF Frame
    <3>2. Len(stack') = 2 /\ stack'[1] = c /\ stack'[2] = g
      <4>1. <<c>> \in Seq(Frame) /\ Len(<<c>>) = 1 /\ <<c>>[1] = c
        OBVIOUS
      <4> QED
        BY <2>4, <3>1, <4>1, PushIs
    <3>3. FrameFits(c)'
      BY <2>1, <3>1 DEF FrameFits, NewFits
    <3>4. Ordered(c, g)
      BY <2>4, <3>1 DEF Ordered
    <3>5. \A i \in 1..Len(stack') : i = 1 \/ i = 2
      BY <3>2
    <3>6. \A i \in 1..Len(stack') : FrameFits(stack[i])'
      BY <2>2, <3>2, <3>3, <3>5 DEF FrameFits
    <3> QED
      BY <3>2, <3>4, <3>5, <3>6
  <2> QED
    BY <2>1, <2>3, <2>4
<1>12. ASSUME NEW h \in Handles, NEW e \in Entries, CallFailed(h, e)
       PROVE  /\ \A i \in 1..Len(stack') : FrameFits(stack[i])'
              /\ \A i, j \in 1..Len(stack') : i < j => Ordered(stack'[i], stack'[j])
  <2>1. /\ Len(stack') = n + 3 /\ \A i \in 1..n : stack'[i] = stack[i]
        /\ stack'[n + 1] = Fan("return", e, {h}) /\ stack'[n + 2] = Fan("close", e, {})
        /\ stack'[n + 3] = Fan("error", e, {h})
    <3>1. stack \in Seq(Frame)
      BY DEF TypeOK
    <3> QED
      BY <1>12, <3>1, FailedCallIs DEF CallFailed
  <2>2. PICK a \in Frame, b \in Frame, c \in Frame :
          /\ a = Fan("return", e, {h}) /\ b = Fan("close", e, {}) /\ c = Fan("error", e, {h})
          /\ a.kind = "return" /\ b.kind = "close" /\ c.kind = "error"
          /\ a.entry = e /\ b.entry = e /\ c.entry = e
          /\ a.todo = {h} /\ b.todo = {} /\ c.todo = {h}
    BY FanIsFrame
  <2>3. FrameFits(a)' /\ FrameFits(b)' /\ FrameFits(c)'
    BY <1>12, <2>2 DEF FrameFits, CallFailed
  <2>4. ~Return
    BY <1>1, <1>5, <1>6, <2>1
  <2>5. \A i \in 1..Len(stack') : i \in 1..n \/ i = n + 1 \/ i = n + 2 \/ i = n + 3
    BY <1>1, <2>1
  <2>6. ASSUME NEW i \in 1..n PROVE FrameFits(stack[i])'
    <3>1. PICK f \in Frame : f = stack[i] /\ FrameFits(f)
      BY <1>1
    <3>2. FrameFits(f)'
      BY <1>3, <2>4, <3>1
    <3> QED
      BY <2>1, <3>1, <3>2 DEF FrameFits
  <2>7. \A i \in 1..Len(stack') : FrameFits(stack[i])'
    <3>1. \A i \in 1..Len(stack') : i = n + 1 => FrameFits(stack[i])'
      BY <2>1, <2>2, <2>3 DEF FrameFits
    <3>2. \A i \in 1..Len(stack') : i = n + 2 => FrameFits(stack[i])'
      BY <2>1, <2>2, <2>3 DEF FrameFits
    <3>3. \A i \in 1..Len(stack') : i = n + 3 => FrameFits(stack[i])'
      BY <2>1, <2>2, <2>3 DEF FrameFits
    <3> QED
      BY <2>5, <2>6, <3>1, <3>2, <3>3
  <2>8. ASSUME NEW i \in 1..n PROVE Ordered(stack[i], a) /\ Ordered(stack[i], b) /\ Ordered(stack[i], c)
    <3>1. PICK f \in Frame : f = stack[i] /\ FrameFits(f)
      BY <1>1
    <3>2. f.entry # e
      BY <1>12, <3>1 DEF CallFailed, FrameFits
    <3>3. f.kind = "return" => h \notin f.todo
      BY <1>12, <3>1 DEF CallFailed, FrameFits
    <3> QED
      BY <2>2, <3>1, <3>2, <3>3 DEF Ordered
  <2>9. Ordered(a, b) /\ Ordered(a, c) /\ Ordered(b, c)
    BY <2>2 DEF Ordered, Fans
  <2>10. ASSUME NEW i \in 1..Len(stack'), NEW j \in 1..Len(stack'), i < j
         PROVE  Ordered(stack'[i], stack'[j])
    <3>1. CASE i \in 1..n /\ j \in 1..n
      BY <1>1, <2>1, <2>10, <3>1
    <3>2. CASE i \in 1..n /\ j \notin 1..n
      BY <2>1, <2>2, <2>5, <2>8, <3>2
    <3>3. CASE i \notin 1..n
      <4>1. (i = n + 1 /\ j = n + 2) \/ (i = n + 1 /\ j = n + 3) \/ (i = n + 2 /\ j = n + 3)
        BY <1>1, <2>5, <2>10, <3>3
      <4> QED
        BY <2>1, <2>2, <2>9, <4>1
    <3> QED
      BY <3>1, <3>2, <3>3
  <2> QED
    BY <2>7, <2>10
<1> QED
  BY <1>8, <1>9, <1>10, <1>11, <1>12, StackSteps

-----------------------------------------------------------------------------
(* Fan-outs.                                                               *)

FanInv == DeliveringIsFanning /\ NoLeakedSocket

FansHere(x) ==
  /\ entries[x].delivering <=> Fanning(x)
  /\ entries[x].sock = "open" /\ entries[x].handles = {} =>
       entries[x].releaseTimer \/ (entries[x].releaseAfterDelivery /\ Fanning(x))

LEMMA FanInvIs == FanInv <=> \A x \in Entries : FansHere(x)
  BY DEF FanInv, DeliveringIsFanning, NoLeakedSocket, FansHere

\* The parts of the action properties that are about one entry.
DisposedInPeace(x) == ~entries[x].disposed /\ entries'[x].disposed => ~Fanning(x)'
WindowIsAsked(x) ==
  ~entries[x].releaseTimer /\ entries'[x].releaseTimer =>
    \E h \in Handles : handles[h].entry = x /\ handles[h].window /\ handles'[h].state = "released"
      /\ (handles[h].state = "attached" \/ entries[x].releaseAfterDelivery)

FansStep(x) == FansHere(x)' /\ DisposedInPeace(x) /\ WindowIsAsked(x)

LEMMA OtherEntries ==
  ASSUME NEW x \in Entries, FansHere(x), entries'[x] = entries[x], Fanning(x)' <=> Fanning(x)
  PROVE  FansStep(x)
  BY DEF FansHere, DisposedInPeace, WindowIsAsked, FansStep

LEMMA FanUntouched ==
  ASSUME stack' = stack PROVE \A x \in Entries : Fanning(x)' <=> Fanning(x)
  BY DEF Fanning

LEMMA FanPopped ==
  ASSUME TypeOK, FansAreSingle, Popped
  PROVE  \A x \in Entries :
           Fanning(x)' <=> Fanning(x) /\ ~(Top.kind \in Fans /\ Top.entry = x)
<1> DEFINE n == Len(stack)
<1>1. /\ n \in Nat \ {0} /\ Top = stack[n] /\ Len(stack') = n - 1
      /\ \A i \in 1..(n - 1) : stack'[i] = stack[i] /\ i \in 1..n /\ i < n
  BY PopIs DEF TypeOK, Top, Popped
<1>2. \A i, j \in 1..n : i < j => Ordered(stack[i], stack[j])
  BY DEF FansAreSingle
<1> TAKE x \in Entries
<1>3. ASSUME Fanning(x)' PROVE Fanning(x) /\ ~(Top.kind \in Fans /\ Top.entry = x)
  <2>1. PICK i \in 1..(n - 1) : stack'[i].entry = x /\ stack'[i].kind \in Fans
    BY <1>1, <1>3 DEF Fanning, Fans
  <2>2. i \in 1..n /\ stack[i].entry = x /\ stack[i].kind \in Fans /\ i < n
    BY <1>1, <2>1
  <2>3. Ordered(stack[i], stack[n])
    BY <1>1, <1>2, <2>2
  <2> QED
    BY <1>1, <2>2, <2>3 DEF Ordered, Fanning, Fans
<1>4. ASSUME Fanning(x), ~(Top.kind \in Fans /\ Top.entry = x) PROVE Fanning(x)'
  <2>1. PICK i \in 1..n : stack[i].entry = x /\ stack[i].kind \in Fans
    BY <1>4 DEF Fanning, Fans
  <2>2. i # n
    BY <1>1, <1>4, <2>1
  <2>3. i \in 1..(n - 1)
    BY <1>1, <2>1, <2>2
  <2> QED
    BY <1>1, <2>1, <2>3 DEF Fanning, Fans
<1> QED
  BY <1>3, <1>4

\* Replacing the top frame g by a frame of the same entry.
LEMMA FanReplaced ==
  ASSUME TypeOK, stack # <<>>, NEW g \in Frame, stack' = Append(Pop, g), g.entry = Top.entry,
         Top.kind \in Fans => g.kind \in Fans
  PROVE  \A x \in Entries :
           Fanning(x)' <=> Fanning(x) \/ (g.kind \in Fans /\ g.entry = x)
<1> DEFINE n == Len(stack)
<1>1. /\ n \in Nat \ {0} /\ Top = stack[n] /\ Len(stack') = n /\ stack'[n] = g
      /\ \A i \in 1..(n - 1) : stack'[i] = stack[i] /\ i \in 1..n /\ i < n
  BY PopIs, PushIs DEF TypeOK, Top
<1> TAKE x \in Entries
<1>2. ASSUME Fanning(x)' PROVE Fanning(x) \/ (g.kind \in Fans /\ g.entry = x)
  <2>1. PICK i \in 1..n : stack'[i].entry = x /\ stack'[i].kind \in Fans
    BY <1>1, <1>2 DEF Fanning, Fans
  <2>2. CASE i = n
    BY <1>1, <2>1, <2>2
  <2>3. CASE i # n
    <3>1. i \in 1..(n - 1)
      BY <1>1, <2>1, <2>3
    <3> QED
      BY <1>1, <2>1, <3>1 DEF Fanning, Fans
  <2> QED
    BY <2>2, <2>3
<1>3. ASSUME Fanning(x) \/ (g.kind \in Fans /\ g.entry = x) PROVE Fanning(x)'
  <2>1. CASE g.kind \in Fans /\ g.entry = x
    BY <1>1, <2>1 DEF Fanning, Fans
  <2>2. CASE Fanning(x)
    <3>1. PICK i \in 1..n : stack[i].entry = x /\ stack[i].kind \in Fans
      BY <2>2 DEF Fanning, Fans
    <3>2. CASE i = n
      BY <1>1, <2>1, <3>1, <3>2
    <3>3. CASE i # n
      <4>1. i \in 1..(n - 1)
        BY <1>1, <3>1, <3>3
      <4> QED
        BY <1>1, <3>1, <4>1 DEF Fanning, Fans
    <3> QED
      BY <3>2, <3>3
  <2> QED
    BY <1>3, <2>1, <2>2
<1> QED
  BY <1>2, <1>3

\* A fresh entry is in no frame; the failing call adds one fan-out.
LEMMA FanCall ==
  ASSUME TypeOK, FramesFit, NEW e \in Entries, entries[e].sock = "none"
  PROVE  /\ ~Fanning(e)
         /\ \A h \in Handles : CallFailed(h, e) =>
              \A x \in Entries : Fanning(x)' <=> Fanning(x) \/ x = e
<1> DEFINE n == Len(stack)
<1>1. ~Fanning(e)
  BY DEF FramesFit, FrameFits, Fanning
<1>2. ASSUME NEW h \in Handles, CallFailed(h, e), NEW x \in Entries
      PROVE  Fanning(x)' <=> Fanning(x) \/ x = e
  <2>1. /\ n \in Nat /\ Len(stack') = n + 3 /\ \A i \in 1..n : stack'[i] = stack[i]
        /\ stack'[n + 1] = Fan("return", e, {h}) /\ stack'[n + 2] = Fan("close", e, {})
        /\ stack'[n + 3] = Fan("error", e, {h})
    <3>1. stack \in Seq(Frame)
      BY DEF TypeOK
    <3> QED
      BY <1>2, <3>1, FailedCallIs DEF CallFailed
  <2>2. /\ stack'[n + 1].kind = "return" /\ stack'[n + 2].kind = "close"
        /\ stack'[n + 3].kind = "error" /\ stack'[n + 3].entry = e
    BY <2>1, FanIsFrame
  <2>3. \A i \in 1..(n + 3) : i \in 1..n \/ i = n + 1 \/ i = n + 2 \/ i = n + 3
    BY <2>1
  <2>4. n + 3 \in 1..(n + 3) /\ \A i \in 1..n : i \in 1..(n + 3)
    BY <2>1
  <2>5. ASSUME Fanning(x)' PROVE Fanning(x) \/ x = e
    <3>1. PICK i \in 1..(n + 3) : stack'[i].entry = x /\ stack'[i].kind \in Fans
      BY <2>1, <2>5 DEF Fanning, Fans
    <3> QED
      BY <2>1, <2>2, <2>3, <3>1 DEF Fanning, Fans
  <2>6. ASSUME Fanning(x) \/ x = e PROVE Fanning(x)'
    BY <2>1, <2>2, <2>4, <2>6 DEF Fanning, Fans
  <2> QED
    BY <2>5, <2>6
<1> QED
  BY <1>1, <1>2

\* From an empty stack, only what starts now fans out.
LEMMA FanStarted ==
  ASSUME TypeOK, stack = <<>>, NEW g \in Frame,
         \/ stack' = <<g>>
         \/ g.kind = "error" /\ stack' = Append(<<Fan("close", g.entry, {})>>, g)
  PROVE  \A x \in Entries : /\ ~Fanning(x)
                            /\ Fanning(x)' <=> g.kind \in Fans /\ g.entry = x
<1>1. \A x \in Entries : ~Fanning(x)
  BY DEF Fanning
<1>2. CASE stack' = <<g>>
  <2>1. Len(stack') = 1 /\ stack'[1] = g
    BY <1>2
  <2> QED
    BY <1>1, <2>1 DEF Fanning, Fans
<1>3. CASE g.kind = "error" /\ stack' = Append(<<Fan("close", g.entry, {})>>, g)
  <2>1. PICK c \in Frame : c = Fan("close", g.entry, {}) /\ c.kind = "close"
    BY FanIsFrame DEF Frame
  <2>2. Len(stack') = 2 /\ stack'[1] = c /\ stack'[2] = g
    <3>1. <<c>> \in Seq(Frame) /\ Len(<<c>>) = 1 /\ <<c>>[1] = c
      OBVIOUS
    <3> QED
      BY <1>3, <2>1, <3>1, PushIs
  <2> QED
    BY <1>1, <1>3, <2>1, <2>2 DEF Fanning, Fans
<1> QED
  BY <1>2, <1>3

\* The entries that a fan-out starts with.
LEMMA EventIs ==
  ASSUME TypeOK, NEW e \in Entries, ListEvent(e) \/ StatusEvent(e) \/ ErrorEvent(e)
  PROVE  \E g \in Frame, F \in LiveListEntry :
           /\ stack = <<>> /\ microtasks = {} /\ UNCHANGED <<registry, handles, microtasks>>
           /\ g.kind \in Fans /\ g.entry = e /\ g.todo = entries[e].handles
           /\ \/ stack' = <<g>>
              \/ g.kind = "error" /\ stack' = Append(<<Fan("close", g.entry, {})>>, g)
           /\ entries' = [entries EXCEPT ![e] = F]
           /\ F.delivering /\ F.releaseAfterDelivery = entries[e].releaseAfterDelivery
           /\ F.releaseTimer = entries[e].releaseTimer /\ F.sock = entries[e].sock
           /\ F.handles = entries[e].handles /\ F.disposed = entries[e].disposed
           /\ g.kind = "error" => F.rev = entries[e].rev /\ F.status = entries[e].status
<1>1. /\ stack = <<>> /\ microtasks = {} /\ UNCHANGED <<registry, handles, microtasks>>
      /\ entries[e] \in LiveListEntry
  BY DEF ListEvent, StatusEvent, ErrorEvent, Receives, LoopIdle, TypeOK
<1>2. ASSUME NEW E \in LiveListEntry, NEW kind \in Fans, NEW rest \in {<<>>, <<Fan("close", e, {})>>},
             Deliver(e, E, kind, rest), rest # <<>> => kind = "error",
             E.releaseAfterDelivery = entries[e].releaseAfterDelivery,
             E.releaseTimer = entries[e].releaseTimer, E.sock = entries[e].sock,
             E.handles = entries[e].handles, E.disposed = entries[e].disposed,
             kind = "error" => E.rev = entries[e].rev /\ E.status = entries[e].status
      PROVE  \E g \in Frame, F \in LiveListEntry :
           /\ g.kind \in Fans /\ g.entry = e /\ g.todo = entries[e].handles
           /\ \/ stack' = <<g>>
              \/ g.kind = "error" /\ stack' = Append(<<Fan("close", g.entry, {})>>, g)
           /\ entries' = [entries EXCEPT ![e] = F]
           /\ F.delivering /\ F.releaseAfterDelivery = entries[e].releaseAfterDelivery
           /\ F.releaseTimer = entries[e].releaseTimer /\ F.sock = entries[e].sock
           /\ F.handles = entries[e].handles /\ F.disposed = entries[e].disposed
           /\ g.kind = "error" => F.rev = entries[e].rev /\ F.status = entries[e].status
  <2>1. PICK F \in LiveListEntry :
          /\ F = [E EXCEPT !.delivering = TRUE]
          /\ F.delivering /\ F.releaseAfterDelivery = E.releaseAfterDelivery
          /\ F.releaseTimer = E.releaseTimer /\ F.sock = E.sock /\ F.handles = E.handles
          /\ F.disposed = E.disposed /\ F.rev = E.rev /\ F.status = E.status
    <3> DEFINE G == [E EXCEPT !.delivering = TRUE]
    <3>1. G \in LiveListEntry
      BY DEF LiveListEntry
    <3>2. /\ G.delivering /\ G.releaseAfterDelivery = E.releaseAfterDelivery
          /\ G.releaseTimer = E.releaseTimer /\ G.sock = E.sock /\ G.handles = E.handles
          /\ G.disposed = E.disposed /\ G.rev = E.rev /\ G.status = E.status
      BY DEF LiveListEntry
    <3> HIDE DEF G
    <3>3. \E F \in LiveListEntry : F = G
      BY <3>1
    <3> QED
      BY <3>2, <3>3 DEF G
  <2>2. PICK g \in Frame : g = Fan(kind, e, E.handles) /\ g.kind = kind /\ g.entry = e /\ g.todo = E.handles
    BY FanIsFrame DEF LiveListEntry, Fans
  <2>3. stack' = rest \o <<g>> /\ entries' = [entries EXCEPT ![e] = F]
    BY <1>2, <2>1, <2>2 DEF Deliver
  <2>4. \/ stack' = <<g>>
        \/ g.kind = "error" /\ stack' = Append(<<Fan("close", g.entry, {})>>, g)
    <3>1. CASE rest = <<>>
      BY <2>3, <3>1
    <3>2. CASE rest = <<Fan("close", e, {})>>
      <4>1. Fan("close", e, {}) \in Frame
        BY FanIsFrame
      <4>2. rest \in Seq(Frame) /\ rest # <<>>
        BY <3>2, <4>1
      <4> QED
        BY <1>2, <2>2, <2>3, <3>2, <4>2, PushIs
    <3> QED
      BY <3>1, <3>2
  <2>5. /\ F.delivering /\ F.releaseAfterDelivery = entries[e].releaseAfterDelivery
        /\ F.releaseTimer = entries[e].releaseTimer /\ F.sock = entries[e].sock
        /\ F.handles = entries[e].handles /\ F.disposed = entries[e].disposed
    BY <1>2, <2>1
  <2>6. g.kind = "error" => F.rev = entries[e].rev /\ F.status = entries[e].status
    BY <1>2, <2>1, <2>2
  <2>7. g.kind \in Fans /\ g.entry = e /\ g.todo = entries[e].handles
    BY <1>2, <2>2
  <2> QED
    BY <2>3, <2>4, <2>5, <2>6, <2>7
<1>3. CASE ListEvent(e)
  <2>1. PICK E \in LiveListEntry : E = [entries[e] EXCEPT !.rev = @ + 1]
    BY <1>1, UpdatesFit DEF Statuses
  <2>2. /\ E.releaseAfterDelivery = entries[e].releaseAfterDelivery
        /\ E.releaseTimer = entries[e].releaseTimer /\ E.sock = entries[e].sock
        /\ E.handles = entries[e].handles /\ E.disposed = entries[e].disposed
    BY <1>1, <2>1 DEF LiveListEntry
  <2>3. Deliver(e, E, "sync", <<>>)
    BY <1>1, <1>3, <2>1 DEF ListEvent
  <2> QED
    BY <1>1, <1>2, <2>2, <2>3 DEF Fans
<1>4. CASE StatusEvent(e)
  <2>1. PICK s \in {"live", "reconnecting"} :
          Deliver(e, [entries[e] EXCEPT !.status = s], "sync", <<>>)
    BY <1>1, <1>4 DEF StatusEvent
  <2>2. PICK E \in LiveListEntry : E = [entries[e] EXCEPT !.status = s]
    BY <1>1, UpdatesFit DEF Statuses
  <2>3. /\ E.releaseAfterDelivery = entries[e].releaseAfterDelivery
        /\ E.releaseTimer = entries[e].releaseTimer /\ E.sock = entries[e].sock
        /\ E.handles = entries[e].handles /\ E.disposed = entries[e].disposed
    BY <1>1, <2>2 DEF LiveListEntry
  <2> QED
    BY <1>1, <1>2, <2>1, <2>2, <2>3 DEF Fans
<1>5. CASE ErrorEvent(e)
  <2>1. Append(stack, Fan("close", e, {})) = <<Fan("close", e, {})>>
    BY <1>1, FanIsFrame
  <2>2. PICK rest \in {<<>>, <<Fan("close", e, {})>>} : Deliver(e, entries[e], "error", rest)
    BY <1>1, <1>5, <2>1 DEF ErrorEvent
  <2> QED
    BY <1>1, <1>2, <2>2 DEF Fans
<1> QED
  BY <1>3, <1>4, <1>5

LEMMA FansKept ==
  ASSUME TypeOK, EntriesInv, FramesFit, FansAreSingle, FanInv, EntriesInv', Lasting, [Next]_vars,
         NEW x \in Entries
  PROVE  FansStep(x)
<1>1. FansHere(x) /\ entries[x] \in LiveListEntry
  BY FanInvIs DEF TypeOK
<1>2. CASE UNCHANGED vars
  BY <1>1, <1>2, OtherEntries, FanUntouched DEF vars
<1>3. ASSUME NEW h \in Handles, Join(h) PROVE FansStep(x)
  <2>1. PICK r \in Entries : r = registry
    BY <1>3 DEF Join, TypeOK
  <2>2. PICK window \in BOOLEAN : entries' = [entries EXCEPT ![r] = Attached(entries[r], h, window)]
    BY <1>3, <2>1 DEF Join
  <2>3. Fanning(x)' <=> Fanning(x)
    BY <1>3, FanUntouched DEF Join
  <2>4. CASE x # r
    BY <1>1, <2>2, <2>3, <2>4, OtherEntries DEF TypeOK
  <2>5. CASE x = r
    <3>1. entries'[x] = Attached(entries[x], h, window)
      BY <2>2, <2>5 DEF TypeOK
    <3>2. /\ entries'[x].delivering = entries[x].delivering /\ ~entries'[x].releaseTimer
          /\ h \in entries'[x].handles /\ entries'[x].disposed = entries[x].disposed
      BY <1>1, <3>1 DEF Attached, LiveListEntry
    <3> QED
      BY <1>1, <2>3, <3>2 DEF FansStep, FansHere, DisposedInPeace, WindowIsAsked
  <2> QED
    BY <2>4, <2>5
<1>4. ASSUME NEW h \in Handles, Close(h) PROVE FansStep(x)
  <2>1. PICK e : e = handles[h].entry
    OBVIOUS
  <2>2. PICK R : R = Released(Left(h))
    OBVIOUS
  <2>3. /\ handles[h].state = "attached" /\ stack' = stack
        /\ ReleasedFrom(Left(h), R) /\ Put(e, R)
        /\ handles'[h].state = "released"
    BY <1>4, <2>1, <2>2, CloseIs DEF TypeOK, EntryHandle
  <2>4. /\ e \in Entries
        /\ Left(h).handles = entries[e].handles \ {h}
        /\ Left(h).disposed = entries[e].disposed /\ Left(h).sock = entries[e].sock
        /\ Left(h).delivering = entries[e].delivering
        /\ Left(h).releaseTimer = entries[e].releaseTimer
        /\ Left(h).grace /\ Left(h).handles = {} => handles[h].window
    BY <2>1, <2>3, LeftIs
  <2>5. Fanning(x)' <=> Fanning(x)
    BY <2>3, FanUntouched
  <2>6. CASE x # e
    BY <1>1, <2>3, <2>4, <2>5, <2>6, OtherEntries DEF Put, TypeOK
  <2>7. CASE x = e
    <3>1. entries'[x] = R
      BY <2>3, <2>4, <2>7 DEF Put, TypeOK
    <3>2. R.sock = "open" => ~R.disposed
      BY <3>1 DEF EntriesInv, DeadHaveNoSocket
    <3>3. /\ R.handles = Left(h).handles /\ R.delivering = entries[x].delivering
          /\ R.disposed => entries[x].disposed \/ ~entries[x].delivering
          /\ R.releaseTimer => entries[x].releaseTimer \/ (Left(h).grace /\ Left(h).handles = {})
          /\ Left(h).handles = {} /\ ~R.disposed =>
               R.releaseTimer \/ (R.delivering /\ R.releaseAfterDelivery)
      BY <2>3, <2>4, <2>7 DEF ReleasedFrom
    <3>4. FansHere(x)'
      BY <1>1, <2>5, <3>1, <3>2, <3>3 DEF FansHere
    <3>5. DisposedInPeace(x)
      BY <1>1, <2>5, <3>1, <3>3 DEF DisposedInPeace, FansHere
    <3>6. WindowIsAsked(x)
      BY <2>1, <2>3, <2>4, <2>7, <3>1, <3>3 DEF WindowIsAsked
    <3> QED
      BY <3>4, <3>5, <3>6 DEF FansStep
  <2> QED
    BY <2>6, <2>7
<1>5. ASSUME NEW h \in Handles, Visit(h) PROVE FansStep(x)
  <2>1. stack # <<>> /\ Top \in Frame /\ Top.kind \in FanKinds /\ entries' = entries
    BY <1>5, PopIs DEF Visit, TypeOK
  <2>2. PICK k \in Handles \cup {NoHandle} :
          stack' = Append(Pop, [Top EXCEPT !.todo = @ \ {h}, !.at = k])
    BY <1>5 DEF Visit
  <2>3. ASSUME NEW f \in Frame
        PROVE  LET g == [f EXCEPT !.todo = @ \ {h}, !.at = k]
               IN g \in Frame /\ g.kind = f.kind /\ g.entry = f.entry
    BY DEF Frame
  <2>4. PICK g \in Frame : stack' = Append(Pop, g) /\ g.kind = Top.kind /\ g.entry = Top.entry
    BY <2>1, <2>2, <2>3
  <2>5. g.kind \in Fans /\ g.entry = x => Fanning(x)
    <3>1. Len(stack) \in 1..Len(stack) /\ Top = stack[Len(stack)]
      BY <2>1, PopIs DEF TypeOK, Top
    <3> QED
      BY <2>4, <3>1 DEF Fanning, Fans
  <2>6. Fanning(x)' <=> Fanning(x)
    BY <2>1, <2>4, <2>5, FanReplaced
  <2> QED
    BY <1>1, <2>1, <2>6, OtherEntries
<1>6. ASSUME NEW h \in Handles, Microtask(h) PROVE FansStep(x)
  <2>1. Fan("microtask", handles[h].entry, {h}) \in Frame
    BY <1>6, FanIsFrame DEF Microtask, FramesFit
  <2>2. PICK g \in Frame : g = Fan("microtask", handles[h].entry, {h})
    BY <2>1
  <2>3. stack = <<>> /\ stack' = <<g>> /\ g.kind = "microtask" /\ entries' = entries
    BY <1>6, <2>2 DEF Microtask, Fan
  <2>4. ~Fanning(x) /\ ~Fanning(x)'
    BY <2>3, FanStarted DEF Fans
  <2> QED
    BY <1>1, <2>3, <2>4, OtherEntries
<1>7. ASSUME NEW h \in Handles, NEW e \in Entries, Open(h, e) PROVE FansStep(x)
  <2>1. PICK shared \in BOOLEAN, window \in BOOLEAN :
          LET E == NewEntry(h, shared, window)
          IN \/ entries' = [entries EXCEPT ![e] = E] /\ stack' = stack
             \/ /\ entries' = [entries EXCEPT ![e] = [Disposed(E) EXCEPT !.handles = {}]]
                /\ stack' = stack
             \/ /\ entries' = [entries EXCEPT ![e] = [E EXCEPT !.delivering = TRUE]]
                /\ Handle(h, e, window, "creating")
                /\ stack' = stack \o <<Fan("return", e, {h}), Fan("close", e, {}), Fan("error", e, {h})>>
    BY <1>7 DEF Open
  <2> DEFINE E == NewEntry(h, shared, window)
             A == [Disposed(E) EXCEPT !.handles = {}]
             B == [E EXCEPT !.delivering = TRUE]
  <2>2. entries[e].sock = "none" /\ handles[h].state = "unused"
    BY <1>7 DEF Open, Unused, Fresh
  <2>3. ~Fanning(e) /\ \A k \in Handles : CallFailed(k, e) => \A y \in Entries : Fanning(y)' <=> Fanning(y) \/ y = e
    BY <2>2, FanCall
  <2>4. /\ ~E.delivering /\ h \in E.handles /\ ~E.disposed /\ ~E.releaseTimer
        /\ ~A.delivering /\ A.sock = "closed" /\ ~A.releaseTimer
        /\ B.delivering /\ h \in B.handles /\ ~B.disposed /\ ~B.releaseTimer /\ B.sock = "open"
    BY DEF NewEntry, Disposed
  <2> HIDE DEF E, A, B
  <2>5. CASE stack' = stack /\ \E F \in {E, A} : entries' = [entries EXCEPT ![e] = F]
    <3>1. PICK F \in {E, A} : entries' = [entries EXCEPT ![e] = F]
      BY <2>5
    <3>2. Fanning(x)' <=> Fanning(x)
      BY <2>5, FanUntouched
    <3>3. CASE x # e
      BY <1>1, <3>1, <3>2, <3>3, OtherEntries DEF TypeOK
    <3>4. CASE x = e
      <4>1. entries'[x] = F
        BY <3>1, <3>4 DEF TypeOK
      <4> QED
        BY <2>3, <2>4, <3>2, <3>4, <4>1 DEF FansStep, FansHere, DisposedInPeace, WindowIsAsked
    <3> QED
      BY <3>3, <3>4
  <2>6. CASE /\ entries' = [entries EXCEPT ![e] = B]
             /\ Handle(h, e, window, "creating")
             /\ stack' = stack \o <<Fan("return", e, {h}), Fan("close", e, {}), Fan("error", e, {h})>>
    <3>1. entries'[e] = B
      BY <2>6 DEF TypeOK
    <3>a. handles'[h].state = "creating" /\ handles'[h].entry = e
      BY <2>6 DEF Handle, TypeOK
    <3>2. CallFailed(h, e)
      BY <2>2, <2>4, <2>6, <3>1, <3>a DEF CallFailed
    <3>3. Fanning(x)' <=> Fanning(x) \/ x = e
      BY <2>3, <3>2
    <3>4. CASE x # e
      BY <1>1, <2>6, <3>3, <3>4, OtherEntries DEF TypeOK
    <3>5. CASE x = e
      BY <2>4, <3>1, <3>3, <3>5 DEF FansStep, FansHere, DisposedInPeace, WindowIsAsked
    <3> QED
      BY <3>4, <3>5
  <2> QED
    BY <2>1, <2>5, <2>6 DEF E, A, B
<1>8. ASSUME NEW e \in Entries, ReleaseTimer(e) PROVE FansStep(x)
  <2> DEFINE E == [entries[e] EXCEPT !.releaseTimer = FALSE]
             R == IF E.handles = {} THEN Disposed(E) ELSE E
  <2>1. Put(e, R) /\ stack = <<>> /\ stack' = stack
    BY <1>8 DEF ReleaseTimer, LoopIdle
  <2>2. entries[e] \in LiveListEntry
    BY DEF TypeOK
  <2>3. /\ R.handles = entries[e].handles /\ R.delivering = entries[e].delivering /\ ~R.releaseTimer
        /\ R.handles = {} => R.sock = "closed"
    BY <2>2 DEF LiveListEntry, Disposed
  <2> HIDE DEF R, E
  <2>4. ~Fanning(x) /\ ~Fanning(x)'
    BY <2>1, FanUntouched DEF Fanning
  <2>5. CASE x # e
    BY <1>1, <2>1, <2>4, <2>5, OtherEntries DEF Put, TypeOK
  <2>6. CASE x = e
    <3>1. entries'[x] = R
      BY <2>1, <2>6 DEF Put, TypeOK
    <3> QED
      BY <1>1, <2>3, <2>4, <2>6, <3>1 DEF FansStep, FansHere, DisposedInPeace, WindowIsAsked
  <2> QED
    BY <2>5, <2>6
<1>9. ASSUME NEW e \in Entries, ListEvent(e) \/ StatusEvent(e) \/ ErrorEvent(e) PROVE FansStep(x)
  <2>1. PICK g \in Frame, F \in LiveListEntry :
          /\ stack = <<>> /\ g.kind \in Fans /\ g.entry = e
          /\ \/ stack' = <<g>>
             \/ g.kind = "error" /\ stack' = Append(<<Fan("close", g.entry, {})>>, g)
          /\ entries' = [entries EXCEPT ![e] = F]
          /\ F.delivering /\ F.releaseTimer = entries[e].releaseTimer
          /\ F.sock = entries[e].sock /\ F.handles = entries[e].handles
          /\ F.disposed = entries[e].disposed
    BY <1>9, EventIs
  <2>2. ~Fanning(x) /\ (Fanning(x)' <=> e = x)
    BY <2>1, FanStarted
  <2>3. CASE x # e
    BY <1>1, <2>1, <2>2, <2>3, OtherEntries DEF TypeOK
  <2>4. CASE x = e
    <3>1. entries'[x] = F
      BY <2>1, <2>4 DEF TypeOK
    <3> QED
      BY <1>1, <2>1, <2>2, <2>4, <3>1 DEF FansStep, FansHere, DisposedInPeace, WindowIsAsked
  <2> QED
    BY <2>3, <2>4
<1>10. CASE Unwind
  <2>1. PICK e : e = Top.entry
    OBVIOUS
  <2>2. PICK R : R = Back(e)
    OBVIOUS
  <2>3. /\ stack # <<>> /\ Top.todo = {} /\ e \in Entries /\ stack' = Pop
        /\ UNCHANGED <<handles, microtasks>>
        /\ UnwoundOf(e).handles = entries[e].handles /\ UnwoundOf(e).sock = entries[e].sock
        /\ UnwoundOf(e).grace = entries[e].grace /\ UnwoundOf(e).disposed = entries[e].disposed
        /\ ~UnwoundOf(e).delivering /\ UnwoundOf(e).releaseTimer = entries[e].releaseTimer
        /\ \/ Top.kind = "microtask" /\ UNCHANGED <<registry, entries>>
           \/ /\ Top.kind \in Fans /\ Put(e, R)
              /\ entries[e].releaseAfterDelivery => ReleasedFrom(UnwoundOf(e), R)
              /\ ~entries[e].releaseAfterDelivery => R = UnwoundOf(e)
    BY <1>10, <2>1, <2>2, UnwindIs
  <2>4. Fanning(x)' <=> Fanning(x) /\ ~(Top.kind \in Fans /\ e = x)
    BY <2>1, <2>3, FanPopped DEF Popped
  <2>5. CASE Top.kind = "microtask"
    BY <1>1, <2>3, <2>4, <2>5, OtherEntries DEF Fans
  <2>6. CASE Top.kind \in Fans /\ x # e
    BY <1>1, <2>3, <2>4, <2>6, OtherEntries DEF Put, TypeOK, Fans
  <2>7. CASE Top.kind \in Fans /\ x = e
    <3>1. entries'[x] = R /\ ~Fanning(x)'
      BY <2>3, <2>4, <2>7 DEF Put, TypeOK, Fans
    <3>2. R.sock = "open" => ~R.disposed
      BY <3>1 DEF EntriesInv, DeadHaveNoSocket
    <3>3. CASE ~entries[x].releaseAfterDelivery
      <4>1. R = UnwoundOf(e)
        BY <2>3, <2>7, <3>3 DEF Fans
      <4> QED
        BY <1>1, <2>3, <2>7, <3>1, <3>3, <4>1
           DEF FansStep, FansHere, DisposedInPeace, WindowIsAsked
    <3>4. CASE entries[x].releaseAfterDelivery
      <4>1. ReleasedFrom(UnwoundOf(e), R)
        BY <2>3, <2>7, <3>4 DEF Fans
      <4>2. /\ R.handles = entries[x].handles /\ ~R.delivering
            /\ R.releaseTimer => entries[x].releaseTimer \/ (entries[x].grace /\ entries[x].handles = {})
            /\ entries[x].handles = {} /\ ~R.disposed => R.releaseTimer
        BY <2>3, <2>7, <4>1 DEF ReleasedFrom
      <4>3. entries[x].grace /\ entries[x].handles = {} =>
              \E h \in Handles : handles[h].entry = x /\ handles[h].window /\ handles[h].state = "released"
        <5> SUFFICES ASSUME entries[x].grace, entries[x].handles = {}
                     PROVE \E h \in Handles : handles[h].entry = x /\ handles[h].window
                                              /\ handles[h].state = "released"
          OBVIOUS
        <5>1. PICK h \in Handles : handles[h].entry = x /\ handles[h].window
          BY DEF EntriesInv, GraceWasAsked
        <5>2. handles[h].state # "unused" /\ handles[h].state \notin Live
          BY <5>1, SentinelAssumption DEF EntriesInv, HandlesAreCounted, TypeOK
        <5>3. handles[h].state = "released"
          BY <5>2 DEF TypeOK, EntryHandle, Live
        <5> QED
          BY <5>1, <5>3
      <4>4. FansHere(x)'
        BY <3>1, <3>2, <4>2 DEF FansHere
      <4>5. DisposedInPeace(x)
        BY <3>1 DEF DisposedInPeace
      <4>6. WindowIsAsked(x)
        BY <2>3, <3>1, <3>4, <4>2, <4>3 DEF WindowIsAsked
      <4> QED
        BY <4>4, <4>5, <4>6 DEF FansStep
    <3> QED
      BY <3>3, <3>4
  <2> QED
    BY <2>3, <2>5, <2>6, <2>7
<1>11. CASE Return
  <2>1. Popped /\ Top.kind = "return" /\ entries' = entries
    BY <1>11 DEF Return, Popped
  <2>2. Fanning(x)' <=> Fanning(x)
    BY <2>1, FanPopped DEF Fans
  <2> QED
    BY <1>1, <2>1, <2>2, OtherEntries
<1>12. CASE Closed
  <2>1. PICK e : e = Top.entry
    OBVIOUS
  <2>2. stack # <<>> /\ Top.kind = "close" /\ e \in Entries
    BY <1>12, <2>1, PopIs DEF Closed, TypeOK, Frame
  <2>3. CASE entries[e].disposed
    <3>1. Popped /\ entries' = entries
      BY <1>12, <2>1, <2>3 DEF Closed, Popped
    <3>2. Fanning(x)' <=> Fanning(x)
      BY <2>2, <3>1, FanPopped DEF Fans
    <3> QED
      BY <1>1, <3>1, <3>2, OtherEntries
  <2>4. CASE ~entries[e].disposed
    <3> DEFINE E == [entries[e] EXCEPT !.status = "closed", !.sock = "closed"]
               F == [E EXCEPT !.delivering = TRUE]
    <3>1. Deliver(e, E, "sync", Pop)
      BY <1>12, <2>1, <2>4 DEF Closed
    <3>2. entries[e] \in LiveListEntry /\ E \in LiveListEntry
      BY <2>2, UpdatesFit DEF TypeOK, Statuses
    <3>3. /\ F.delivering /\ F.sock = "closed" /\ F.releaseTimer = entries[e].releaseTimer
          /\ F.disposed = entries[e].disposed
      BY <3>2 DEF LiveListEntry
    <3>4. entries' = [entries EXCEPT ![e] = F]
      BY <3>1 DEF Deliver
    <3>5. PICK g \in Frame : g = Fan("sync", e, E.handles) /\ g.kind = "sync" /\ g.entry = e
      <4>1. E.handles = entries[e].handles /\ entries[e].handles \in SUBSET Handles
        BY <3>2 DEF LiveListEntry
      <4> QED
        BY <2>2, <4>1, FanIsFrame
    <3>6. stack' = Append(Pop, g)
      BY <2>2, <3>1, <3>5, PopIs, PushIs DEF Deliver, TypeOK
    <3> HIDE DEF F, E
    <3>7. Fanning(x)' <=> Fanning(x) \/ e = x
      BY <2>1, <2>2, <3>5, <3>6, FanReplaced DEF Fans
    <3>8. CASE x # e
      BY <1>1, <3>4, <3>7, <3>8, OtherEntries DEF TypeOK
    <3>9. CASE x = e
      <4>1. entries'[x] = F
        BY <3>4, <3>9 DEF TypeOK
      <4> QED
        BY <1>1, <2>4, <3>3, <3>7, <3>9, <4>1 DEF FansStep, FansHere, DisposedInPeace, WindowIsAsked
    <3> QED
      BY <3>8, <3>9
  <2> QED
    BY <2>3, <2>4
<1> QED
  BY <1>2, <1>3, <1>4, <1>5, <1>6, <1>7, <1>8, <1>9, <1>10, <1>11, <1>12 DEF Next

-----------------------------------------------------------------------------
(* Who is behind.                                                          *)

\* The step shows k nothing and changes nothing that k should see.
Steady(k) ==
  LET e == handles[k].entry
  IN /\ handles'[k].entry = e /\ entries'[e].rev = entries[e].rev
     /\ entries'[e].status = entries[e].status
     /\ handles'[k].seenRev = handles[k].seenRev /\ handles'[k].seenStatus = handles[k].seenStatus

LEMMA SteadyIs ==
  ASSUME NEW k \in Handles, Steady(k) PROVE Current(k)' <=> Current(k)
  BY DEF Steady, Current

\* The stack below the top.
LEMMA Below ==
  ASSUME TypeOK, stack # <<>>,
         stack' = Pop \/ \E g \in Frame : stack' = Append(Pop, g)
  PROVE  LET n == Len(stack)
         IN /\ n \in Nat \ {0} /\ Top = stack[n] /\ Top \in Frame
            /\ \A i \in 1..n : i # n => i \in 1..Len(stack') /\ stack'[i] = stack[i]
            /\ \A g \in Frame : stack' = Append(Pop, g) => n \in 1..Len(stack') /\ stack'[n] = g
<1> DEFINE n == Len(stack)
<1>1. /\ n \in Nat \ {0} /\ Top \in Frame /\ Top = stack[n] /\ Pop \in Seq(Frame) /\ Len(Pop) = n - 1
      /\ \A i \in 1..(n - 1) : Pop[i] = stack[i]
  BY PopIs DEF TypeOK, Top
<1>2. ASSUME NEW g \in Frame, stack' = Append(Pop, g)
      PROVE  /\ Len(stack') = n /\ stack'[n] = g
             /\ \A i \in 1..(n - 1) : stack'[i] = stack[i]
  BY <1>1, <1>2, PushIs
<1>3. \A i \in 1..n : i # n => i \in 1..(n - 1)
  BY <1>1
<1> QED
  BY <1>1, <1>2, <1>3

LEMMA BehindKept ==
  ASSUME TypeOK, EntriesInv, FramesFit, BehindAreAwaited, [Next]_vars
  PROVE  BehindAreAwaited'
<1> SUFFICES ASSUME NEW k \in Handles, handles'[k].state \in Live, ~Current(k)'
             PROVE  Awaited(k)'
  BY DEF BehindAreAwaited
<1>1. ASSUME handles[k].state \in Live, Steady(k) PROVE Awaited(k)
  BY <1>1, SteadyIs DEF BehindAreAwaited
<1>2. ASSUME Awaited(k), microtasks \subseteq microtasks', stack' = stack PROVE Awaited(k)'
  BY <1>2 DEF Awaited
<1>3. ASSUME Awaited(k), microtasks \subseteq microtasks', stack # <<>>,
             stack' = Pop \/ \E g \in Frame : stack' = Append(Pop, g),
             Top.kind \notin {"sync", "microtask"} \/ k \notin Top.todo
      PROVE  Awaited(k)'
  <2>1. CASE k \in microtasks
    BY <1>3, <2>1 DEF Awaited
  <2>2. CASE k \notin microtasks
    <3>1. PICK i \in 1..Len(stack) : stack[i].kind \in {"sync", "microtask"} /\ k \in stack[i].todo
      BY <1>3, <2>2 DEF Awaited
    <3>2. i # Len(stack)
      BY <1>3, <3>1 DEF Top
    <3>3. i \in 1..Len(stack') /\ stack'[i] = stack[i]
      BY <1>3, <3>1, <3>2, Below
    <3> QED
      BY <3>1, <3>3 DEF Awaited
  <2> QED
    BY <2>1, <2>2
<1>4. CASE UNCHANGED vars
  BY <1>1, <1>2, <1>4 DEF vars, Steady
<1>5. ASSUME NEW h \in Handles, Join(h) PROVE Awaited(k)'
  <2>1. PICK r \in Entries : r = registry
    BY <1>5 DEF Join, TypeOK
  <2>2. PICK window \in BOOLEAN :
          /\ entries' = [entries EXCEPT ![r] = Attached(entries[r], h, window)]
          /\ Handle(h, r, window, "attached")
          /\ microtasks' = IF entries[r].rev # 0 \/ entries[r].status # "connecting"
                             THEN microtasks \cup {h} ELSE microtasks
    BY <1>5, <2>1 DEF Join, LateSync
  <2>3. /\ Attached(entries[r], h, window).rev = entries[r].rev
        /\ Attached(entries[r], h, window).status = entries[r].status
    BY DEF Attached, TypeOK, LiveListEntry
  <2>4. \A x \in Entries : entries'[x].rev = entries[x].rev /\ entries'[x].status = entries[x].status
    BY <2>2, <2>3 DEF TypeOK
  <2>5. CASE k = h
    <3>1. handles'[k].entry = r /\ handles'[k].seenRev = 0 /\ handles'[k].seenStatus = "connecting"
      BY <2>2, <2>5 DEF Handle, TypeOK
    <3>2. k \in microtasks'
      BY <2>2, <2>4, <2>5, <3>1 DEF Current
    <3> QED
      BY <3>2 DEF Awaited
  <2>6. CASE k # h
    <3>1. handles'[k] = handles[k]
      BY <2>2, <2>6 DEF Handle, TypeOK
    <3>2. handles[k].entry \in Entries
      BY <3>1 DEF TypeOK, EntryHandle, Live
    <3>3. Steady(k)
      BY <2>4, <3>1, <3>2 DEF Steady
    <3> QED
      BY <1>1, <1>2, <1>5, <2>2, <3>1, <3>3 DEF Join
  <2> QED
    BY <2>5, <2>6
<1>6. ASSUME NEW h \in Handles, Close(h) PROVE Awaited(k)'
  <2>1. PICK e : e = handles[h].entry
    OBVIOUS
  <2>2. PICK R : R = Released(Left(h))
    OBVIOUS
  <2>3. /\ handles[h].state = "attached" /\ UNCHANGED <<microtasks, stack>>
        /\ ReleasedFrom(Left(h), R) /\ Put(e, R)
        /\ \A y \in Handles :
             handles'[y] = IF y = h THEN [handles[y] EXCEPT !.state = "released"] ELSE handles[y]
    BY <1>6, <2>1, <2>2, CloseIs
  <2>4. e \in Entries /\ Left(h).rev = entries[e].rev /\ Left(h).status = entries[e].status
    BY <2>1, <2>3, LeftIs
  <2>5. \A x \in Entries : entries'[x].rev = entries[x].rev /\ entries'[x].status = entries[x].status
    BY <2>3, <2>4 DEF Put, TypeOK, ReleasedFrom
  <2>6. k # h
    BY <2>3 DEF Live, TypeOK, EntryHandle
  <2>7. handles'[k] = handles[k] /\ handles[k].entry \in Entries
    BY <2>3, <2>6 DEF TypeOK, EntryHandle, Live
  <2>8. Steady(k)
    BY <2>5, <2>7 DEF Steady
  <2> QED
    BY <1>1, <1>2, <2>3, <2>7, <2>8
<1>7. ASSUME NEW h \in Handles, Visit(h) PROVE Awaited(k)'
  <2>1. /\ stack # <<>> /\ Top.kind \in FanKinds /\ h \in Top.todo /\ Top \in Frame
        /\ UNCHANGED <<entries, microtasks>>
    BY <1>7, PopIs DEF Visit, TypeOK
  <2>2. PICK at \in Handles \cup {NoHandle} :
          stack' = Append(Pop, [Top EXCEPT !.todo = @ \ {h}, !.at = at])
    BY <1>7 DEF Visit
  <2>3. ASSUME NEW f \in Frame
        PROVE  LET g == [f EXCEPT !.todo = @ \ {h}, !.at = at]
               IN g \in Frame /\ g.kind = f.kind /\ g.todo = f.todo \ {h}
    BY DEF Frame
  <2>4. PICK g \in Frame : stack' = Append(Pop, g) /\ g.kind = Top.kind /\ g.todo = Top.todo \ {h}
    BY <2>1, <2>2, <2>3
  <2>5. CASE k = h
    <3>1. handles[h].entry = Top.entry
      BY <2>1, PopIs DEF FramesFit, FrameFits, Top, TypeOK
    <3>2. CASE Top.kind # "error"
      <4>1. \/ handles' = handles /\ (Silent(h) \/ Current(h))
            \/ handles' = [handles EXCEPT ![h].seenRev = entries[Top.entry].rev,
                                          ![h].seenStatus = entries[Top.entry].status]
        BY <1>7, <3>2 DEF Visit
      <4>2. CASE handles' = handles /\ (Silent(h) \/ Current(h))
        BY <2>1, <2>5, <4>2 DEF Current, Silent, Live
      <4>3. CASE handles' = [handles EXCEPT ![h].seenRev = entries[Top.entry].rev,
                                            ![h].seenStatus = entries[Top.entry].status]
        <5>1. /\ handles'[h].entry = Top.entry
              /\ handles'[h].seenRev = entries[Top.entry].rev
              /\ handles'[h].seenStatus = entries[Top.entry].status
          BY <3>1, <4>3 DEF TypeOK, EntryHandle
        <5> QED
          BY <2>1, <2>5, <5>1 DEF Current
      <4> QED
        BY <4>1, <4>2, <4>3
    <3>3. CASE Top.kind = "error"
      <4>1. handles' = handles
        BY <1>7, <3>3 DEF Visit
      <4>2. Awaited(k)
        BY <1>1, <2>1, <4>1 DEF Steady
      <4> QED
        BY <1>3, <2>1, <2>4, <3>3, <4>2
    <3> QED
      BY <3>2, <3>3
  <2>6. CASE k # h
    <3>1. handles'[k] = handles[k]
      BY <1>7, <2>6 DEF Visit, TypeOK
    <3>2. Awaited(k)
      BY <1>1, <2>1, <3>1 DEF Steady
    <3>3. CASE k \in Top.todo /\ Top.kind \in {"sync", "microtask"}
      <4>1. k \in g.todo /\ g.kind \in {"sync", "microtask"}
        BY <2>4, <2>6, <3>3
      <4>2. Len(stack) \in 1..Len(stack') /\ stack'[Len(stack)] = g
        BY <2>1, <2>4, Below
      <4> QED
        BY <4>1, <4>2 DEF Awaited
    <3>4. CASE ~(k \in Top.todo /\ Top.kind \in {"sync", "microtask"})
      BY <1>3, <2>1, <2>4, <3>2, <3>4
    <3> QED
      BY <3>3, <3>4
  <2> QED
    BY <2>5, <2>6
<1>8. ASSUME NEW h \in Handles, Microtask(h) PROVE Awaited(k)'
  <2>1. /\ stack = <<>> /\ UNCHANGED <<registry, entries, handles>> /\ microtasks' = microtasks \ {h}
        /\ stack' = <<Fan("microtask", handles[h].entry, {h})>>
    BY <1>8 DEF Microtask
  <2>2. Awaited(k)
    BY <1>1, <2>1 DEF Steady
  <2>3. k \in microtasks
    BY <2>1, <2>2 DEF Awaited
  <2>4. CASE k = h
    <3>1. Len(stack') = 1 /\ stack'[1].kind = "microtask" /\ stack'[1].todo = {h}
      BY <2>1 DEF Fan
    <3> QED
      BY <2>4, <3>1 DEF Awaited
  <2>5. CASE k # h
    BY <2>1, <2>3, <2>5 DEF Awaited
  <2> QED
    BY <2>4, <2>5
<1>9. ASSUME NEW h \in Handles, NEW e \in Entries, Open(h, e) PROVE Awaited(k)'
  <2>1. PICK shared \in BOOLEAN, window \in BOOLEAN :
          LET E == NewEntry(h, shared, window)
          IN \/ /\ entries' = [entries EXCEPT ![e] = E]
                /\ Handle(h, e, window, "attached")
                /\ stack' = stack
             \/ /\ entries' = [entries EXCEPT ![e] = [Disposed(E) EXCEPT !.handles = {}]]
                /\ Handle(h, e, window, "released")
                /\ stack' = stack
             \/ /\ entries' = [entries EXCEPT ![e] = [E EXCEPT !.delivering = TRUE]]
                /\ Handle(h, e, window, "creating")
                /\ stack' = stack \o <<Fan("return", e, {h}), Fan("close", e, {}), Fan("error", e, {h})>>
    BY <1>9 DEF Open
  <2> DEFINE E == NewEntry(h, shared, window)
             A == [Disposed(E) EXCEPT !.handles = {}]
             B == [E EXCEPT !.delivering = TRUE]
  <2>2. /\ E.rev = 0 /\ E.status = "connecting" /\ A.rev = 0 /\ A.status = "connecting"
        /\ B.rev = 0 /\ B.status = "connecting"
    BY DEF NewEntry, Disposed
  <2>3. PICK F \in {E, A, B} : entries' = [entries EXCEPT ![e] = F]
    BY <2>1
  <2> HIDE DEF E, A, B
  <2>4. entries'[e].rev = 0 /\ entries'[e].status = "connecting"
        /\ \A x \in Entries : x # e => entries'[x] = entries[x]
    BY <2>2, <2>3 DEF TypeOK
  <2>5. microtasks' = microtasks /\ entries[e].sock = "none"
    BY <1>9 DEF Open, Unused
  <2>6. k # h
    <3>1. SUFFICES ASSUME k = h PROVE FALSE
      OBVIOUS
    <3>2. handles'[h].entry = e /\ handles'[h].seenRev = 0 /\ handles'[h].seenStatus = "connecting"
      BY <2>1 DEF Handle, TypeOK
    <3> QED
      BY <2>4, <3>1, <3>2 DEF Current
  <2>7. handles'[k] = handles[k]
    BY <2>1, <2>6 DEF Handle, TypeOK
  <2>8. handles[k].entry \in Entries /\ handles[k].entry # e
    BY <2>5, <2>7, UnusedIsFree DEF TypeOK, EntryHandle, Live
  <2>9. Awaited(k)
    BY <1>1, <2>4, <2>7, <2>8 DEF Steady
  <2>10. CASE stack' = stack
    BY <1>2, <2>5, <2>9, <2>10
  <2>11. CASE stack' = stack \o <<Fan("return", e, {h}), Fan("close", e, {}), Fan("error", e, {h})>>
    <3>1. Len(stack) \in Nat /\ Len(stack') = Len(stack) + 3 /\ \A i \in 1..Len(stack) : stack'[i] = stack[i]
      <4>1. stack \in Seq(Frame)
        BY DEF TypeOK
      <4> QED
        BY <1>9, <2>11, <4>1, FailedCallIs
    <3>2. \A i \in 1..Len(stack) : i \in 1..Len(stack')
      BY <3>1
    <3> QED
      BY <2>5, <2>9, <3>1, <3>2 DEF Awaited
  <2> QED
    BY <2>1, <2>10, <2>11
<1>10. ASSUME NEW e \in Entries, ReleaseTimer(e) PROVE Awaited(k)'
  <2> DEFINE E == [entries[e] EXCEPT !.releaseTimer = FALSE]
             R == IF E.handles = {} THEN Disposed(E) ELSE E
  <2>1. Put(e, R) /\ UNCHANGED <<handles, microtasks, stack>>
    BY <1>10 DEF ReleaseTimer
  <2>2. R.rev = entries[e].rev /\ R.status = entries[e].status
    BY DEF TypeOK, LiveListEntry, Disposed
  <2> HIDE DEF R, E
  <2>3. \A x \in Entries : entries'[x].rev = entries[x].rev /\ entries'[x].status = entries[x].status
    BY <2>1, <2>2 DEF Put, TypeOK
  <2>4. handles[k].entry \in Entries
    BY <2>1 DEF TypeOK, EntryHandle, Live
  <2>5. Awaited(k)
    BY <1>1, <2>1, <2>3, <2>4 DEF Steady
  <2> QED
    BY <1>2, <2>1, <2>5
<1>11. ASSUME NEW e \in Entries, ListEvent(e) \/ StatusEvent(e) \/ ErrorEvent(e) PROVE Awaited(k)'
  <2>1. PICK g \in Frame, F \in LiveListEntry :
          /\ stack = <<>> /\ microtasks = {} /\ UNCHANGED <<registry, handles, microtasks>>
          /\ g.kind \in Fans /\ g.entry = e /\ g.todo = entries[e].handles
          /\ \/ stack' = <<g>>
             \/ g.kind = "error" /\ stack' = Append(<<Fan("close", g.entry, {})>>, g)
          /\ entries' = [entries EXCEPT ![e] = F]
          /\ F.delivering /\ F.releaseAfterDelivery = entries[e].releaseAfterDelivery
          /\ F.releaseTimer = entries[e].releaseTimer /\ F.sock = entries[e].sock
          /\ F.handles = entries[e].handles /\ F.disposed = entries[e].disposed
          /\ g.kind = "error" => F.rev = entries[e].rev /\ F.status = entries[e].status
    BY ONLY <1>11, TypeOK, EventIs, e \in Entries
  <2>2. ~Awaited(k)
    BY <2>1 DEF Awaited
  <2>3. ~Steady(k) /\ handles[k].state \in Live /\ handles[k].entry \in Entries
    BY <1>1, <2>1, <2>2 DEF TypeOK, EntryHandle, Live
  <2>4. handles[k].entry = e /\ g.kind = "sync"
    BY <2>1, <2>3 DEF Steady, TypeOK, Fans
  <2>5. k \in g.todo
    BY <2>1, <2>3, <2>4 DEF EntriesInv, HandlesAreCounted
  <2>6. Len(stack') = 1 /\ stack'[1] = g
    BY <2>1, <2>4
  <2> QED
    BY <2>4, <2>5, <2>6 DEF Awaited
<1>12. CASE Unwind
  <2>1. PICK e : e = Top.entry
    OBVIOUS
  <2>2. PICK R : R = Back(e)
    OBVIOUS
  <2>3. /\ stack # <<>> /\ Top.todo = {} /\ e \in Entries /\ stack' = Pop
        /\ UNCHANGED <<handles, microtasks>>
        /\ UnwoundOf(e).rev = entries[e].rev /\ UnwoundOf(e).status = entries[e].status
        /\ \/ Top.kind = "microtask" /\ UNCHANGED <<registry, entries>>
           \/ /\ Top.kind \in Fans /\ Put(e, R)
              /\ entries[e].releaseAfterDelivery => ReleasedFrom(UnwoundOf(e), R)
              /\ ~entries[e].releaseAfterDelivery => R = UnwoundOf(e)
    BY <1>12, <2>1, <2>2, UnwindIs
  <2>4. \A x \in Entries : entries'[x].rev = entries[x].rev /\ entries'[x].status = entries[x].status
    <3>1. CASE UNCHANGED entries
      BY <3>1
    <3>2. CASE Put(e, R) /\ R.rev = entries[e].rev /\ R.status = entries[e].status
      BY <3>2 DEF Put, TypeOK
    <3>3. ReleasedFrom(UnwoundOf(e), R) => R.rev = entries[e].rev /\ R.status = entries[e].status
      BY <2>3 DEF ReleasedFrom
    <3> QED
      BY <2>3, <3>1, <3>2, <3>3
  <2>5. handles[k].entry \in Entries
    BY <2>3 DEF TypeOK, EntryHandle, Live
  <2>6. Awaited(k)
    BY <1>1, <2>3, <2>4, <2>5 DEF Steady
  <2> QED
    BY <1>3, <2>3, <2>6
<1>13. CASE Return
  <2>1. stack # <<>> /\ Top.kind = "return" /\ stack' = Pop /\ UNCHANGED <<entries, microtasks>>
    BY <1>13 DEF Return
  <2>2. /\ handles'[k].entry = handles[k].entry /\ handles'[k].seenRev = handles[k].seenRev
        /\ handles'[k].seenStatus = handles[k].seenStatus
    BY <1>13 DEF Return, TypeOK, EntryHandle
  <2>3. handles[k].state \in Live
    <3>1. k \in Top.todo => handles[k].state = "creating"
      BY <2>1, PopIs DEF FramesFit, FrameFits, Top, TypeOK
    <3> QED
      BY <1>13, <3>1 DEF Return, Live
  <2>4. Awaited(k)
    BY <1>1, <2>1, <2>2, <2>3 DEF Steady
  <2> QED
    BY <1>3, <2>1, <2>4
<1>14. CASE Closed
  <2>1. PICK e : e = Top.entry
    OBVIOUS
  <2>2. stack # <<>> /\ Top.kind = "close" /\ e \in Entries /\ UNCHANGED <<handles, microtasks>>
    BY <1>14, <2>1, PopIs DEF Closed, TypeOK, Frame
  <2>3. CASE entries[e].disposed
    <3>1. stack' = Pop /\ entries' = entries
      BY <1>14, <2>1, <2>3 DEF Closed
    <3>2. Awaited(k)
      BY <1>1, <2>2, <3>1 DEF Steady
    <3> QED
      BY <1>3, <2>2, <3>1, <3>2
  <2>4. CASE ~entries[e].disposed
    <3> DEFINE E == [entries[e] EXCEPT !.status = "closed", !.sock = "closed"]
    <3>1. Deliver(e, E, "sync", Pop)
      BY <1>14, <2>1, <2>4 DEF Closed
    <3>2. E.handles = entries[e].handles /\ entries[e].handles \in SUBSET Handles
      BY <2>2 DEF TypeOK, LiveListEntry
    <3>3. PICK g \in Frame : g = Fan("sync", e, E.handles) /\ g.kind = "sync" /\ g.todo = entries[e].handles
      BY <2>2, <3>2, FanIsFrame
    <3>4. stack' = Append(Pop, g)
      BY <2>2, <3>1, <3>3, PopIs, PushIs DEF Deliver, TypeOK
    <3>5. \A x \in Entries : x # e => entries'[x] = entries[x]
      BY <3>1 DEF Deliver, TypeOK
    <3>6. handles[k].entry \in Entries /\ handles[k].state \in Live
      BY <2>2 DEF TypeOK, EntryHandle, Live
    <3>7. CASE handles[k].entry = e
      <4>1. k \in g.todo
        BY <3>3, <3>6, <3>7 DEF EntriesInv, HandlesAreCounted
      <4>2. Len(stack) \in 1..Len(stack') /\ stack'[Len(stack)] = g
        BY <2>2, <3>4, Below
      <4> QED
        BY <3>3, <4>1, <4>2 DEF Awaited
    <3>8. CASE handles[k].entry # e
      <4>1. Awaited(k)
        BY <1>1, <2>2, <3>5, <3>6, <3>8 DEF Steady
      <4> QED
        BY <1>3, <2>2, <3>4, <4>1
    <3> QED
      BY <3>7, <3>8
  <2> QED
    BY <2>3, <2>4
<1> QED
  BY <1>4, <1>5, <1>6, <1>7, <1>8, <1>9, <1>10, <1>11, <1>12, <1>13, <1>14 DEF Next

-----------------------------------------------------------------------------
(* Closed consumers.                                                       *)

LEMMA ReleasedRest ==
  ASSUME TypeOK, FramesFit, [Next]_vars, NEW h \in Handles, handles[h].state = "released"
  PROVE  handles'[h] = handles[h] /\ ~Calls(h)
<1>1. ASSUME stack' = stack PROVE ~Calls(h)
  BY <1>1 DEF Calls, Top
<1>2. ASSUME stack # <<>>, stack' = Pop \/ \E g \in Frame : stack' = Append(Pop, g) /\ g.at # h
      PROVE  ~Calls(h)
  <2> DEFINE n == Len(stack)
  <2>1. n \in Nat \ {0} /\ Pop \in Seq(Frame) /\ Len(Pop) = n - 1
    BY <1>2, PopIs DEF TypeOK
  <2>2. CASE stack' = Pop
    BY <2>1, <2>2 DEF Calls
  <2>3. ASSUME NEW g \in Frame, stack' = Append(Pop, g), g.at # h PROVE ~Calls(h)
    <3>1. Len(stack') = n /\ stack'[n] = g
      BY <2>1, <2>3, PushIs
    <3> QED
      BY <2>3, <3>1 DEF Calls
  <2> QED
    BY <1>2, <2>2, <2>3
<1>3. ASSUME stack = <<>> PROVE ~Calls(h)
  BY <1>3 DEF Calls
<1>4. CASE UNCHANGED vars
  BY <1>1, <1>4 DEF vars
<1>5. ASSUME NEW k \in Handles, Join(k) PROVE handles'[h] = handles[h] /\ ~Calls(h)
  BY <1>1, <1>5 DEF Join, Fresh, Handle, TypeOK
<1>6. ASSUME NEW k \in Handles, Close(k) PROVE handles'[h] = handles[h] /\ ~Calls(h)
  BY <1>1, <1>6 DEF Close, TypeOK
<1>7. ASSUME NEW k \in Handles, Visit(k) PROVE handles'[h] = handles[h] /\ ~Calls(h)
  <2>1. stack # <<>> /\ Top \in Frame
    BY <1>7, PopIs DEF Visit, TypeOK
  <2> DEFINE deaf == Silent(k) \/ (Top.kind # "error" /\ Current(k))
             calls == ~deaf /\ (Top.kind = "error" \/ handles[k].state = "attached")
             at == IF calls THEN k ELSE NoHandle
  <2>2. /\ stack' = Append(Pop, [Top EXCEPT !.todo = @ \ {k}, !.at = at])
        /\ handles' = IF deaf \/ Top.kind = "error" THEN handles
                        ELSE [handles EXCEPT ![k].seenRev = entries[Top.entry].rev,
                                             ![k].seenStatus = entries[Top.entry].status]
    BY <1>7 DEF Visit
  <2>3. k = h => deaf
    BY DEF Silent
  <2>4. at # h /\ at \in Handles \cup {NoHandle}
    BY <2>3, SentinelAssumption
  <2>5. handles'[h] = handles[h]
    BY <2>2, <2>3 DEF TypeOK
  <2> HIDE DEF at, deaf
  <2>6. ASSUME NEW f \in Frame
        PROVE  LET g == [f EXCEPT !.todo = @ \ {k}, !.at = at] IN g \in Frame /\ g.at = at
    BY <2>4 DEF Frame
  <2>7. PICK g \in Frame : stack' = Append(Pop, g) /\ g.at # h
    BY <2>1, <2>2, <2>4, <2>6
  <2> QED
    BY <1>2, <2>1, <2>5, <2>7
<1>8. ASSUME NEW k \in Handles, Microtask(k) PROVE handles'[h] = handles[h] /\ ~Calls(h)
  BY <1>3, <1>8 DEF Microtask
<1>9. ASSUME NEW k \in Handles, NEW e \in Entries, Open(k, e)
      PROVE  handles'[h] = handles[h] /\ ~Calls(h)
  <2>1. handles[k].state = "unused" /\ \E w \in BOOLEAN, s \in {"creating", "attached", "released"} : Handle(k, e, w, s)
    BY <1>9 DEF Open, Fresh
  <2>2. handles'[h] = handles[h]
    BY <2>1 DEF Handle, TypeOK
  <2>3. stack' = stack \/ stack' = stack \o <<Fan("return", e, {k}), Fan("close", e, {}), Fan("error", e, {k})>>
    BY <1>9 DEF Open
  <2>4. ASSUME stack' = stack \o <<Fan("return", e, {k}), Fan("close", e, {}), Fan("error", e, {k})>>
        PROVE  ~Calls(h)
    <3>1. stack \in Seq(Frame) /\ Len(stack) \in Nat
      BY DEF TypeOK
    <3>2. Len(stack') = Len(stack) + 3
      BY <2>4, <3>1, <1>9, FailedCallIs
    <3> QED
      BY <3>1, <3>2 DEF Calls
  <2> QED
    BY <1>1, <2>2, <2>3, <2>4
<1>10. ASSUME NEW e \in Entries, ReleaseTimer(e) \/ ListEvent(e) \/ StatusEvent(e) \/ ErrorEvent(e)
       PROVE  handles'[h] = handles[h] /\ ~Calls(h)
  BY <1>3, <1>10 DEF ReleaseTimer, ListEvent, StatusEvent, ErrorEvent, Receives, LoopIdle
<1>11. CASE Unwind
  BY <1>2, <1>11 DEF Unwind
<1>12. CASE Return
  <2>1. h \notin Top.todo
    BY <1>12, PopIs DEF Return, FramesFit, FrameFits, Top, TypeOK
  <2> QED
    BY <1>2, <1>12, <2>1 DEF Return
<1>13. CASE Closed
  <2>1. stack # <<>> /\ Top \in Frame /\ UNCHANGED handles
    BY <1>13, PopIs DEF Closed, TypeOK
  <2>2. Top.entry \in Entries
    BY <2>1 DEF Frame
  <2> DEFINE E == [entries[Top.entry] EXCEPT !.status = "closed", !.sock = "closed"]
  <2>3. E.handles = entries[Top.entry].handles /\ E.handles \in SUBSET Handles
    BY <2>2 DEF TypeOK, LiveListEntry
  <2>4. PICK g \in Frame : g = Fan("sync", Top.entry, E.handles) /\ g.at = NoHandle
    BY <2>2, <2>3, FanIsFrame
  <2>5. stack' = Pop \/ stack' = Pop \o <<g>>
    BY <1>13, <2>4 DEF Closed, Deliver
  <2>6. stack' = Pop \/ stack' = Append(Pop, g)
    BY <2>1, <2>4, <2>5, PopIs, PushIs DEF TypeOK
  <2>7. g.at # h
    BY <2>4, SentinelAssumption
  <2> QED
    BY <1>2, <2>1, <2>6, <2>7
<1> QED
  BY <1>4, <1>5, <1>6, <1>7, <1>8, <1>9, <1>10, <1>11, <1>12, <1>13 DEF Next

-----------------------------------------------------------------------------
(* The theorems.                                                           *)

LEMMA InitHolds == Init => ListInv
<1> SUFFICES ASSUME Init PROVE ListInv
  OBVIOUS
<1> USE DEF Init
<1>1. TypeOK
  <2>1. entries \in [Entries -> LiveListEntry]
    BY DEF LiveListEntry, Statuses
  <2>2. handles \in [Handles -> EntryHandle]
    BY DEF EntryHandle, Statuses
  <2>3. stack \in Seq(Frame)
    OBVIOUS
  <2> QED
    BY <2>1, <2>2, <2>3 DEF TypeOK
<1>2. OneLiveStream /\ NeverTornFromUnder /\ NoLeakedSocket
  BY SentinelAssumption DEF OneLiveStream, NeverTornFromUnder, NoLeakedSocket
<1>3. HandlesAreCounted /\ DeadHaveNoSocket /\ GraceWasAsked
  BY SentinelAssumption DEF HandlesAreCounted, DeadHaveNoSocket, GraceWasAsked, Live
<1>4. FramesFit /\ FansAreSingle /\ DeliveringIsFanning
  BY DEF FramesFit, FansAreSingle, DeliveringIsFanning, Fanning
<1>5. BehindAreAwaited
  BY DEF BehindAreAwaited, Live
<1> QED
  BY <1>1, <1>2, <1>3, <1>4, <1>5 DEF ListInv, StreamFollowsConsumers

LEMMA StepKeeps ==
  ASSUME ListInv, [Next]_vars
  PROVE  /\ ListInv'
         /\ \A x \in Entries : FansStep(x)
         /\ \A h \in Handles : handles[h].state = "released" => handles'[h] = handles[h] /\ ~Calls(h)
<1>1. /\ TypeOK /\ EntriesInv /\ FramesFit /\ FansAreSingle /\ FanInv /\ BehindAreAwaited
  BY DEF ListInv, StreamFollowsConsumers, EntriesInv, FanInv
<1>2. TypeOK' /\ EntriesInv' /\ Lasting
  BY <1>1, TypesKept, EntriesKept, StepLasts
<1>3. FramesFit' /\ FansAreSingle'
  BY <1>1, <1>2, FramesKept
<1>4. \A x \in Entries : FansStep(x)
  BY <1>1, <1>2, FansKept
<1>5. DeliveringIsFanning' /\ NoLeakedSocket'
  BY <1>4 DEF FansStep, FansHere, DeliveringIsFanning, NoLeakedSocket
<1>6. BehindAreAwaited'
  BY <1>1, BehindKept
<1>7. \A h \in Handles : handles[h].state = "released" => handles'[h] = handles[h] /\ ~Calls(h)
  BY <1>1, ReleasedRest
<1> QED
  BY <1>2, <1>3, <1>4, <1>5, <1>6, <1>7 DEF ListInv, StreamFollowsConsumers, EntriesInv

THEOREM ListIsInvariant == Spec => []ListInv
<1>1. ListInv /\ [Next]_vars => ListInv'
  BY StepKeeps
<1> QED
  BY InitHolds, <1>1, PTL DEF Spec

\* The stream of a query lives exactly as long as it has consumers: the registry holds
\* the one shared subscription that is alive, nobody's stream is taken from him, and
\* no socket is left without one, however callbacks create and close consumers, grace
\* windows end and subscriptions fail before they have begun.
THEOREM StreamsFollowConsumers == Spec => []StreamFollowsConsumers
<1>1. ListInv => StreamFollowsConsumers
  BY DEF ListInv
<1> QED
  BY <1>1, ListIsInvariant, PTL

\* When the loop is idle, every consumer has seen the current list and status, those
\* who joined in the middle of a fan-out too.
THEOREM NobodyStaysBehind == Spec => []AttachedAreCurrent
<1>1. ListInv => AttachedAreCurrent
  BY DEF ListInv, BehindAreAwaited, Awaited, AttachedAreCurrent, LoopIdle, Live
<1> QED
  BY <1>1, ListIsInvariant, PTL

\* A release timer is started only for the grace window of the last consumer to leave.
THEOREM GraceIsAskedFor == Spec => WindowLeavesWithConsumer
<1>1. ListInv /\ [Next]_vars => \A e \in Entries : WindowIsAsked(e)
  BY StepKeeps DEF FansStep
<1>2. (\A e \in Entries : WindowIsAsked(e)) =>
        (\A e \in Entries : ~entries[e].releaseTimer /\ entries'[e].releaseTimer =>
           \E h \in Handles : handles[h].entry = e /\ handles[h].window /\ handles'[h].state = "released"
             /\ (handles[h].state = "attached" \/ entries[e].releaseAfterDelivery))
  BY DEF WindowIsAsked
<1> QED
  BY <1>1, <1>2, ListIsInvariant, PTL DEF Spec, WindowLeavesWithConsumer

\* Fan-outs survive their callbacks: a closed consumer is neither called nor touched
\* again, and no transport is released inside its own fan-out.
THEOREM FanOutsSurviveCallbacks == Spec => FanOutsAreSafe
<1>1. ListInv /\ [Next]_vars =>
        /\ \A h \in Handles : handles[h].state = "released" => handles'[h] = handles[h] /\ ~Calls(h)
        /\ \A e \in Entries : ~entries[e].disposed /\ entries'[e].disposed =>
             ~\E i \in 1..Len(stack') :
                stack'[i].entry = e /\ stack'[i].kind \in {"sync", "error"}
  BY StepKeeps DEF FansStep, DisposedInPeace, Fanning
<1> QED
  BY <1>1, ListIsInvariant, PTL DEF Spec, FanOutsAreSafe
=============================================================================
