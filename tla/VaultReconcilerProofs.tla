------------------------ MODULE VaultReconcilerProofs ------------------------
(***************************************************************************)
(* For every set of notes, every mixture of faults and every bound, the    *)
(* reconciler never writes blind: NoBlindOverwrite and CleanMeansWritten   *)
(* follow from Lineage, which is inductive together with TypeOK.  It never *)
(* falls back (ReseedsGoForward); unless the store fails, it loses no edit *)
(* silently (NoSilentLoss); and unless a hook throws, besides, what is to  *)
(* be done is always in somebody's hands (WorkIsScheduled).                *)
(*                                                                         *)
(* For the documents of the collaboration engine (CollabDocs): what        *)
(* clients can edit is tracked (ServedDocsAreAdopted), and they implement  *)
(* the shared note of SharedNote (KeepsPromise).                           *)
(***************************************************************************)
EXTENDS CollabDocs, TLAPS

Descent == TypeOK /\ Lineage

\* Where no note ever leaves the working set, nobody is told that one has.
Told == \A i \in 1..Len(chan) : \A n \in chan[i].about : chan[i].vers[n] # 0

Stays(n) ==
  /\ scope[n] = "tagged" /\ run[n].net # "missing" /\ run[n].op # "removed"
  /\ \A i \in DOMAIN ops[n] : ops[n][i] # "removed"

Present == Scopes = {"tagged"} => Told /\ \A n \in Notes : Stays(n)

IInv == Descent /\ Present

History == Seq(Content) \ {<<>>}

-----------------------------------------------------------------------------
(* A new commit at the end of a history disturbs nothing that is sound.    *)

\* A sound baseline stays sound when somebody commits.
LEMMA SoundGrows ==
  ASSUME NEW cs \in History, NEW x \in Content, NEW c \in Content, NEW v, NEW b \in BOOLEAN,
         Sound(cs, c, v, b)
  PROVE  Sound(Append(cs, x), c, v, b)
BY DEF Sound, Extends, Content, History

\* A document that is sound keeps its lineage across a commit.
LEMMA SoundDocGrows ==
  ASSUME NEW cs \in History, NEW x \in Content, NEW d \in TrackedDoc \cup {NoDoc},
         SoundDoc(cs, d)
  PROVE  SoundDoc(Append(cs, x), d)
BY SoundGrows DEF SoundDoc, TrackedDoc

\* So does a persisted snapshot.
LEMMA SoundEntryGrows ==
  ASSUME NEW cs \in History, NEW x \in Content, NEW e \in Entry \cup {NoEntry},
         SoundEntry(cs, e)
  PROVE  SoundEntry(Append(cs, x), e)
BY SoundGrows DEF SoundEntry, Entry

\* And a write that is still on the wire.
LEMMA SoundStrayGrows ==
  ASSUME NEW cs \in History, NEW x \in Content, NEW w \in Stray, SoundStray(cs, w)
  PROVE  SoundStray(Append(cs, x), w)
BY SoundGrows DEF SoundStray, Stray

\* And the request a document waits for.
LEMMA SoundRequestGrows ==
  ASSUME NEW cs \in History, NEW x \in Content, NEW d \in TrackedDoc \cup {NoDoc},
         NEW r \in Running, SoundRead(cs, d, r), SoundWrite(cs, d, r)
  PROVE  SoundRead(Append(cs, x), d, r) /\ SoundWrite(Append(cs, x), d, r)
<1>1. Len(Append(cs, x)) = Len(cs) + 1 /\ \A v \in 1..Len(cs) : Append(cs, x)[v] = cs[v]
  BY DEF History
<1>2. SoundRead(Append(cs, x), d, r)
  BY <1>1 DEF SoundRead, Running, History, TrackedDoc, Awaits
<1>3. SoundWrite(Append(cs, x), d, r)
  <2>1. r.body \in Content
    BY DEF Running
  <2>2. r.at = "writing" /\ r.net = "sent" => Sound(Append(cs, x), r.body, r.ver, TRUE)
    BY <2>1, SoundGrows DEF SoundWrite
  <2>3. r.net = "note" => Append(cs, x)[r.ver] = cs[r.ver]
    BY <1>1 DEF SoundRead
  <2>4. d.tracked < Len(cs) /\ r.at = "writing" => d.tracked < Len(Append(cs, x))
    BY <1>1 DEF SoundRead, TrackedDoc, History, Awaits
  <2> QED BY <2>2, <2>3, <2>4 DEF SoundWrite
<1> QED BY <1>2, <1>3

\* What appending does to the indices of a history.
LEMMA HistoryGrows ==
  ASSUME NEW cs \in History, NEW x \in Content
  PROVE  /\ Append(cs, x) \in History /\ Len(cs) \in Nat \ {0}
         /\ Len(Append(cs, x)) = Len(cs) + 1
         /\ Append(cs, x)[Len(cs) + 1] = x
         /\ \A v \in 1..Len(cs) : Append(cs, x)[v] = cs[v] /\ cs[v] \in Content
BY DEF History

\* A history grows soundly by a content that is not torn and that is either an
\* external edit, which starts a lineage of its own, or a writeback made on top of
\* the last version.
LEMMA CommitsGrow ==
  ASSUME NEW cs \in History, NEW x \in Content, SoundCommits(cs),
         Traceable => ~x.torn /\ (x.ext = Len(cs) + 1 \/ Extends(x, cs[Len(cs)]))
  PROVE  SoundCommits(Append(cs, x))
<1> SUFFICES ASSUME Traceable
             PROVE  SoundCommits(Append(cs, x))
  BY DEF SoundCommits
<1> DEFINE as == Append(cs, x)
<1>1. /\ Len(cs) \in Nat \ {0} /\ Len(as) = Len(cs) + 1 /\ as[Len(cs) + 1] = x
      /\ \A v \in 1..Len(cs) : as[v] = cs[v]
  BY HistoryGrows
<1>2. ASSUME NEW v \in 1..Len(as)
      PROVE  ~as[v].torn
  <2>1. CASE v = Len(cs) + 1
    BY <1>1, <2>1
  <2>2. CASE v \in 1..Len(cs)
    BY <1>1, <2>2 DEF SoundCommits
  <2> QED BY <1>1, <2>1, <2>2
<1>3. ASSUME NEW v \in 2..Len(as), as[v].ext # v
      PROVE  Extends(as[v], as[v - 1])
  <2>1. CASE v = Len(cs) + 1
    <3>1. as[v - 1] = cs[Len(cs)]
      BY <1>1, <2>1
    <3> QED BY <1>1, <1>3, <2>1, <3>1
  <2>2. CASE v \in 2..Len(cs)
    <3>1. as[v] = cs[v] /\ as[v - 1] = cs[v - 1]
      BY <1>1, <2>2
    <3> QED BY <1>3, <2>2, <3>1 DEF SoundCommits
  <2> QED BY <1>1, <2>1, <2>2
<1> HIDE DEF as
<1>4. SoundCommits(as)
  BY <1>2, <1>3 DEF SoundCommits
<1> QED BY <1>4 DEF as

\* A body whose baseline is the last version, the compare-and-set of
\* if_updated_at, is such a content.
LEMMA WritebackGrows ==
  ASSUME NEW cs \in History, NEW x \in Content, SoundCommits(cs),
         Sound(cs, x, Len(cs), TRUE)
  PROVE  SoundCommits(Append(cs, x))
BY CommitsGrow DEF Sound, History

-----------------------------------------------------------------------------
(* One stretch of one note's operation.                                    *)

Docs    == TrackedDoc \cup {NoDoc}
Entries == Entry \cup {NoEntry}

\* The cells of one note, taken out of the invariant.
LEMMA NoteFacts ==
  ASSUME IInv, NEW n \in Notes
  PROVE  /\ TypeOK /\ commits[n] \in History /\ docs[n] \in Docs /\ store[n] \in Entries
         /\ run[n] \in Running /\ ops[n] \in Seq(OpKinds) /\ loose[n] \in Content \cup {NoDoc}
         /\ SoundNote(commits[n], stray[n], docs[n], store[n], run[n], loose[n])
BY DEF IInv, Descent, TypeOK, Lineage, Docs, Entries, History

\* A step that touches the machine's cells of n only, and leaves them sound.
StretchOK(n) ==
  /\ docs' = [docs EXCEPT ![n] = docs'[n]]
  /\ docs'[n] \in Docs /\ SoundDoc(commits[n], docs'[n])
  /\ store' = [store EXCEPT ![n] = store'[n]]
  /\ store'[n] \in Entries /\ SoundEntry(commits[n], store'[n])
  /\ run' = [run EXCEPT ![n] = run'[n]] /\ run'[n] \in Running
  /\ SoundRead(commits[n], docs'[n], run'[n]) /\ SoundWrite(commits[n], docs'[n], run'[n])
  /\ loose' \in [Notes -> Content \cup {NoDoc}] /\ loose' = [loose EXCEPT ![n] = loose'[n]]
  /\ Traceable => SoundLoose(docs'[n], store'[n], loose'[n]) /\ run'[n].loose = NoDoc

\* Such a step preserves the invariant when it leaves the vault and the stream alone.
LEMMA StretchPreserves ==
  ASSUME IInv, NEW n \in Notes, StretchOK(n), UNCHANGED <<vaultVars, streamVars>>,
         phase' \in {"running", "stopping", "stopped"},
         ops' \in [Notes -> Seq(OpKinds)], dropped' \in [Edits -> Reasons],
         nextEdit' \in 0..MaxEdits, crashes' \in Nat
  PROVE  Descent'
<1>1. /\ commits' = commits /\ stray' = stray /\ scope' = scope /\ conn' = conn
      /\ chan' = chan /\ live' = live /\ drops' = drops
  BY DEF vaultVars, streamVars
<1>2. TypeOK'
  BY <1>1 DEF IInv, Descent, TypeOK, StretchOK, Docs, Entries
<1>3. ASSUME NEW m \in Notes
      PROVE  SoundNote(commits[m], stray[m], docs[m], store[m], run[m], loose[m])'
  <2>1. CASE m = n
    BY <1>1, <2>1 DEF IInv, Descent, TypeOK, Lineage, SoundNote, StretchOK
  <2>2. CASE m # n
    <3>1. /\ docs'[m] = docs[m] /\ store'[m] = store[m] /\ run'[m] = run[m]
          /\ loose'[m] = loose[m]
      BY <2>2 DEF StretchOK, IInv, Descent, TypeOK
    <3> QED BY <1>1, <3>1 DEF IInv, Descent, Lineage, SoundNote
  <2> QED BY <2>1, <2>2
<1>4. Lineage'
  BY <1>3 DEF Lineage
<1> QED BY <1>2, <1>4 DEF IInv, Descent

\* What #persist writes is as sound as the document.
LEMMA SnapshotSound ==
  ASSUME NEW cs, NEW d \in TrackedDoc, SoundDoc(cs, d)
  PROVE  Snapshot(d) \in Entry /\ SoundEntry(cs, Snapshot(d))
<1>1. Snapshot(d) \in Entry
  BY DEF Snapshot, Entry, TrackedDoc
<1>2. d # NoDoc
  BY SentinelAssumption
<1> QED BY <1>1, <1>2 DEF SoundEntry, SoundDoc, Snapshot

\* The sentinels are no records, and an idle chain waits for nothing.
LEMMA IdleSound ==
  ASSUME NEW cs, NEW d
  PROVE  /\ Idle \in Running /\ SoundRead(cs, d, Idle) /\ SoundWrite(cs, d, Idle)
         /\ Idle.loose = NoDoc
BY DEF Idle, Blank, Running, Content, SoundRead, SoundWrite, OpKinds, Awaits, Answers

\* The end of an operation.
LEMMA SettleOK ==
  ASSUME IInv, NEW n \in Notes, NEW STATE op, NEW STATE d, d \in Docs, NEW STATE e, e \in Entries,
         docs[n] # NoDoc \/ (d = docs[n] /\ e = store[n]),
         SoundDoc(commits[n], d), SoundEntry(commits[n], e), Settle(n, op, d, e)
  PROVE  StretchOK(n)
<1>0. TypeOK /\ (Traceable => SoundLoose(docs[n], store[n], loose[n]))
  BY NoteFacts DEF SoundNote
<1>1. run' = [run EXCEPT ![n] = Idle] /\ run'[n] = Idle
  BY <1>0 DEF Settle, TypeOK
<1>2. loose' \in [Notes -> Content \cup {NoDoc}] /\ loose' = [loose EXCEPT ![n] = loose'[n]]
  BY <1>0 DEF Settle, Loosen, TypeOK, Docs, TrackedDoc
<1>3. docs' = [docs EXCEPT ![n] = docs'[n]] /\ docs'[n] \in {d, NoDoc}
  BY <1>0 DEF Settle, TypeOK
<1>4. /\ store' = [store EXCEPT ![n] = store'[n]]
      /\ store'[n] = e \/ (d # NoDoc /\ store'[n] = Snapshot(d))
  BY <1>0 DEF Settle, Persisted, TypeOK
<1>5. store'[n] \in Entries /\ SoundEntry(commits[n], store'[n])
  BY <1>4, SnapshotSound DEF Docs, Entries
<1>6. docs'[n] \in Docs /\ SoundDoc(commits[n], docs'[n])
  BY <1>3 DEF Docs, SoundDoc
<1>7. ASSUME Traceable
      PROVE  SoundLoose(docs'[n], store'[n], loose'[n])
  <2>1. CASE op = "uflush" /\ d # NoDoc /\ d.mapped /\ "adopt" \in LoadKinds
    <3>1. docs'[n] = NoDoc /\ store'[n] = Snapshot(d) /\ loose'[n] = d.content
      BY <1>0, <1>7, <2>1 DEF Settle, Loosen, Persisted, TypeOK, Traceable
    <3>2. Snapshot(d) # NoEntry /\ Snapshot(d).blob = d.content
      BY <2>1, SnapshotSound, SentinelAssumption DEF Docs, Snapshot
    <3> QED BY <2>1, <3>1, <3>2 DEF SoundLoose
  <2>2. CASE ~(op = "uflush" /\ d # NoDoc /\ d.mapped /\ "adopt" \in LoadKinds)
    <3>1. loose'[n] = loose[n]
      BY <1>0, <2>2 DEF Settle, Loosen, TypeOK
    <3>2. CASE docs[n] # NoDoc
      BY <1>0, <1>7, <3>1, <3>2 DEF SoundLoose
    <3>3. CASE docs[n] = NoDoc
      <4>1. docs'[n] = NoDoc /\ store'[n] = store[n]
        BY <1>0, <3>3 DEF Settle, TypeOK
      <4> QED BY <1>0, <1>7, <3>1, <3>3, <4>1 DEF SoundLoose
    <3> QED BY <3>2, <3>3
  <2> QED BY <2>1, <2>2
<1>8. /\ run'[n] \in Running /\ run'[n].loose = NoDoc
      /\ SoundRead(commits[n], docs'[n], run'[n]) /\ SoundWrite(commits[n], docs'[n], run'[n])
  BY <1>1, IdleSound
<1>9. run' = [run EXCEPT ![n] = run'[n]]
  BY <1>1
<1> QED BY <1>2, <1>3, <1>4, <1>5, <1>6, <1>7, <1>8, <1>9 DEF StretchOK

\* A request is sent; the operation parks.
LEMMA AwaitOK ==
  ASSUME IInv, NEW n \in Notes, NEW STATE op, op \in OpKinds \cup {"none"},
         NEW STATE at, at \in Awaits, NEW STATE td, td \in Docs, NEW STATE e, e \in Entries,
         NEW STATE provided, provided \in Content \cup {NoDoc},
         docs[n] # NoDoc \/ (td = docs[n] /\ e = store[n]),
         SoundDoc(commits[n], td), SoundEntry(commits[n], e),
         at # "loading" => td # NoDoc, at = "winner" => td.tracked < Version(n),
         Traceable => provided = NoDoc,
         Await(n, op, at, td, e, provided)
  PROVE  StretchOK(n)
<1>0. TypeOK /\ (Traceable => SoundLoose(docs[n], store[n], loose[n]))
  BY NoteFacts DEF SoundNote
<1>1. docs' = [docs EXCEPT ![n] = td] /\ docs'[n] = td
  BY <1>0 DEF Await, TypeOK
<1>2. store' = [store EXCEPT ![n] = e] /\ store'[n] = e
  BY <1>0 DEF Await, TypeOK
<1>3. loose' = loose
  BY DEF Await
<1>4. /\ run' = [run EXCEPT ![n] = run'[n]]
      /\ run'[n] = [op |-> op, at |-> at, net |-> "sent", loose |-> provided,
                    ver        |-> IF at = "writing" THEN td.tracked ELSE 0,
                    generation |-> IF at = "writing" THEN td.generation ELSE 0,
                    body       |-> IF at = "writing" THEN td.content ELSE Blank]
  BY <1>0 DEF Await, TypeOK
<1>5. at # "loading" => td \in TrackedDoc
  BY DEF Docs
<1>6. run'[n] \in Running
  BY <1>4, <1>5 DEF Running, Answers, TrackedDoc, Blank, Content
<1>7. SoundRead(commits[n], td, run'[n])
  BY <1>4 DEF SoundRead, Awaits, Version
<1>8. SoundWrite(commits[n], td, run'[n])
  <2>1. run'[n].at = at /\ run'[n].net = "sent"
    BY <1>4
  <2>2. CASE at # "writing"
    BY <2>1, <2>2 DEF SoundWrite
  <2>3. CASE at = "writing"
    <3>1. td \in TrackedDoc /\ td # NoDoc /\ td.generation \in Nat
      BY <1>5, <2>3, SentinelAssumption DEF TrackedDoc
    <3>2. run'[n].body = td.content /\ run'[n].ver = td.tracked
          /\ run'[n].generation = td.generation
      BY <1>4, <2>3
    <3>3. Sound(commits[n], td.content, td.tracked, TRUE)
      BY <3>1 DEF SoundDoc, Sound
    <3>4. Extends(td.content, td.content) /\ td.generation <= td.generation
      BY <3>1 DEF Extends
    <3> QED BY <2>1, <3>1, <3>2, <3>3, <3>4 DEF SoundWrite
  <2> QED BY <2>2, <2>3
<1>9. Traceable => SoundLoose(docs'[n], store'[n], loose'[n])
  BY <1>0, <1>1, <1>2, <1>3 DEF SoundLoose
<1> QED BY <1>0, <1>1, <1>2, <1>3, <1>4, <1>6, <1>7, <1>8, <1>9 DEF StretchOK, TypeOK

\* A document is registered.
LEMMA RegisterOK ==
  ASSUME IInv, NEW n \in Notes, NEW STATE op,
         NEW STATE content, content \in Content, NEW STATE tracked, NEW STATE dirty, dirty \in BOOLEAN,
         Sound(commits[n], content, tracked, dirty), SoundEntry(commits[n], store[n]),
         Register(n, op, content, tracked, dirty)
  PROVE  StretchOK(n)
<1> DEFINE td == [content |-> content, tracked |-> tracked, dirty |-> dirty, generation |-> 0,
                  timer |-> IF dirty THEN "debounce" ELSE "none", checkQueued |-> FALSE,
                  hint |-> 0, mapped |-> TRUE]
<1>0. TypeOK /\ (Traceable => SoundLoose(docs[n], store[n], loose[n]))
  BY NoteFacts DEF SoundNote
<1>1. /\ run' = [run EXCEPT ![n] = Idle] /\ docs' = [docs EXCEPT ![n] = td]
      /\ \E e \in Persisted(store[n], td) : store' = [store EXCEPT ![n] = e]
      /\ Loosen(n, NoDoc)
  BY DEF Register
<1>2. td.content = content /\ td.tracked = tracked /\ td.dirty = dirty
  OBVIOUS
<1>3. td \in TrackedDoc
  <2>1. tracked \in Nat \ {0}
    BY <1>0 DEF Sound, TypeOK
  <2> QED BY <2>1 DEF TrackedDoc, Timers
<1> HIDE DEF td
<1>4. td \in Docs /\ SoundDoc(commits[n], td)
  BY <1>2, <1>3 DEF Docs, SoundDoc
<1>5. store[n] \in Entries /\ Snapshot(td) \in Entries /\ SoundEntry(commits[n], Snapshot(td))
  BY <1>0, <1>3, <1>4, SnapshotSound DEF Entries, TypeOK
<1>6. PICK e \in Persisted(store[n], td) : store' = [store EXCEPT ![n] = e]
  BY <1>1
<1>7. e \in Entries /\ SoundEntry(commits[n], e)
  BY <1>5 DEF Persisted
<1>8. /\ loose' \in [Notes -> Content \cup {NoDoc}] /\ loose' = [loose EXCEPT ![n] = loose'[n]]
      /\ Traceable => loose'[n] = NoDoc
  BY <1>0, <1>1 DEF Loosen, TypeOK, SoundLoose
<1>9. docs'[n] = td /\ store'[n] = e /\ run'[n] = Idle
  BY <1>0, <1>1, <1>6 DEF TypeOK
<1>10. /\ run'[n] \in Running /\ run'[n].loose = NoDoc
       /\ SoundRead(commits[n], docs'[n], run'[n]) /\ SoundWrite(commits[n], docs'[n], run'[n])
  BY <1>9, IdleSound
<1>11. run' = [run EXCEPT ![n] = run'[n]] /\ docs' = [docs EXCEPT ![n] = docs'[n]]
       /\ store' = [store EXCEPT ![n] = store'[n]]
  BY <1>1, <1>6, <1>9
<1> QED BY <1>4, <1>7, <1>8, <1>9, <1>10, <1>11 DEF StretchOK, SoundLoose

\* Tracking is removed.
LEMMA RemoveOK ==
  ASSUME IInv, NEW n \in Notes, NEW STATE op, Remove(n, op), Scopes # {"tagged"}
  PROVE  StretchOK(n) /\ dropped' \in [Edits -> Reasons]
<1>1. /\ TypeOK /\ docs[n] \in Docs /\ store[n] \in Entries
      /\ SoundDoc(commits[n], docs[n]) /\ SoundEntry(commits[n], store[n])
  BY DEF IInv, Descent, TypeOK, Lineage, SoundNote, Docs, Entries
<1>2. CASE Tracked(n)
  <2>1. run' = [run EXCEPT ![n] = Idle] /\ docs' = [docs EXCEPT ![n] = NoDoc]
    BY <1>2 DEF Remove
  <2>2. \E e \in {NoEntry, store[n]} : store' = [store EXCEPT ![n] = e]
    BY <1>2 DEF Remove
  <2>3. /\ store' = [store EXCEPT ![n] = store'[n]]
        /\ store'[n] \in Entries /\ SoundEntry(commits[n], store'[n])
    BY <1>1, <2>2 DEF TypeOK, Entries, SoundEntry
  <2>4. run'[n] = Idle /\ docs'[n] = NoDoc
    BY <1>1, <2>1 DEF TypeOK
  <2>5. /\ loose' \in [Notes -> Content \cup {NoDoc}] /\ loose' = [loose EXCEPT ![n] = loose'[n]]
        /\ Traceable => loose'[n] = loose[n]
    BY <1>1, <1>2 DEF Remove, Loosen, TypeOK, Traceable, Docs, TrackedDoc, Tracked
  <2>7. Traceable => loose[n] = NoDoc
    BY <1>2, NoteFacts DEF SoundNote, SoundLoose, Tracked
  <2>6. dropped' \in [Edits -> Reasons]
    BY <1>1, <1>2 DEF Remove, Drop, TypeOK, Reasons
  <2>8. /\ run'[n] \in Running /\ run'[n].loose = NoDoc
        /\ SoundRead(commits[n], docs'[n], run'[n]) /\ SoundWrite(commits[n], docs'[n], run'[n])
    BY <2>4, IdleSound
  <2>9. run' = [run EXCEPT ![n] = run'[n]] /\ docs' = [docs EXCEPT ![n] = docs'[n]]
    BY <2>1, <2>4
  <2>10. docs'[n] \in Docs /\ SoundDoc(commits[n], docs'[n])
    BY <2>4 DEF Docs, SoundDoc
  <2> QED BY <2>3, <2>5, <2>6, <2>7, <2>8, <2>9, <2>10 DEF StretchOK, SoundLoose
<1>3. CASE ~Tracked(n)
  BY <1>1, <1>3, SettleOK DEF Remove, TypeOK
<1> QED BY <1>2, <1>3

\* A re-arming of the timer is no change of lineage.
LEMMA ScheduleOK ==
  ASSUME NEW cs, NEW td \in TrackedDoc, NEW kind \in Timers, SoundDoc(cs, td)
  PROVE  Schedule(td, kind) \in TrackedDoc /\ SoundDoc(cs, Schedule(td, kind))
<1>1. Schedule(td, kind) \in TrackedDoc
  BY DEF Schedule, TrackedDoc
<1>2. /\ Schedule(td, kind).content = td.content /\ Schedule(td, kind).tracked = td.tracked
      /\ Schedule(td, kind).dirty = td.dirty
  BY DEF Schedule, TrackedDoc
<1> QED BY <1>1, <1>2, SentinelAssumption DEF SoundDoc

\* The deferral of a writeback.
LEMMA RetryOK ==
  ASSUME IInv, NEW n \in Notes, NEW STATE op, docs[n] # NoDoc, Retry(n, op, docs[n])
  PROVE  StretchOK(n) /\ dropped' = dropped
<1>1. TypeOK /\ docs[n] \in TrackedDoc /\ store[n] \in Entries
  BY DEF IInv, Descent, TypeOK, Entries
<1>2. SoundDoc(commits[n], docs[n]) /\ SoundEntry(commits[n], store[n])
  BY DEF IInv, Descent, Lineage, SoundNote
<1>3. /\ Schedule(docs[n], "retry") \in Docs
      /\ SoundDoc(commits[n], Schedule(docs[n], "retry"))
  BY <1>1, <1>2, ScheduleOK DEF Docs, Timers
<1>4. Settle(n, op, Schedule(docs[n], "retry"), store[n]) /\ dropped' = dropped
  BY DEF Retry
<1> QED BY <1>1, <1>2, <1>3, <1>4, SettleOK

\* A re-seed from a version later than the baseline.
LEMMA ReseedOK ==
  ASSUME IInv, NEW n \in Notes, NEW STATE op, docs[n] # NoDoc,
         NEW STATE ver, ver \in 1..Version(n), docs[n].tracked < ver,
         Reseed(n, op, docs[n], ver)
  PROVE  StretchOK(n) /\ dropped' \in [Edits -> Reasons]
<1> DEFINE winner == commits[n][ver]
           td == docs[n]
           d == [td EXCEPT !.content = winner, !.tracked = ver, !.dirty = FALSE, !.timer = "none"]
           t == [td EXCEPT !.content.torn = TRUE]
<1>1. TypeOK /\ td \in TrackedDoc /\ store[n] \in Entries /\ commits[n] \in Seq(Content)
  BY DEF IInv, Descent, TypeOK, Entries
<1>2. /\ SoundDoc(commits[n], td) /\ SoundEntry(commits[n], store[n])
      /\ SoundCommits(commits[n])
  BY DEF IInv, Descent, Lineage, SoundNote
<1>3. ver \in 1..Len(commits[n]) /\ winner \in Content
  BY <1>1 DEF Version
<1>4. d \in TrackedDoc /\ d.content = winner /\ d.tracked = ver /\ d.dirty = FALSE
  <2>1. d \in TrackedDoc
    <3>1. ver \in Nat \ {0} /\ "none" \in Timers
      BY <1>1, <1>3 DEF Timers
    <3> QED BY <1>1, <1>3, <3>1, Zenon DEF TrackedDoc
  <2>2. d.content = winner /\ d.tracked = ver
    BY <1>1 DEF TrackedDoc
  <2>3. d.dirty = FALSE
    BY <1>1, Zenon DEF TrackedDoc
  <2> QED BY <2>1, <2>2, <2>3
<1>5. Sound(commits[n], winner, ver, FALSE)
  BY <1>2, <1>3, <1>1 DEF Sound, SoundCommits, Extends
<1>6. SoundDoc(commits[n], d)
  BY <1>4, <1>5, Zenon DEF SoundDoc
<1>7. t \in TrackedDoc /\ t.content.torn /\ t.tracked = td.tracked /\ t.dirty = td.dirty
  BY <1>1 DEF TrackedDoc, Content
<1>8. td.tracked \in 1..Len(commits[n]) /\ td.tracked < Len(commits[n])
  BY <1>1, <1>2, <1>3 DEF SoundDoc, Sound, TrackedDoc
<1>9. SoundDoc(commits[n], t)
  BY <1>7, <1>8 DEF SoundDoc, Sound
<1>10. dropped' \in [Edits -> Reasons]
  BY <1>1 DEF Reseed, Drop, TypeOK, Reasons
<1>11. \/ \E e \in Persisted(store[n], d) : Settle(n, op, d, e)
       \/ Settle(n, op, t, store[n])
  BY DEF Reseed
<1> HIDE DEF winner, td, d, t
<1>12. CASE Settle(n, op, t, store[n])
  BY <1>1, <1>2, <1>7, <1>9, <1>10, <1>12, SettleOK DEF Docs
<1>13. CASE \E e \in Persisted(store[n], d) : Settle(n, op, d, e)
  <2>1. PICK e \in Persisted(store[n], d) : Settle(n, op, d, e)
    BY <1>13
  <2>2. e \in Entries /\ SoundEntry(commits[n], e)
    BY <1>1, <1>2, <1>4, <1>6, SnapshotSound DEF Persisted, Entries
  <2> QED BY <1>1, <1>4, <1>6, <1>10, <2>1, <2>2, SettleOK DEF Docs
<1> QED BY <1>11, <1>12, <1>13
\* From the serialize hook to the updateNote call.
LEMMA SerializeOK ==
  ASSUME IInv, NEW n \in Notes, NEW STATE op, op \in OpKinds \cup {"none"}, docs[n] # NoDoc,
         NEW STATE e, e \in Entries, SoundEntry(commits[n], e), Serialize(n, op, docs[n], e)
  PROVE  StretchOK(n) /\ dropped' = dropped
<1>1. TypeOK /\ docs[n] \in Docs /\ SoundDoc(commits[n], docs[n])
  BY NoteFacts DEF SoundNote
<1>2. dropped' = dropped
  BY DEF Serialize
<1>3. CASE Await(n, op, "writing", docs[n], e, NoDoc)
  <2> DEFINE at == "writing"
  <2>1. at \in Awaits /\ at # "winner" /\ Await(n, op, at, docs[n], e, NoDoc)
    BY <1>3 DEF Awaits
  <2> HIDE DEF at
  <2> QED BY <1>1, <1>2, <2>1, AwaitOK
<1>4. CASE Settle(n, op, docs[n], e)
  BY <1>1, <1>2, <1>4, SettleOK
<1> QED BY <1>3, <1>4 DEF Serialize

\* The first stretch of a flush.
LEMMA BeginFlushOK ==
  ASSUME IInv, NEW n \in Notes, NEW STATE op, op \in OpKinds, BeginFlush(n, op)
  PROVE  StretchOK(n) /\ dropped' = dropped
<1>1. /\ TypeOK /\ docs[n] \in Docs /\ SoundDoc(commits[n], docs[n])
      /\ store[n] \in Entries /\ SoundEntry(commits[n], store[n])
  BY NoteFacts DEF SoundNote
<1>2. CASE Tracked(n) /\ docs[n].dirty
  <2>1. docs[n] # NoDoc /\ docs[n] \in TrackedDoc
    BY <1>1, <1>2 DEF Tracked, Docs
  <2>2. PICK e \in Persisted(store[n], docs[n]) :
          IF live
             THEN Serialize(n, op, docs[n], e)
             ELSE Await(n, op, "revalidating", docs[n], e, NoDoc) /\ UNCHANGED dropped
    BY <1>2 DEF BeginFlush
  <2>3. e \in Entries /\ SoundEntry(commits[n], e)
    BY <1>1, <2>1, SnapshotSound DEF Persisted, Entries
  <2>4. CASE live
    BY <2>1, <2>2, <2>3, <2>4, SerializeOK
  <2>5. CASE ~live
    <3> DEFINE at == "revalidating"
    <3>1. at \in Awaits /\ at # "winner" /\ Await(n, op, at, docs[n], e, NoDoc)
      BY <2>2, <2>5 DEF Awaits
    <3>2. dropped' = dropped
      BY <2>2, <2>5
    <3> HIDE DEF at
    <3> QED BY <1>1, <2>1, <2>3, <3>1, <3>2, AwaitOK
  <2> QED BY <2>4, <2>5
<1>3. CASE ~(Tracked(n) /\ docs[n].dirty)
  <2>1. Settle(n, op, docs[n], store[n]) /\ dropped' = dropped
    BY <1>3 DEF BeginFlush
  <2> QED BY <1>1, <2>1, SettleOK
<1> QED BY <1>2, <1>3

\* The first stretch of a load.
LEMMA BeginLoadOK ==
  ASSUME IInv, NEW n \in Notes, NEW STATE op, op \in OpKinds, BeginLoad(n, op)
  PROVE  StretchOK(n) /\ dropped' = dropped
<1> DEFINE provided == IF op = "adopt" THEN loose[n] ELSE NoDoc
           content  == IF provided = NoDoc THEN store[n].blob ELSE provided
<1>1. /\ TypeOK /\ docs[n] \in Docs /\ SoundDoc(commits[n], docs[n])
      /\ store[n] \in Entries /\ SoundEntry(commits[n], store[n])
      /\ provided \in Content \cup {NoDoc}
      /\ Traceable => SoundLoose(docs[n], store[n], provided)
  BY NoteFacts DEF SoundNote, SoundLoose
<1>2. /\ dropped' = dropped
      /\ \/ Settle(n, op, docs[n], store[n])
         \/ store[n] # NoEntry
            /\ Register(n, op, content, store[n].sourceVersion, store[n].dirty)
         \/ Await(n, op, "loading", docs[n], store[n], provided) /\ store[n] = NoEntry
  BY DEF BeginLoad
<1>3. CASE Settle(n, op, docs[n], store[n])
  BY <1>1, <1>2, <1>3, SettleOK
<1>4. CASE /\ store[n] # NoEntry
           /\ Register(n, op, content, store[n].sourceVersion, store[n].dirty)
  <2>1. store[n] \in Entry
    BY <1>1, <1>4 DEF Entries
  <2>2. content \in Content /\ store[n].dirty \in BOOLEAN
    BY <1>1, <2>1 DEF Entry
  <2>3. Sound(commits[n], content, store[n].sourceVersion, store[n].dirty)
    BY <1>1, <1>4 DEF SoundEntry, Sound, SoundLoose
  <2> HIDE DEF content
  <2> QED BY <1>1, <1>2, <1>4, <2>2, <2>3, RegisterOK
<1>5. CASE Await(n, op, "loading", docs[n], store[n], provided) /\ store[n] = NoEntry
  <2>3. Traceable => provided = NoDoc
    BY <1>1, <1>5 DEF SoundLoose
  <2> DEFINE at == "loading"
  <2>1. at \in Awaits /\ at = "loading" /\ at # "winner"
    BY DEF Awaits
  <2>2. Await(n, op, at, docs[n], store[n], provided)
    BY <1>5
  <2> HIDE DEF at, provided
  <2> QED BY <1>1, <1>2, <2>1, <2>2, <2>3, AwaitOK
<1> QED BY <1>2, <1>3, <1>4, <1>5

\* The first stretch of an external check.
LEMMA BeginCheckOK ==
  ASSUME IInv, NEW n \in Notes, NEW STATE op, op \in OpKinds, BeginCheck(n, op)
  PROVE  StretchOK(n) /\ dropped' = dropped
<1> DEFINE td == [docs[n] EXCEPT !.checkQueued = FALSE]
<1>1. /\ TypeOK /\ docs[n] \in Docs /\ SoundDoc(commits[n], docs[n])
      /\ store[n] \in Entries /\ SoundEntry(commits[n], store[n])
  BY NoteFacts DEF SoundNote
<1>2. /\ dropped' = dropped
      /\ \/ Settle(n, op, docs[n], store[n])
         \/ Tracked(n) /\ Settle(n, op, td, store[n])
         \/ Tracked(n) /\ Await(n, op, "checking", td, store[n], NoDoc)
  BY DEF BeginCheck
<1>3. ASSUME Tracked(n)
      PROVE  td \in Docs /\ td # NoDoc /\ SoundDoc(commits[n], td)
  <2>1. docs[n] \in TrackedDoc
    BY <1>1, <1>3 DEF Tracked, Docs
  <2>2. td \in TrackedDoc
    BY <2>1 DEF TrackedDoc
  <2>3. td.content = docs[n].content /\ td.tracked = docs[n].tracked /\ td.dirty = docs[n].dirty
    BY <2>1, Zenon DEF TrackedDoc
  <2> HIDE DEF td
  <2> QED BY <1>1, <2>1, <2>2, <2>3, SentinelAssumption, Zenon DEF SoundDoc, Docs
<1> HIDE DEF td
<1>4. CASE Settle(n, op, docs[n], store[n])
  BY <1>1, <1>2, <1>4, SettleOK
<1>5. CASE Tracked(n) /\ Settle(n, op, td, store[n])
  BY <1>1, <1>2, <1>3, <1>5, SettleOK DEF Tracked
<1>6. CASE Tracked(n) /\ Await(n, op, "checking", td, store[n], NoDoc)
  <2> DEFINE at == "checking"
  <2>1. at \in Awaits /\ at # "winner" /\ Await(n, op, at, td, store[n], NoDoc)
    BY <1>6 DEF Awaits
  <2> HIDE DEF at
  <2> QED BY <1>1, <1>2, <1>3, <1>6, <2>1, AwaitOK DEF Tracked
<1> QED BY <1>2, <1>4, <1>5, <1>6

\* Taking the head of a note's chain up to its first await preserves the invariant.
LEMMA BeginPreserves ==
  ASSUME IInv, NEW n \in Notes, Begin(n)
  PROVE  Descent'
<1> DEFINE op == Head(ops[n])
<1>1. op \in OpKinds /\ ops' \in [Notes -> Seq(OpKinds)]
  <2>1. ops[n] \in Seq(OpKinds) /\ ops[n] # <<>> /\ ops \in [Notes -> Seq(OpKinds)]
    BY NoteFacts DEF Begin, TypeOK
  <2>2. ops' = [ops EXCEPT ![n] = Tail(@)] /\ Tail(ops[n]) \in Seq(OpKinds)
    BY <2>1 DEF Begin
  <2> QED BY <2>1, <2>2
<1>2. \/ BeginLoad(n, op) \/ BeginFlush(n, op) \/ BeginCheck(n, op) \/ Remove(n, op)
  <2> HIDE DEF op
  <2>1. CASE op \in {"load", "adopt"}
    BY <2>1 DEF Begin, op
  <2>2. CASE op \in {"flush", "uflush", "sflush"}
    BY <2>2 DEF Begin, op
  <2>3. CASE op = "check"
    BY <2>3 DEF Begin, op
  <2>4. CASE op = "removed"
    BY <2>4 DEF Begin, op
  <2> QED BY <1>1, <2>1, <2>2, <2>3, <2>4 DEF OpKinds
<1>6. Remove(n, op) => BeginLoad(n, op) \/ BeginFlush(n, op) \/ BeginCheck(n, op) \/ Scopes # {"tagged"}
  <2>1. CASE op = "removed"
    <3>1. ops[n] \in Seq(OpKinds) /\ ops[n] # <<>>
      BY NoteFacts DEF Begin
    <3>2. 1 \in DOMAIN ops[n] /\ ops[n][1] = op
      BY <3>1
    <3> QED BY <2>1, <3>2 DEF IInv, Present, Stays
  <2>2. CASE op # "removed"
    BY <1>1, <2>2 DEF Begin, OpKinds
  <2> QED BY <2>1, <2>2
<1>3. UNCHANGED <<vaultVars, streamVars, phase, countVars>>
  BY DEF Begin
<1> HIDE DEF op
<1>4. StretchOK(n) /\ dropped' \in [Edits -> Reasons]
  BY <1>1, <1>2, <1>6, BeginLoadOK, BeginFlushOK, BeginCheckOK, RemoveOK, NoteFacts DEF TypeOK
<1>5. /\ phase' \in {"running", "stopping", "stopped"} /\ nextEdit' \in 0..MaxEdits
      /\ crashes' \in Nat
  BY <1>3, NoteFacts DEF TypeOK, countVars
<1> QED BY <1>1, <1>3, <1>4, <1>5, StretchPreserves
-----------------------------------------------------------------------------
(* The stretches after an answer.                                          *)

\* A stretch after an answer that leaves a sound note behind preserves the invariant.
LEMMA ReplyPreserves ==
  ASSUME IInv, NEW n \in Notes, StretchOK(n), dropped' \in [Edits -> Reasons],
         UNCHANGED Elsewhere
  PROVE  Descent'
<1>1. /\ ops' \in [Notes -> Seq(OpKinds)] /\ phase' \in {"running", "stopping", "stopped"}
      /\ nextEdit' \in 0..MaxEdits /\ crashes' \in Nat
  BY NoteFacts DEF Elsewhere, countVars, TypeOK
<1> QED BY <1>1, StretchPreserves DEF Elsewhere

\* The stretch after the load's getNote.
LEMMA LoadReplyPreserves ==
  ASSUME IInv, NEW n \in Notes, LoadReply(n)
  PROVE  Descent'
<1> DEFINE r == run[n]
           content == IF r.loose = NoDoc THEN commits[n][r.ver] ELSE r.loose
<1>1. /\ TypeOK /\ docs[n] \in Docs /\ SoundDoc(commits[n], docs[n])
      /\ store[n] \in Entries /\ SoundEntry(commits[n], store[n]) /\ r \in Running
  BY NoteFacts DEF SoundNote
<1>2. /\ dropped' = dropped /\ UNCHANGED Elsewhere
      /\ \/ r.net = "note" /\ Register(n, r.op, content, r.ver, FALSE)
         \/ Settle(n, r.op, docs[n], store[n])
  BY DEF LoadReply
<1>3. CASE Settle(n, r.op, docs[n], store[n])
  <2>1. StretchOK(n)
    BY <1>1, <1>3, SettleOK
  <2> QED BY <1>1, <1>2, <2>1, ReplyPreserves DEF TypeOK
<1>4. CASE r.net = "note" /\ Register(n, r.op, content, r.ver, FALSE)
  <2>1. r.ver \in 1..Len(commits[n]) /\ commits[n][r.ver] \in Content
    BY <1>4, NoteFacts DEF SoundNote, SoundRead, History
  <2>2. content \in Content
    BY <1>1, <2>1 DEF Running
  <2>3. Traceable => content = commits[n][r.ver] /\ ~content.torn
    BY <2>1, NoteFacts DEF SoundNote, SoundCommits
  <2>4. Sound(commits[n], content, r.ver, FALSE)
    BY <2>1, <2>2, <2>3 DEF Sound, Extends
  <2> HIDE DEF content
  <2>5. StretchOK(n)
    BY <1>1, <1>4, <2>2, <2>4, RegisterOK
  <2> QED BY <1>1, <1>2, <2>5, ReplyPreserves DEF TypeOK
<1> QED BY <1>2, <1>3, <1>4

\* The stretch after an external check's getNote: a re-seed, a removal or nothing.
LEMMA CheckReplyPreserves ==
  ASSUME IInv, NEW n \in Notes, CheckReply(n)
  PROVE  Descent'
<1> DEFINE r == run[n]
<1>1. /\ TypeOK /\ docs[n] \in Docs /\ SoundDoc(commits[n], docs[n])
      /\ store[n] \in Entries /\ SoundEntry(commits[n], store[n])
      /\ SoundRead(commits[n], docs[n], r)
  BY NoteFacts DEF SoundNote
<1>2. /\ r.at = "checking" /\ UNCHANGED Elsewhere
      /\ \/ Settle(n, r.op, docs[n], store[n]) /\ dropped' = dropped
         \/ Remove(n, r.op) /\ Scopes # {"tagged"}
         \/ r.net = "note" /\ r.ver # docs[n].tracked /\ Reseed(n, r.op, docs[n], r.ver)
  BY DEF CheckReply, Answered, IInv, Present, Stays
<1>3. docs[n] # NoDoc /\ docs[n] \in TrackedDoc
  BY <1>1, <1>2 DEF SoundRead, Awaits, Docs
<1>4. CASE Settle(n, r.op, docs[n], store[n]) /\ dropped' = dropped
  <2>1. StretchOK(n)
    BY <1>1, <1>4, SettleOK
  <2> QED BY <1>1, <1>2, <1>4, <2>1, ReplyPreserves DEF TypeOK
<1>5. CASE Remove(n, r.op) /\ Scopes # {"tagged"}
  BY <1>2, <1>5, RemoveOK, ReplyPreserves
<1>6. CASE r.net = "note" /\ r.ver # docs[n].tracked /\ Reseed(n, r.op, docs[n], r.ver)
  <2>1. r.ver \in 1..Version(n) /\ docs[n].tracked < r.ver
    BY <1>1, <1>2, <1>3, <1>6 DEF SoundRead, Version, TypeOK, TrackedDoc
  <2>2. StretchOK(n) /\ dropped' \in [Edits -> Reasons]
    BY <1>3, <1>6, <2>1, ReseedOK
  <2> QED BY <1>2, <2>2, ReplyPreserves
<1> QED BY <1>2, <1>4, <1>5, <1>6

\* The stretch after the getNote that precedes a writeback while the stream is down.
LEMMA RevalidateReplyPreserves ==
  ASSUME IInv, NEW n \in Notes, RevalidateReply(n)
  PROVE  Descent'
<1> DEFINE r == run[n]
<1>1. /\ TypeOK /\ docs[n] \in Docs /\ SoundRead(commits[n], docs[n], r)
      /\ store[n] \in Entries /\ SoundEntry(commits[n], store[n]) /\ r \in Running
  BY NoteFacts DEF SoundNote
<1>2. /\ r.at = "revalidating" /\ UNCHANGED Elsewhere
      /\ \/ Retry(n, r.op, docs[n])
         \/ Remove(n, r.op) /\ Scopes # {"tagged"}
         \/ r.net = "note" /\ r.ver # docs[n].tracked /\ Reseed(n, r.op, docs[n], r.ver)
         \/ Serialize(n, r.op, docs[n], store[n])
  BY DEF RevalidateReply, Answered, IInv, Present, Stays
<1>3. docs[n] # NoDoc /\ docs[n] \in TrackedDoc
  BY <1>1, <1>2 DEF SoundRead, Awaits, Docs
<1>4. CASE Retry(n, r.op, docs[n])
  <2>1. StretchOK(n) /\ dropped' = dropped
    BY <1>3, <1>4, RetryOK
  <2> QED BY <1>1, <1>2, <2>1, ReplyPreserves DEF TypeOK
<1>5. CASE Remove(n, r.op) /\ Scopes # {"tagged"}
  BY <1>2, <1>5, RemoveOK, ReplyPreserves
<1>6. CASE r.net = "note" /\ r.ver # docs[n].tracked /\ Reseed(n, r.op, docs[n], r.ver)
  <2>1. r.ver \in 1..Version(n) /\ docs[n].tracked < r.ver
    BY <1>1, <1>2, <1>3, <1>6 DEF SoundRead, Version, TypeOK, TrackedDoc
  <2>2. StretchOK(n) /\ dropped' \in [Edits -> Reasons]
    BY <1>3, <1>6, <2>1, ReseedOK
  <2> QED BY <1>2, <2>2, ReplyPreserves
<1>7. CASE Serialize(n, r.op, docs[n], store[n])
  <2>1. r.op \in OpKinds \cup {"none"}
    BY <1>1 DEF Running
  <2>2. StretchOK(n) /\ dropped' = dropped
    BY <1>1, <1>3, <1>7, <2>1, SerializeOK
  <2> QED BY <1>1, <1>2, <2>2, ReplyPreserves DEF TypeOK
<1> QED BY <1>2, <1>4, <1>5, <1>6, <1>7

\* The stretch after the re-fetch that follows a conflict.
LEMMA WinnerReplyPreserves ==
  ASSUME IInv, NEW n \in Notes, WinnerReply(n)
  PROVE  Descent'
<1> DEFINE r == run[n]
<1>1. TypeOK /\ docs[n] \in Docs /\ SoundRead(commits[n], docs[n], r)
  BY NoteFacts DEF SoundNote
<1>2. /\ r.at = "winner" /\ UNCHANGED Elsewhere
      /\ \/ Retry(n, r.op, docs[n])
         \/ Remove(n, r.op) /\ Scopes # {"tagged"}
         \/ r.net = "note" /\ Reseed(n, r.op, docs[n], r.ver)
  BY DEF WinnerReply, Answered, IInv, Present, Stays
<1>3. docs[n] # NoDoc
  BY <1>1, <1>2 DEF SoundRead, Awaits
<1>4. CASE Retry(n, r.op, docs[n])
  <2>1. StretchOK(n) /\ dropped' = dropped
    BY <1>3, <1>4, RetryOK
  <2> QED BY <1>1, <1>2, <2>1, ReplyPreserves DEF TypeOK
<1>5. CASE Remove(n, r.op) /\ Scopes # {"tagged"}
  BY <1>2, <1>5, RemoveOK, ReplyPreserves
<1>6. CASE r.net = "note" /\ Reseed(n, r.op, docs[n], r.ver)
  <2>1. r.ver \in 1..Version(n) /\ docs[n].tracked < r.ver
    BY <1>1, <1>2, <1>6 DEF SoundRead, Version
  <2>2. StretchOK(n) /\ dropped' \in [Edits -> Reasons]
    BY <1>3, <1>6, <2>1, ReseedOK
  <2> QED BY <1>2, <2>2, ReplyPreserves
<1> QED BY <1>2, <1>4, <1>5, <1>6

\* The stretch after updateNote answered: acknowledged, conflict or failure.
LEMMA WriteReplyPreserves ==
  ASSUME IInv, NEW n \in Notes, WriteReply(n)
  PROVE  Descent'
<1> DEFINE r == run[n]
           td == docs[n]
           d == Acked(td, r)
           left == IF d.dirty THEN Schedule(d, "debounce") ELSE d
<1>1. /\ TypeOK /\ td \in Docs /\ SoundDoc(commits[n], td) /\ r \in Running
      /\ store[n] \in Entries /\ SoundEntry(commits[n], store[n])
      /\ SoundRead(commits[n], td, r) /\ SoundWrite(commits[n], td, r)
      /\ SoundCommits(commits[n]) /\ commits[n] \in History
  BY NoteFacts DEF SoundNote
<1>2. /\ r.at = "writing" /\ UNCHANGED Elsewhere /\ dropped' = dropped
      /\ \/ /\ r.net = "note"
            /\ \E e \in Persisted(store[n], d) : Settle(n, r.op, left, e)
         \/ /\ r.net = "conflict"
            /\ Await(n, r.op, "winner", td, store[n], NoDoc)
         \/ Settle(n, r.op, Schedule(td, "retry"), store[n])
  BY DEF WriteReply, Answered
<1>3. td # NoDoc /\ td \in TrackedDoc
  BY <1>1, <1>2 DEF SoundRead, Awaits, Docs
<1>4. SUFFICES StretchOK(n)
  BY <1>1, <1>2, ReplyPreserves DEF TypeOK
<1>5. CASE r.net = "note" /\ \E e \in Persisted(store[n], d) : Settle(n, r.op, left, e)
  <2>1. r.ver \in 1..Len(commits[n]) /\ commits[n][r.ver] = r.body /\ Len(commits[n]) \in Nat
    BY <1>1, <1>2, <1>5 DEF SoundRead, SoundWrite, History
  <2>2. d \in TrackedDoc /\ d.tracked = r.ver /\ d.content = td.content
    <3>1. r.ver \in Nat \ {0}
      BY <2>1
    <3>2. CASE td.generation = r.generation
      <4>1. d = [[td EXCEPT !.tracked = r.ver] EXCEPT !.dirty = FALSE]
        BY <3>2 DEF Acked
      <4> QED BY <1>3, <3>1, <4>1, Zenon DEF TrackedDoc
    <3>3. CASE td.generation # r.generation
      <4>1. d = [td EXCEPT !.tracked = r.ver]
        BY <3>3 DEF Acked
      <4> QED BY <1>3, <3>1, <4>1, Zenon DEF TrackedDoc
    <3> QED BY <3>2, <3>3
  <2>4. SoundDoc(commits[n], d)
    <3> SUFFICES ASSUME Traceable
                 PROVE  /\ ~d.content.torn /\ Extends(d.content, commits[n][d.tracked])
                        /\ d.dirty = FALSE => d.content = commits[n][d.tracked]
      BY <2>1, <2>2 DEF SoundDoc, Sound, TrackedDoc
    <3>1. ~r.body.torn
      BY <1>1, <2>1 DEF SoundCommits
    <3>2. Extends(td.content, r.body) /\ td.content.torn = r.body.torn
      BY <1>1, <1>2 DEF SoundWrite
    <3>3. d.dirty = FALSE => td.content = r.body
      <4>1. CASE td.generation = r.generation
        BY <1>1, <1>2, <4>1 DEF SoundWrite
      <4>2. CASE td.generation # r.generation
        <5>1. d = [td EXCEPT !.tracked = r.ver] /\ td.dirty
          BY <1>1, <1>2, <4>2 DEF Acked, SoundWrite
        <5>2. d.dirty = td.dirty
          BY <1>3, <5>1, Zenon DEF TrackedDoc
        <5> QED BY <5>1, <5>2
      <4> QED BY <4>1, <4>2
    <3> QED BY <2>1, <2>2, <3>1, <3>2, <3>3
  <2> HIDE DEF d
  <2>5. left \in Docs /\ SoundDoc(commits[n], left)
    BY <2>2, <2>4, ScheduleOK DEF Timers, Docs
  <2>6. PICK e \in Persisted(store[n], d) : Settle(n, r.op, left, e)
    BY <1>5
  <2>7. e \in Entries /\ SoundEntry(commits[n], e)
    BY <1>1, <2>2, <2>4, SnapshotSound DEF Persisted, Entries
  <2> HIDE DEF left
  <2> QED BY <1>1, <1>3, <2>5, <2>6, <2>7, SettleOK
<1>6. CASE r.net = "conflict" /\ Await(n, r.op, "winner", td, store[n], NoDoc)
  <2> DEFINE at == "winner"
  <2>1. at \in Awaits /\ at = "winner" /\ Await(n, r.op, at, td, store[n], NoDoc)
    BY <1>6 DEF Awaits
  <2>2. td.tracked < Version(n)
    BY <1>1, <1>2, <1>6 DEF SoundWrite, Version
  <2>3. r.op \in OpKinds \cup {"none"}
    BY <1>1 DEF Running
  <2> HIDE DEF at
  <2> QED BY <1>1, <1>3, <2>1, <2>2, <2>3, AwaitOK
<1>7. CASE Settle(n, r.op, Schedule(td, "retry"), store[n])
  <2>1. Schedule(td, "retry") \in Docs /\ SoundDoc(commits[n], Schedule(td, "retry"))
    BY <1>1, <1>3, ScheduleOK DEF Timers, Docs
  <2> QED BY <1>1, <1>3, <1>7, <2>1, SettleOK
<1> QED BY <1>2, <1>5, <1>6, <1>7

\* Every stretch after an answer.
LEMMA ReplyStepPreserves ==
  ASSUME IInv, NEW n \in Notes, Reply(n)
  PROVE  Descent'
BY LoadReplyPreserves, CheckReplyPreserves, RevalidateReplyPreserves, WriteReplyPreserves,
   WinnerReplyPreserves DEF Reply

-----------------------------------------------------------------------------
(* The vault and the network.                                              *)

\* A step of the vault or the network at one note.
LEMMA NetworkPreserves ==
  ASSUME IInv, NEW n \in Notes,
         UNCHANGED <<conn, live, drops, phase, docs, ops, store, loose, countVars, dropped>>,
         scope' \in [Notes -> ScopeKinds], chan' \in Seq(Event),
         commits' = [commits EXCEPT ![n] = commits'[n]], commits'[n] \in History,
         stray' = [stray EXCEPT ![n] = stray'[n]], stray'[n] \subseteq Stray,
         run' = [run EXCEPT ![n] = run'[n]], run'[n] \in Running,
         SoundNote(commits'[n], stray'[n], docs[n], store[n], run'[n], loose[n])
  PROVE  Descent'
<1>1. TypeOK'
  BY DEF IInv, Descent, TypeOK, History, countVars
<1>2. ASSUME NEW m \in Notes
      PROVE  SoundNote(commits[m], stray[m], docs[m], store[m], run[m], loose[m])'
  <2>1. CASE m = n
    BY <2>1
  <2>2. CASE m # n
    <3>1. commits'[m] = commits[m] /\ stray'[m] = stray[m] /\ run'[m] = run[m]
      BY <2>2 DEF IInv, Descent, TypeOK
    <3> QED BY <3>1 DEF IInv, Descent, Lineage
  <2> QED BY <2>1, <2>2
<1> QED BY <1>1, <1>2 DEF IInv, Descent, Lineage

\* An event is well formed.
LEMMA EmitType ==
  ASSUME TypeOK, NEW n \in Notes, NEW STATE ver, ver \in Nat, Emit(n, ver)
  PROVE  chan' \in Seq(Event)
<1> DEFINE ev == [snapshot |-> FALSE, about |-> {n},
                  vers |-> [m \in Notes |-> IF m = n THEN ver ELSE 0]]
<1>1. ev \in Event
  BY DEF Event
<1>2. chan' = Append(chan, ev) \/ chan' = chan
  BY DEF Emit
<1>3. chan \in Seq(Event)
  BY DEF TypeOK
<1> HIDE DEF ev
<1>4. Append(chan, ev) \in Seq(Event)
  BY <1>1, <1>3
<1> QED BY <1>2, <1>3, <1>4

\* What a commit does.
LEMMA CommitFacts ==
  ASSUME IInv, NEW n \in Notes, NEW STATE x, x \in Content, Commit(n, x)
  PROVE  /\ commits' = [commits EXCEPT ![n] = commits'[n]]
         /\ commits'[n] = Append(commits[n], x) /\ commits'[n] \in History
         /\ chan' \in Seq(Event)
<1>1. TypeOK /\ commits[n] \in History
  BY NoteFacts
<1>2. /\ commits' = [commits EXCEPT ![n] = Append(@, x)]
      /\ IF scope[n] = "tagged" THEN Emit(n, Version(n) + 1) ELSE UNCHANGED chan
  BY DEF Commit
<1>3. commits'[n] = Append(commits[n], x) /\ Append(commits[n], x) \in History
  BY <1>1, <1>2, HistoryGrows DEF TypeOK
<1>4. Version(n) + 1 \in Nat
  BY <1>1, HistoryGrows DEF Version, History
<1>5. chan' \in Seq(Event)
  BY <1>1, <1>2, <1>4, EmitType DEF TypeOK
<1> QED BY <1>1, <1>2, <1>3, <1>5 DEF TypeOK

\* A sound commit leaves every cell of its note sound.
LEMMA SoundNoteGrows ==
  ASSUME NEW cs \in History, NEW x \in Content, NEW ws \in SUBSET Stray, NEW d \in Docs,
         NEW e \in Entries, NEW r \in Running, NEW l, SoundNote(cs, ws, d, e, r, l),
         Traceable => ~x.torn /\ (x.ext = Len(cs) + 1 \/ Extends(x, cs[Len(cs)]))
  PROVE  SoundNote(Append(cs, x), ws, d, e, r, l)
<1>1. SoundCommits(Append(cs, x))
  BY CommitsGrow DEF SoundNote
<1>2. \A w \in ws : SoundStray(Append(cs, x), w)
  BY SoundStrayGrows DEF SoundNote
<1>3. SoundDoc(Append(cs, x), d) /\ SoundEntry(Append(cs, x), e)
  BY SoundDocGrows, SoundEntryGrows DEF SoundNote, Docs, Entries
<1>4. SoundRead(Append(cs, x), d, r) /\ SoundWrite(Append(cs, x), d, r)
  BY SoundRequestGrows DEF SoundNote, Docs
<1> QED BY <1>1, <1>2, <1>3, <1>4 DEF SoundNote

\* Somebody else writes the note.
LEMMA ExternalEditPreserves ==
  ASSUME IInv, NEW n \in Notes, ExternalEdit(n)
  PROVE  Descent'
<1> DEFINE x == [ext |-> Version(n) + 1, edits |-> {}, torn |-> FALSE]
<1>1. /\ TypeOK /\ commits[n] \in History /\ docs[n] \in Docs /\ store[n] \in Entries
      /\ run[n] \in Running /\ stray[n] \subseteq Stray
      /\ SoundNote(commits[n], stray[n], docs[n], store[n], run[n], loose[n])
  BY NoteFacts DEF TypeOK
<1>2. x \in Content /\ x.ext = Len(commits[n]) + 1 /\ ~x.torn
  BY <1>1, HistoryGrows DEF Content, Version, History
<1>3. Commit(n, x)
  BY DEF ExternalEdit
<1> HIDE DEF x
<1>4. SoundNote(Append(commits[n], x), stray[n], docs[n], store[n], run[n], loose[n])
  BY <1>1, <1>2, SoundNoteGrows
<1>5. UNCHANGED <<scope, stray, conn, live, drops, machineVars, countVars, dropped>>
  BY DEF ExternalEdit
<1>6. /\ stray' = [stray EXCEPT ![n] = stray'[n]] /\ stray'[n] = stray[n]
      /\ run' = [run EXCEPT ![n] = run'[n]] /\ run'[n] = run[n]
      /\ scope' \in [Notes -> ScopeKinds]
  BY <1>1, <1>5 DEF TypeOK, machineVars
<1> QED BY <1>1, <1>2, <1>3, <1>4, <1>5, <1>6, CommitFacts, NetworkPreserves DEF machineVars

\* The note is deleted or changes its tag.
LEMMA RescopePreserves ==
  ASSUME IInv, NEW n \in Notes, Rescope(n)
  PROVE  Descent'
<1>1. TypeOK /\ commits[n] \in History
  BY NoteFacts
<1>2. PICK s \in Scopes \ {scope[n]} :
        /\ scope' = [scope EXCEPT ![n] = s]
        /\ CASE s = "tagged"        -> Emit(n, Version(n))
             [] scope[n] = "tagged" -> Emit(n, 0)
             [] OTHER               -> UNCHANGED chan
        /\ UNCHANGED <<commits, stray, conn, live, drops, machineVars, countVars, dropped>>
  BY DEF Rescope
<1>3. scope' \in [Notes -> ScopeKinds]
  BY <1>1, <1>2, KindsAssumption DEF TypeOK
<1>4. Version(n) \in Nat
  BY <1>1, HistoryGrows DEF Version, History
<1>5. Emit(n, Version(n)) \/ Emit(n, 0) \/ chan' = chan
  BY <1>2
<1>6. chan' \in Seq(Event)
  <2>1. CASE Emit(n, Version(n))
    BY <1>1, <1>4, <2>1, EmitType
  <2>2. CASE Emit(n, 0)
    <3> DEFINE ver == 0
    <3>1. ver \in Nat /\ Emit(n, ver)
      BY <2>2
    <3> HIDE DEF ver
    <3> QED BY <1>1, <3>1, EmitType
  <2>3. CASE chan' = chan
    BY <1>1, <2>3 DEF TypeOK
  <2> QED BY <1>5, <2>1, <2>2, <2>3
<1>7. TypeOK'
  BY <1>1, <1>2, <1>3, <1>6 DEF TypeOK, machineVars, countVars
<1>8. Lineage'
  BY <1>2 DEF IInv, Descent, Lineage, machineVars
<1> QED BY <1>7, <1>8 DEF IInv, Descent
\* An answer changes the request only.
LEMMA ServeGetPreserves ==
  ASSUME IInv, NEW n \in Notes, ServeGet(n)
  PROVE  Descent'
<1> DEFINE r == run[n]
           q == run'[n]
<1>1. /\ TypeOK /\ commits[n] \in History /\ docs[n] \in Docs /\ r \in Running
      /\ SoundNote(commits[n], stray[n], docs[n], store[n], r, loose[n])
  BY NoteFacts
<1>2. /\ r.net = "sent" /\ r.at # "writing" /\ UNCHANGED <<commits, stray, chan, Untouched>>
      /\ \/ Answer(n, "missing", 0)
         \/ Answer(n, "note", Version(n))
  BY DEF ServeGet, Requested
<1>3. Version(n) \in 1..Len(commits[n]) /\ Version(n) \in Nat
  BY <1>1 DEF Version, History
<1>4. PICK net \in {"missing", "note"}, ver \in {0, Version(n)} :
        /\ Answer(n, net, ver) /\ (net = "note" => ver = Version(n))
  BY <1>2
<1>5. q = [r EXCEPT !.net = net, !.ver = ver] /\ run' = [run EXCEPT ![n] = q]
  BY <1>1, <1>4 DEF Answer, TypeOK
<1>6. /\ q \in Running /\ q.at = r.at /\ q.net = net /\ q.ver = ver /\ q.loose = r.loose
  <2>1. net \in Answers /\ ver \in Nat
    BY <1>3, <1>4 DEF Answers
  <2> HIDE DEF r
  <2> QED BY <1>1, <1>5, <2>1 DEF Running
<1> HIDE DEF r, q
<1>7. SoundRead(commits[n], docs[n], q)
  <2>1. r.at \in Awaits \ {"loading"} => docs[n] # NoDoc /\ docs[n] \in TrackedDoc
                                          /\ docs[n].tracked \in 1..Len(commits[n])
    BY <1>1 DEF SoundNote, SoundRead, SoundDoc, Sound, Docs
  <2> QED BY <1>1, <1>3, <1>4, <1>6, <2>1 DEF SoundNote, SoundRead, Version, Awaits
<1>8. SoundWrite(commits[n], docs[n], q)
  BY <1>2, <1>6 DEF SoundWrite
<1>9. SoundNote(commits[n], stray[n], docs[n], store[n], q, loose[n])
  BY <1>1, <1>6, <1>7, <1>8 DEF SoundNote
<1>10. /\ commits' = [commits EXCEPT ![n] = commits'[n]] /\ commits'[n] = commits[n]
       /\ stray' = [stray EXCEPT ![n] = stray'[n]] /\ stray'[n] = stray[n]
       /\ stray'[n] \subseteq Stray /\ scope' \in [Notes -> ScopeKinds] /\ chan' \in Seq(Event)
  BY <1>1, <1>2 DEF TypeOK, Untouched
<1>11. UNCHANGED <<conn, live, drops, phase, docs, ops, store, loose, countVars, dropped>>
  BY <1>2 DEF Untouched
<1> QED BY <1>1, <1>5, <1>6, <1>9, <1>10, <1>11, NetworkPreserves DEF q

\* A write answered with an error or a conflict leaves the machine's cells sound.
LEMMA WriteAnswered ==
  ASSUME NEW cs \in History, NEW d \in Docs, NEW r \in Running, r.net = "sent",
         SoundDoc(cs, d), SoundRead(cs, d, r), SoundWrite(cs, d, r),
         NEW net \in {"conflict", "error"}, net = "conflict" => r.at = "writing" /\ r.ver # Len(cs)
  PROVE  LET q == [r EXCEPT !.net = net, !.ver = 0]
         IN  q \in Running /\ q.loose = r.loose /\ SoundRead(cs, d, q) /\ SoundWrite(cs, d, q)
<1> DEFINE q == [r EXCEPT !.net = net, !.ver = 0]
<1>1. /\ q \in Running /\ q.at = r.at /\ q.net = net /\ q.loose = r.loose /\ q.body = r.body
      /\ q.generation = r.generation
  BY DEF Running, Answers
<1> HIDE DEF q
<1>2. SoundRead(cs, d, q)
  BY <1>1 DEF SoundRead
<1>3. net = "conflict" => d.tracked < Len(cs)
  <2> SUFFICES ASSUME net = "conflict" PROVE d.tracked < Len(cs)
    OBVIOUS
  <2>1. r.ver = d.tracked /\ r.ver # Len(cs) /\ d # NoDoc
    BY DEF SoundWrite, SoundRead, Awaits
  <2>2. d.tracked \in 1..Len(cs) /\ Len(cs) \in Nat
    BY <2>1 DEF SoundDoc, Sound, History
  <2> QED BY <2>1, <2>2
<1>4. SoundWrite(cs, d, q)
  BY <1>1, <1>3, Zenon DEF SoundWrite
<1> QED BY <1>1, <1>2, <1>4 DEF q

\* The vault answers an updateNote: it commits, or says conflict or 404.
LEMMA ServePutPreserves ==
  ASSUME IInv, NEW n \in Notes, ServePut(n)
  PROVE  Descent'
<1> DEFINE r == run[n]
           x == r.body
<1>1. /\ TypeOK /\ commits[n] \in History /\ docs[n] \in Docs /\ r \in Running
      /\ store[n] \in Entries /\ stray[n] \subseteq Stray
      /\ SoundNote(commits[n], stray[n], docs[n], store[n], r, loose[n])
  BY NoteFacts DEF TypeOK
<1>2. /\ r.net = "sent" /\ r.at = "writing" /\ UNCHANGED <<stray, Untouched>>
      /\ \/ /\ r.ver = Version(n) /\ Commit(n, x)
            /\ Answer(n, "note", Version(n) + 1)
         \/ /\ r.ver # Version(n) /\ Answer(n, "conflict", 0) /\ UNCHANGED <<commits, chan>>
         \/ Answer(n, "error", 0) /\ UNCHANGED <<commits, chan>>
  BY DEF ServePut, Requested
<1>3. /\ UNCHANGED <<conn, live, drops, phase, docs, ops, store, loose, countVars, dropped>>
      /\ stray' = [stray EXCEPT ![n] = stray'[n]] /\ stray'[n] = stray[n]
      /\ scope' \in [Notes -> ScopeKinds]
  BY <1>1, <1>2 DEF TypeOK, Untouched
<1>4. /\ SoundDoc(commits[n], docs[n]) /\ SoundRead(commits[n], docs[n], r)
      /\ SoundWrite(commits[n], docs[n], r) /\ Version(n) = Len(commits[n])
  BY <1>1 DEF SoundNote, Version
<1>5. ASSUME NEW net \in {"conflict", "error"}, Answer(n, net, 0), UNCHANGED <<commits, chan>>,
             net = "conflict" => r.ver # Version(n)
      PROVE  Descent'
  <2> DEFINE q == [r EXCEPT !.net = net, !.ver = 0]
  <2>1. run' = [run EXCEPT ![n] = run'[n]] /\ run'[n] = q
    BY <1>1, <1>5 DEF Answer, TypeOK
  <2>2. /\ q \in Running /\ q.loose = r.loose
        /\ SoundRead(commits[n], docs[n], q) /\ SoundWrite(commits[n], docs[n], q)
    BY <1>1, <1>2, <1>4, <1>5, WriteAnswered
  <2> HIDE DEF q
  <2>3. SoundNote(commits[n], stray[n], docs[n], store[n], q, loose[n])
    BY <1>1, <2>2 DEF SoundNote
  <2>4. /\ commits' = [commits EXCEPT ![n] = commits'[n]] /\ commits'[n] = commits[n]
        /\ chan' \in Seq(Event)
    BY <1>1, <1>5 DEF TypeOK
  <2> QED BY <1>1, <1>3, <2>1, <2>2, <2>3, <2>4, NetworkPreserves
<1>6. CASE r.ver = Version(n) /\ Commit(n, x) /\ Answer(n, "note", Version(n) + 1)
  <2> DEFINE cs == commits[n]
             q == [r EXCEPT !.net = "note", !.ver = Len(cs) + 1]
  <2>1. x \in Content /\ Len(cs) \in Nat \ {0}
    BY <1>1 DEF Running, History
  <2>2. run' = [run EXCEPT ![n] = run'[n]] /\ run'[n] = q
    BY <1>1, <1>4, <1>6 DEF Answer, TypeOK
  <2>3. Traceable => ~x.torn /\ Extends(x, cs[Len(cs)])
    BY <1>2, <1>4, <1>6 DEF SoundWrite, Sound
  <2>4. SoundNote(Append(cs, x), stray[n], docs[n], store[n], r, loose[n])
    BY <1>1, <2>1, <2>3, SoundNoteGrows
  <2>5. /\ q \in Running /\ q.at = r.at /\ q.net = "note" /\ q.ver = Len(cs) + 1
        /\ q.loose = r.loose /\ q.body = x /\ q.generation = r.generation
    <3>1. "note" \in Answers /\ Len(cs) + 1 \in Nat
      BY <2>1 DEF Answers
    <3> HIDE DEF r
    <3> QED BY <1>1, <3>1 DEF Running
  <2>6. /\ Append(cs, x) \in History /\ Len(Append(cs, x)) = Len(cs) + 1
        /\ Append(cs, x)[Len(cs) + 1] = x
    BY <1>1, <2>1, HistoryGrows
  <2> HIDE DEF q
  <2>7. SoundRead(Append(cs, x), docs[n], q)
    BY <1>2, <1>4, <2>1, <2>5, <2>6 DEF SoundRead
  <2>8. SoundWrite(Append(cs, x), docs[n], q)
    BY <1>2, <1>4, <2>5, <2>6, Zenon DEF SoundWrite
  <2>9. SoundNote(Append(cs, x), stray[n], docs[n], store[n], q, loose[n])
    BY <2>4, <2>5, <2>7, <2>8 DEF SoundNote
  <2>10. /\ commits' = [commits EXCEPT ![n] = commits'[n]]
         /\ commits'[n] = Append(cs, x) /\ chan' \in Seq(Event)
    BY <1>6, <2>1, CommitFacts
  <2> QED BY <1>1, <1>3, <2>2, <2>5, <2>6, <2>9, <2>10, NetworkPreserves
<1> QED BY <1>2, <1>5, <1>6

\* A request or its answer is lost; a lost write may still land.
LEMMA LoseRequestPreserves ==
  ASSUME IInv, NEW n \in Notes, LoseRequest(n)
  PROVE  Descent'
<1> DEFINE r == run[n]
           q == [r EXCEPT !.net = "error", !.ver = 0]
           w == [ver |-> r.ver, body |-> r.body]
<1>1. /\ TypeOK /\ commits[n] \in History /\ docs[n] \in Docs /\ r \in Running
      /\ stray[n] \subseteq Stray
      /\ SoundNote(commits[n], stray[n], docs[n], store[n], r, loose[n])
  BY NoteFacts DEF TypeOK
<1>2. /\ r.net = "sent" /\ Answer(n, "error", 0) /\ UNCHANGED <<commits, chan, Untouched>>
      /\ \/ stray' = stray
         \/ r.at = "writing" /\ stray' = [stray EXCEPT ![n] = @ \cup {w}]
  BY DEF LoseRequest, Requested
<1>3. run' = [run EXCEPT ![n] = run'[n]] /\ run'[n] = q
  BY <1>1, <1>2 DEF Answer, TypeOK
<1>4. /\ q \in Running /\ q.loose = r.loose
      /\ SoundRead(commits[n], docs[n], q) /\ SoundWrite(commits[n], docs[n], q)
  <2> DEFINE net == "error"
  <2>1. net \in {"conflict", "error"} /\ net # "conflict"
    OBVIOUS
  <2> HIDE DEF net
  <2>2. LET z == [r EXCEPT !.net = net, !.ver = 0]
        IN  /\ z \in Running /\ z.loose = r.loose
            /\ SoundRead(commits[n], docs[n], z) /\ SoundWrite(commits[n], docs[n], z)
    BY <1>1, <1>2, <2>1, WriteAnswered DEF SoundNote
  <2> QED BY <2>2 DEF net
<1>5. /\ stray' = [stray EXCEPT ![n] = stray'[n]] /\ stray'[n] \subseteq Stray
      /\ \A s \in stray'[n] : SoundStray(commits[n], s)
  <2>1. CASE stray' = stray
    BY <1>1, <2>1 DEF SoundNote, TypeOK
  <2>2. CASE r.at = "writing" /\ stray' = [stray EXCEPT ![n] = @ \cup {w}]
    <3>1. w \in Stray
      BY <1>1 DEF Stray, Running
    <3>2. SoundStray(commits[n], w)
      BY <1>1, <1>2, <2>2 DEF SoundNote, SoundWrite, SoundStray
    <3> HIDE DEF w
    <3>3. stray'[n] = stray[n] \cup {w}
      BY <1>1, <2>2 DEF TypeOK
    <3> QED BY <1>1, <2>2, <3>1, <3>2, <3>3 DEF SoundNote
  <2> QED BY <1>2, <2>1, <2>2
<1> HIDE DEF q
<1>6. SoundNote(commits[n], stray'[n], docs[n], store[n], q, loose[n])
  BY <1>1, <1>4, <1>5 DEF SoundNote
<1>7. /\ commits' = [commits EXCEPT ![n] = commits'[n]] /\ commits'[n] = commits[n]
      /\ chan' \in Seq(Event) /\ scope' \in [Notes -> ScopeKinds]
      /\ UNCHANGED <<conn, live, drops, phase, docs, ops, store, loose, countVars, dropped>>
  BY <1>1, <1>2 DEF TypeOK, Untouched
<1> QED BY <1>1, <1>3, <1>4, <1>5, <1>6, <1>7, NetworkPreserves

\* A write nobody waits for reaches the vault.
LEMMA LandStrayPreserves ==
  ASSUME IInv, NEW n \in Notes, LandStray(n)
  PROVE  Descent'
<1>1. /\ TypeOK /\ commits[n] \in History /\ docs[n] \in Docs /\ run[n] \in Running
      /\ store[n] \in Entries /\ stray[n] \subseteq Stray
      /\ SoundNote(commits[n], stray[n], docs[n], store[n], run[n], loose[n])
  BY NoteFacts DEF TypeOK
<1>2. PICK w \in stray[n] :
        /\ stray' = [stray EXCEPT ![n] = @ \ {w}]
        /\ \/ w.ver = Version(n) /\ Commit(n, w.body)
           \/ UNCHANGED <<commits, chan>>
        /\ UNCHANGED <<run, Untouched>>
  BY DEF LandStray
<1>3. /\ stray' = [stray EXCEPT ![n] = stray'[n]] /\ stray'[n] = stray[n] \ {w}
      /\ run' = [run EXCEPT ![n] = run'[n]] /\ run'[n] = run[n]
      /\ scope' \in [Notes -> ScopeKinds]
      /\ UNCHANGED <<conn, live, drops, phase, docs, ops, store, loose, countVars, dropped>>
  BY <1>1, <1>2 DEF TypeOK, Untouched
<1>4. stray'[n] \subseteq Stray /\ stray'[n] \subseteq stray[n]
  BY <1>1, <1>3
<1>5. SoundNote(commits[n], stray'[n], docs[n], store[n], run[n], loose[n])
  BY <1>1, <1>4 DEF SoundNote
<1>6. CASE w.ver = Version(n) /\ Commit(n, w.body)
  <2> DEFINE x == w.body
  <2>1. x \in Content /\ SoundStray(commits[n], w)
    BY <1>1, <1>2 DEF SoundNote, Stray
  <2>2. Traceable => ~x.torn /\ Extends(x, commits[n][Len(commits[n])])
    BY <1>1, <1>6, <2>1 DEF SoundStray, Sound, Version, History
  <2>3. Commit(n, x)
    BY <1>6
  <2> HIDE DEF x
  <2>4. SoundNote(Append(commits[n], x), stray'[n], docs[n], store[n], run[n], loose[n])
    BY <1>1, <1>4, <1>5, <2>1, <2>2, SoundNoteGrows
  <2>5. /\ commits' = [commits EXCEPT ![n] = commits'[n]] /\ commits'[n] \in History
        /\ commits'[n] = Append(commits[n], x) /\ chan' \in Seq(Event)
    BY <2>1, <2>3, CommitFacts
  <2> QED BY <1>1, <1>3, <1>4, <2>4, <2>5, NetworkPreserves
<1>7. CASE UNCHANGED <<commits, chan>>
  <2>1. /\ commits' = [commits EXCEPT ![n] = commits'[n]] /\ commits'[n] = commits[n]
        /\ chan' \in Seq(Event)
    BY <1>1, <1>7 DEF TypeOK
  <2> QED BY <1>1, <1>3, <1>4, <1>5, <2>1, NetworkPreserves
<1> QED BY <1>2, <1>6, <1>7
-----------------------------------------------------------------------------
(* The engine, the timers, the stream, and the end of the machine.         *)

\* Two documents that differ in nothing an answer is compared with.
Alike(d, t) ==
  d \in TrackedDoc /\ t \in TrackedDoc /\ t.content = d.content /\ t.tracked = d.tracked
    /\ t.dirty = d.dirty /\ t.generation = d.generation

\* A document takes over the soundness of one it is alike to.
LEMMA AlikeSound ==
  ASSUME NEW cs, NEW ws, NEW d, NEW t, NEW e, NEW r, NEW l,
         SoundNote(cs, ws, d, e, r, l), Alike(d, t)
  PROVE  SoundNote(cs, ws, t, e, r, l)
<1>1. d # NoDoc /\ t # NoDoc
  BY SentinelAssumption DEF Alike
<1>2. /\ t.content = d.content /\ t.tracked = d.tracked /\ t.dirty = d.dirty
      /\ t.generation = d.generation
  BY DEF Alike
<1>3. SoundDoc(cs, t)
  BY <1>1, <1>2, Zenon DEF SoundNote, SoundDoc
<1>4. SoundRead(cs, t, r)
  BY <1>1, <1>2, Zenon DEF SoundNote, SoundRead
<1>5. SoundWrite(cs, t, r)
  BY <1>2, Zenon DEF SoundNote, SoundWrite
<1> QED BY <1>1, <1>3, <1>4, <1>5 DEF SoundNote, SoundLoose

\* A step that leaves the vault, the requests and the snapshots alone, and every
\* document alike to what it was.
LEMMA AlikePreserves ==
  ASSUME IInv, UNCHANGED <<vaultVars, run, store, loose, dropped>>,
         docs' \in [Notes -> Docs],
         \A n \in Notes : docs'[n] = docs[n] \/ Alike(docs[n], docs'[n]),
         conn' \in {"idle", "open", "down", "closed"}, chan' \in Seq(Event),
         live' \in BOOLEAN, drops' \in Nat, phase' \in {"running", "stopping", "stopped"},
         ops' \in [Notes -> Seq(OpKinds)], nextEdit' \in 0..MaxEdits, crashes' \in Nat
  PROVE  Descent'
<1>1. TypeOK'
  BY DEF IInv, Descent, TypeOK, vaultVars, Docs
<1>2. ASSUME NEW n \in Notes
      PROVE  SoundNote(commits[n], stray[n], docs[n], store[n], run[n], loose[n])'
  <2>1. SoundNote(commits[n], stray[n], docs[n], store[n], run[n], loose[n])
    BY DEF IInv, Descent, Lineage
  <2>2. SoundNote(commits[n], stray[n], docs'[n], store[n], run[n], loose[n])
    BY <2>1, AlikeSound
  <2> QED BY <2>2 DEF vaultVars
<1> QED BY <1>1, <1>2 DEF IInv, Descent, Lineage

\* load() or adopt() joins the chain.
LEMMA LoadPreserves ==
  ASSUME IInv, NEW n \in Notes, NEW op \in LoadKinds, Load(n, op)
  PROVE  Descent'
<1>1. op \in OpKinds
  BY KindsAssumption DEF OpKinds
<1>2. /\ ops' = [ops EXCEPT ![n] = Append(@, op)]
      /\ UNCHANGED <<vaultVars, streamVars, phase, docs, run, store, loose, countVars, dropped>>
  BY DEF Load, Enqueue
<1>3. ops' \in [Notes -> Seq(OpKinds)]
  <2>1. ops \in [Notes -> Seq(OpKinds)] /\ ops[n] \in Seq(OpKinds)
    BY DEF IInv, Descent, TypeOK
  <2>2. Append(ops[n], op) \in Seq(OpKinds)
    BY <1>1, <2>1
  <2> QED BY <1>2, <2>1, <2>2
<1>4. TypeOK /\ docs' \in [Notes -> Docs]
  BY <1>2 DEF IInv, Descent, TypeOK, Docs
<1> QED BY <1>2, <1>3, <1>4, AlikePreserves DEF TypeOK, streamVars, countVars

\* A timer, flush() or unload() queues a flush.
LEMMA QueueFlushPreserves ==
  ASSUME IInv, NEW n \in Notes, NEW op \in OpKinds, QueueFlush(n, op)
  PROVE  Descent'
<1> DEFINE t == [docs[n] EXCEPT !.timer = "none"]
<1>1. /\ ops' = [ops EXCEPT ![n] = Append(@, op)] /\ docs' = [docs EXCEPT ![n] = t]
      /\ docs[n] # NoDoc
      /\ UNCHANGED <<vaultVars, streamVars, phase, run, store, loose, countVars, dropped>>
  BY DEF QueueFlush, Enqueue, Tracked
<1>2. TypeOK /\ ops[n] \in Seq(OpKinds) /\ docs \in [Notes -> Docs] /\ docs[n] \in TrackedDoc
  BY <1>1, NoteFacts DEF TypeOK, Docs
<1>3. Alike(docs[n], t)
  BY <1>2 DEF Alike, TrackedDoc, Timers
<1> HIDE DEF t
<1>4. docs' \in [Notes -> Docs] /\ \A m \in Notes : docs'[m] = docs[m] \/ Alike(docs[m], docs'[m])
  BY <1>1, <1>2, <1>3 DEF Docs, Alike
<1>5. ops' \in [Notes -> Seq(OpKinds)]
  <2>1. Append(ops[n], op) \in Seq(OpKinds)
    BY <1>2
  <2> QED BY <1>1, <1>2, <2>1 DEF TypeOK
<1> QED BY <1>1, <1>2, <1>4, <1>5, AlikePreserves DEF TypeOK, streamVars, countVars

\* The stream starts, connects or drops.
LEMMA StreamPreserves ==
  ASSUME IInv, Start \/ Connect \/ Disconnect
  PROVE  Descent'
<1>1. /\ TypeOK /\ UNCHANGED <<vaultVars, machineVars, countVars, dropped>>
      /\ docs' \in [Notes -> Docs]
  BY DEF Start, Connect, Disconnect, machineVars, IInv, Descent, TypeOK, Docs
<1>0. chan \in Seq(Event) /\ live \in BOOLEAN /\ drops \in Nat
  BY DEF IInv, Descent, TypeOK
<1>2. /\ conn' \in {"idle", "open", "down", "closed"} /\ live' \in BOOLEAN /\ drops' \in Nat
  <2>1. CASE Start
    BY <1>0, <2>1 DEF Start
  <2>2. CASE Connect
    BY <1>0, <2>2 DEF Connect
  <2>3. CASE Disconnect
    <3>1. live' = FALSE
      BY <2>3, Zenon DEF Disconnect
    <3>2. drops' \in Nat
      BY <1>0, <2>3 DEF Disconnect
    <3>3. conn' \in {"down", "closed"}
      BY <2>3, Zenon DEF Disconnect
    <3> QED BY <3>1, <3>2, <3>3
  <2> QED BY <2>1, <2>2, <2>3
<1>3. chan' \in Seq(Event)
  <2>1. CASE Start \/ Disconnect
    <3>1. chan' = chan \/ chan' = <<>>
      BY <2>1 DEF Start, Disconnect
    <3>2. <<>> \in Seq(Event)
      OBVIOUS
    <3> QED BY <1>0, <3>1, <3>2
  <2>2. CASE Connect
    <3> DEFINE ev == [snapshot |-> TRUE, about |-> Notes,
                      vers |-> [n \in Notes |-> IF scope[n] = "tagged" THEN Version(n) ELSE 0]]
    <3>1. \A n \in Notes : Version(n) \in Nat
      BY NoteFacts DEF Version, History
    <3>2. ev \in Event
      BY <3>1 DEF Event
    <3>3. chan' = <<ev>>
      BY <2>2 DEF Connect
    <3> HIDE DEF ev
    <3> QED BY <3>2, <3>3
  <2> QED BY <2>1, <2>2
<1> QED BY <1>1, <1>2, <1>3, AlikePreserves DEF TypeOK, machineVars, countVars

\* An event is handled: hints are set and operations queued.
LEMMA DeliverPreserves ==
  ASSUME IInv, Deliver
  PROVE  Descent'
<1> DEFINE ev == Head(chan)
           seen  == {n \in ev.about : Tracked(n) /\ ev.vers[n] # 0}
           check == {n \in seen : ev.vers[n] # docs[n].tracked /\ ~docs[n].checkQueued}
           t(n)  == [docs[n] EXCEPT !.hint = ev.vers[n], !.checkQueued = @ \/ n \in check]
<1>1. /\ chan # <<>> /\ chan' = Tail(chan) /\ live' = (live \/ ev.snapshot)
      /\ docs' = [n \in Notes |-> IF n \in seen THEN t(n) ELSE docs[n]]
      /\ UNCHANGED <<vaultVars, conn, drops, phase, run, store, loose, countVars, dropped>>
  BY DEF Deliver
<1>2. TypeOK /\ chan \in Seq(Event) /\ ev \in Event
  <2>1. TypeOK /\ chan \in Seq(Event)
    BY DEF IInv, Descent, TypeOK
  <2>2. chan # <<>>
    BY DEF Deliver
  <2>3. Head(chan) \in Event
    BY <2>1, <2>2
  <2> QED BY <2>1, <2>3
<1>3. chan' \in Seq(Event) /\ live' \in BOOLEAN
  <2>1. chan' \in Seq(Event)
    <3>1. chan \in Seq(Event) /\ chan # <<>> /\ chan' = Tail(chan)
      BY <1>1, <1>2
    <3>2. Tail(chan) \in Seq(Event)
      BY <3>1
    <3> QED BY <3>1, <3>2
  <2>2. live' = (live \/ ev.snapshot)
    BY <1>1
  <2>3. live' \in BOOLEAN
    <3> DEFINE a == live
               b == ev.snapshot
    <3>1. a \in BOOLEAN /\ b \in BOOLEAN
      BY <1>2 DEF TypeOK, Event
    <3>2. live' = (a \/ b)
      BY <2>2
    <3> HIDE DEF a, b
    <3> QED BY <3>1, <3>2
  <2> QED BY <2>1, <2>3
<1>4. ops' \in [Notes -> Seq(OpKinds)]
  <2>1. ASSUME NEW n \in Notes
        PROVE  /\ ops[n] \in Seq(OpKinds) /\ Append(ops[n], "check") \in Seq(OpKinds)
               /\ Append(ops[n], "removed") \in Seq(OpKinds)
    BY NoteFacts DEF OpKinds
  <2>2. PICK A, B : ops' = [n \in Notes |-> CASE n \in A -> Append(ops[n], "check")
                                             [] n \in B -> Append(ops[n], "removed")
                                             [] OTHER   -> ops[n]]
    BY DEF Deliver
  <2> QED BY <2>1, <2>2
<1>5. ASSUME NEW n \in seen
      PROVE  n \in Notes /\ Alike(docs[n], t(n))
  <2>1. n \in Notes /\ docs[n] \in TrackedDoc /\ ev.vers[n] \in Nat
    BY <1>2 DEF Event, TypeOK, Tracked
  <2>2. (docs[n].checkQueued \/ n \in check) \in BOOLEAN
    OBVIOUS
  <2> QED BY <2>1, <2>2, Zenon DEF Alike, TrackedDoc
<1> HIDE DEF t, seen
<1>6. docs' \in [Notes -> Docs] /\ \A n \in Notes : docs'[n] = docs[n] \/ Alike(docs[n], docs'[n])
  BY <1>1, <1>2, <1>5 DEF Docs, Alike, TypeOK
<1> QED BY <1>1, <1>2, <1>3, <1>4, <1>6, AlikePreserves DEF TypeOK, countVars

\* stop() closes the stream and queues the last flushes.
LEMMA StopPreserves ==
  ASSUME IInv, Stop
  PROVE  Descent'
<1> DEFINE t(n) == [docs[n] EXCEPT !.timer = "none"]
<1>1. /\ phase' = "stopping" /\ conn' = "closed" /\ chan' = <<>> /\ live' = FALSE
      /\ docs' = [n \in Notes |-> IF Tracked(n) THEN t(n) ELSE docs[n]]
      /\ ops' = [n \in Notes |-> IF Tracked(n) THEN Append(ops[n], "sflush") ELSE ops[n]]
      /\ UNCHANGED <<vaultVars, drops, run, store, loose, countVars, dropped>>
  BY DEF Stop
<1>2. ASSUME NEW n \in Notes
      PROVE  ops[n] \in Seq(OpKinds) /\ Append(ops[n], "sflush") \in Seq(OpKinds)
  BY NoteFacts DEF OpKinds
<1>3. ops' \in [Notes -> Seq(OpKinds)]
  BY <1>1, <1>2
<1>4. ASSUME NEW n \in Notes, Tracked(n)
      PROVE  Alike(docs[n], t(n))
  <2>1. docs[n] \in TrackedDoc
    BY <1>4, NoteFacts DEF Tracked, Docs
  <2> QED BY <2>1 DEF Alike, TrackedDoc, Timers
<1>5. docs \in [Notes -> Docs] /\ drops \in Nat /\ nextEdit \in 0..MaxEdits /\ crashes \in Nat
  BY DEF IInv, Descent, TypeOK, Docs
<1> HIDE DEF t
<1>6. docs' \in [Notes -> Docs] /\ \A n \in Notes : docs'[n] = docs[n] \/ Alike(docs[n], docs'[n])
  BY <1>1, <1>4, <1>5 DEF Docs, Alike
<1>7. <<>> \in Seq(Event)
  OBVIOUS
<1>8. /\ conn' \in {"idle", "open", "down", "closed"} /\ chan' \in Seq(Event)
      /\ phase' \in {"running", "stopping", "stopped"} /\ live' \in BOOLEAN
  BY <1>1, <1>7
<1>9. drops' \in Nat /\ nextEdit' \in 0..MaxEdits /\ crashes' \in Nat
  BY <1>1, <1>5 DEF countVars
<1>10. UNCHANGED <<vaultVars, run, store, loose, dropped>>
  BY <1>1
<1> QED BY <1>3, <1>6, <1>8, <1>9, <1>10, AlikePreserves

\* A note whose document is gone and that has no operation under way is sound.
LEMMA DetachedSound ==
  ASSUME NEW cs, NEW ws, NEW d, NEW e, NEW r, NEW l, SoundNote(cs, ws, d, e, r, l), r = Idle
  PROVE  SoundNote(cs, ws, NoDoc, e, r, l)
BY IdleSound DEF SoundNote, SoundDoc, SoundLoose

\* stop() persists and drops what is tracked.
LEMMA StopReturnsPreserves ==
  ASSUME IInv, StopReturns
  PROVE  Descent'
<1> DEFINE t(n) == [docs[n] EXCEPT !.mapped = FALSE, !.timer = "none"]
<1>1. /\ phase' = "stopped"
      /\ docs' = [n \in Notes |-> IF docs[n] # NoDoc /\ run[n] # Idle THEN t(n) ELSE NoDoc]
      /\ UNCHANGED <<vaultVars, streamVars, ops, run, loose, countVars, dropped>>
  BY DEF StopReturns
<1>2. PICK failed : store' = [n \in Notes |->
                      IF Tracked(n) /\ n \notin failed THEN Snapshot(docs[n]) ELSE store[n]]
  BY DEF StopReturns
<1>3. ASSUME NEW n \in Notes
      PROVE  /\ docs'[n] \in Docs /\ store'[n] \in Entries
             /\ SoundNote(commits[n], stray[n], docs'[n], store'[n], run[n], loose[n])
  <2>1. /\ docs[n] \in Docs /\ store[n] \in Entries
        /\ SoundNote(commits[n], stray[n], docs[n], store[n], run[n], loose[n])
    BY NoteFacts
  <2>2. store'[n] = store[n] \/ (docs[n] # NoDoc /\ store'[n] = Snapshot(docs[n]))
    BY <1>2 DEF Tracked
  <2>3. store'[n] \in Entries /\ SoundEntry(commits[n], store'[n])
    BY <2>1, <2>2, SnapshotSound DEF Docs, Entries, SoundNote
  <2>4. SoundNote(commits[n], stray[n], docs[n], store'[n], run[n], loose[n])
    BY <2>1, <2>2, <2>3 DEF SoundNote, SoundLoose
  <2>5. CASE docs[n] # NoDoc /\ run[n] # Idle
    <3>1. docs[n] \in TrackedDoc /\ docs'[n] = t(n)
      BY <1>1, <2>1, <2>5 DEF Docs
    <3>2. Alike(docs[n], t(n))
      BY <3>1 DEF Alike, TrackedDoc, Timers
    <3> HIDE DEF t
    <3>3. docs'[n] \in Docs
      BY <3>1, <3>2 DEF Alike, Docs
    <3> QED BY <2>3, <2>4, <3>1, <3>2, <3>3, AlikeSound
  <2>6. CASE docs[n] = NoDoc \/ run[n] = Idle
    BY <1>1, <2>3, <2>4, <2>6, DetachedSound DEF Docs
  <2> QED BY <2>5, <2>6
<1>4. docs' \in [Notes -> Docs] /\ store' \in [Notes -> Entries]
  BY <1>1, <1>2, <1>3
<1>5. TypeOK'
  BY <1>1, <1>4 DEF IInv, Descent, TypeOK, vaultVars, streamVars, countVars, Docs, Entries
<1>6. Lineage'
  BY <1>1, <1>3 DEF Lineage, vaultVars
<1> QED BY <1>5, <1>6 DEF IInv, Descent

\* A local edit.
LEMMA LocalEditPreserves ==
  ASSUME IInv, NEW n \in Notes, LocalEdit(n)
  PROVE  Descent'
<1> DEFINE d == docs[n]
           e == nextEdit + 1
           c == [d.content EXCEPT !.edits = d.content.edits \cup {e}]
           t == Edited(d, e)
<1>1. /\ docs[n] # NoDoc /\ nextEdit < MaxEdits /\ nextEdit' = nextEdit + 1
      /\ docs' = [docs EXCEPT ![n] = t]
      /\ UNCHANGED <<vaultVars, streamVars, phase, ops, run, store, loose, crashes, dropped>>
  BY DEF LocalEdit, Tracked
<1>2. /\ TypeOK /\ d \in TrackedDoc /\ nextEdit \in 0..MaxEdits
      /\ SoundNote(commits[n], stray[n], d, store[n], run[n], loose[n]) /\ run[n] \in Running
  BY <1>1, NoteFacts DEF TypeOK, Docs
<1>3. e \in Edits /\ nextEdit' \in 0..MaxEdits
  BY <1>1, <1>2, BoundsAssumption DEF Edits
<1>4. d.content \in Content /\ d.generation \in Nat /\ "debounce" \in Timers
  BY <1>2 DEF TrackedDoc, Timers
<1>5. /\ c \in Content /\ c.ext = d.content.ext /\ c.torn = d.content.torn
      /\ d.content.edits \subseteq c.edits
  BY <1>3, <1>4 DEF Content
<1>6. docs' = [docs EXCEPT ![n] = t]
  BY <1>1
<1>7. /\ t \in TrackedDoc /\ t.content = c /\ t.tracked = d.tracked /\ t.dirty = TRUE
      /\ t.generation = d.generation + 1
  <2>1. d.generation + 1 \in Nat
    BY <1>4
  <2>2. t.content = c
    BY <1>2, Zenon DEF TrackedDoc, Edited
  <2>3. t.tracked = d.tracked /\ t.dirty = TRUE /\ t.generation = d.generation + 1
    BY <1>2, Zenon DEF TrackedDoc, Edited
  <2>4. t \in TrackedDoc
    BY <1>2, <1>4, <1>5, <2>1, Zenon DEF TrackedDoc, Edited
  <2> QED BY <2>2, <2>3, <2>4
<1> HIDE DEF c, t
<1>8. d # NoDoc /\ t # NoDoc
  BY <1>2, <1>7, SentinelAssumption
<1>9. SoundDoc(commits[n], t)
  <2>1. Sound(commits[n], d.content, d.tracked, d.dirty)
    BY <1>2, <1>8 DEF SoundNote, SoundDoc
  <2>2. Sound(commits[n], c, d.tracked, TRUE)
    BY <1>5, <2>1 DEF Sound, Extends
  <2> QED BY <1>7, <2>2, Zenon DEF SoundDoc
<1>10. SoundRead(commits[n], t, run[n])
  BY <1>2, <1>7, <1>8, Zenon DEF SoundNote, SoundRead
<1>11. SoundWrite(commits[n], t, run[n])
  <2> SUFFICES ASSUME run[n].at = "writing"
               PROVE  SoundWrite(commits[n], t, run[n])
    BY DEF SoundWrite
  <2>1. SoundWrite(commits[n], d, run[n]) /\ run[n].generation \in Nat
    BY <1>2 DEF SoundNote, Running
  <2>2. run[n].generation <= t.generation /\ t.generation # run[n].generation
    BY <1>4, <1>7, <2>1 DEF SoundWrite
  <2>3. Extends(d.content, run[n].body) /\ d.content.torn = run[n].body.torn
    BY <2>1 DEF SoundWrite
  <2>4. Extends(t.content, run[n].body) /\ t.content.torn = run[n].body.torn
    BY <1>5, <1>7, <2>3 DEF Extends
  <2> QED BY <1>7, <2>1, <2>2, <2>4, Zenon DEF SoundWrite
<1>12. SoundNote(commits[n], stray[n], t, store[n], run[n], loose[n])
  BY <1>2, <1>8, <1>9, <1>10, <1>11 DEF SoundNote, SoundLoose
<1>13. TypeOK'
  <2>1. docs' \in [Notes -> TrackedDoc \cup {NoDoc}]
    BY <1>2, <1>6, <1>7 DEF TypeOK
  <2>2. /\ nextEdit' \in 0..MaxEdits
        /\ UNCHANGED <<commits, scope, stray, conn, chan, live, drops, phase, ops, run, store,
                       loose, crashes, dropped>>
    BY <1>1, <1>3 DEF vaultVars, streamVars
  <2>3. TypeOK
    BY <1>2
  <2> QED BY <2>1, <2>2, <2>3 DEF TypeOK
<1>14. ASSUME NEW m \in Notes
       PROVE  SoundNote(commits[m], stray[m], docs'[m], store[m], run[m], loose[m])
  <2>1. docs'[m] = IF m = n THEN t ELSE docs[m]
    BY <1>2, <1>6 DEF TypeOK
  <2> QED BY <1>12, <2>1 DEF IInv, Descent, Lineage
<1>15. Lineage'
  BY <1>1, <1>14 DEF Lineage, vaultVars
<1> QED BY <1>13, <1>15 DEF IInv, Descent

\* The process dies; its write on the wire becomes a stray one.
LEMMA CrashPreserves ==
  ASSUME IInv, Crash
  PROVE  Descent'
<1> DEFINE w(n) == [ver |-> run[n].ver, body |-> run[n].body]
           sent(n) == run[n].at = "writing" /\ run[n].net = "sent"
<1>1. /\ phase' = "running" /\ conn' = "idle" /\ chan' = <<>> /\ live' = FALSE
      /\ docs' = [n \in Notes |-> NoDoc] /\ loose' = [n \in Notes |-> NoDoc]
      /\ ops' = [n \in Notes |-> <<>>] /\ run' = [n \in Notes |-> Idle]
      /\ stray' = [n \in Notes |-> IF sent(n) THEN stray[n] \cup {w(n)} ELSE stray[n]]
      /\ crashes' = crashes + 1 /\ UNCHANGED <<commits, scope, drops, store, nextEdit>>
  BY DEF Crash
<1>2. dropped' \in [Edits -> Reasons]
  BY DEF Crash, Drop, IInv, Descent, TypeOK, Reasons
<1>3. ASSUME NEW n \in Notes
      PROVE  /\ stray'[n] \subseteq Stray
             /\ SoundNote(commits[n], stray'[n], NoDoc, store[n], Idle, NoDoc)
  <2>1. /\ stray[n] \subseteq Stray /\ run[n] \in Running
        /\ SoundNote(commits[n], stray[n], docs[n], store[n], run[n], loose[n])
    BY NoteFacts DEF TypeOK
  <2>2. sent(n) => w(n) \in Stray /\ SoundStray(commits[n], w(n))
    BY <2>1 DEF SoundNote, SoundWrite, SoundStray, Stray, Running
  <2> HIDE DEF w, sent
  <2>3. stray'[n] \subseteq Stray /\ \A s \in stray'[n] : SoundStray(commits[n], s)
    BY <1>1, <2>1, <2>2 DEF SoundNote
  <2> QED BY <2>1, <2>3, IdleSound DEF SoundNote, SoundDoc, SoundLoose
<1>4. Lineage'
  BY <1>1, <1>3 DEF Lineage
<1>5. stray' \in [Notes -> SUBSET Stray]
  BY <1>1, <1>3
<1>6. <<>> \in Seq(Event) /\ <<>> \in Seq(OpKinds) /\ crashes' \in Nat
  BY <1>1 DEF IInv, Descent, TypeOK
<1> HIDE DEF w, sent
<1>7. TypeOK'
  BY <1>1, <1>2, <1>5, <1>6, IdleSound DEF IInv, Descent, TypeOK
<1> QED BY <1>4, <1>7 DEF IInv, Descent
\* The invariant holds before the first event.
LEMMA InitDescent == Init => Descent
<1> SUFFICES ASSUME Init
             PROVE  Descent
  OBVIOUS
<1> DEFINE x == [ext |-> 1, edits |-> {}, torn |-> FALSE]
<1>1. /\ x \in Content /\ ~x.torn /\ <<x>> \in Seq(Content) /\ Len(<<x>>) = 1 /\ <<x>>[1] = x
      /\ <<x>> # <<>>
  BY DEF Content
<1>2. SoundCommits(<<x>>)
  BY <1>1 DEF SoundCommits
<1>3. SoundNote(<<x>>, {}, NoDoc, NoEntry, Idle, NoDoc)
  BY <1>2, IdleSound DEF SoundNote, SoundDoc, SoundEntry, SoundLoose
<1>4. commits = [n \in Notes |-> <<x>>]
  BY DEF Init
<1> HIDE DEF x
<1>5. Lineage
  BY <1>3, <1>4 DEF Init, Lineage
<1>6. <<>> \in Seq(Event) /\ <<>> \in Seq(OpKinds) /\ 0 \in 0..MaxEdits
  BY BoundsAssumption
<1>7. TypeOK
  BY <1>1, <1>4, <1>6, IdleSound DEF Init, TypeOK, ScopeKinds, Reasons
<1> QED BY <1>5, <1>7 DEF Descent

-----------------------------------------------------------------------------
(* Where no note can leave the working set, the machine never hears of one *)
(* that has.                                                               *)

\* The operation of n parks on a new request, or is over.
Sends(n, op) ==
  \E r : run' = [run EXCEPT ![n] = r] /\ (r = Idle \/ (r.net = "sent" /\ r.op = op))

\* Every way a stretch can end is one of the two.
LEMMA EndsSend ==
  ASSUME NEW n, NEW op, NEW d, NEW e, NEW at, NEW x, NEW v, NEW b,
         \/ Settle(n, op, d, e) \/ Await(n, op, at, d, e, x) \/ Register(n, op, x, v, b)
  PROVE  Sends(n, op)
<1>1. CASE Settle(n, op, d, e)
  BY <1>1 DEF Settle, Sends
<1>2. CASE Await(n, op, at, d, e, x)
  <2> DEFINE r == [op |-> op, at |-> at, net |-> "sent", loose |-> x,
                   ver        |-> IF at = "writing" THEN d.tracked ELSE 0,
                   generation |-> IF at = "writing" THEN d.generation ELSE 0,
                   body       |-> IF at = "writing" THEN d.content ELSE Blank]
  <2>1. run' = [run EXCEPT ![n] = r] /\ r.net = "sent" /\ r.op = op
    BY <1>2 DEF Await
  <2> HIDE DEF r
  <2> QED BY <2>1 DEF Sends
<1>3. CASE Register(n, op, x, v, b)
  BY <1>3 DEF Register, Sends
<1> QED BY <1>1, <1>2, <1>3

\* So does a removal, a re-seed, a deferral, and the way to the updateNote.
LEMMA PartsSend ==
  ASSUME NEW n, NEW op, NEW d, NEW e, NEW v,
         \/ Remove(n, op) \/ Reseed(n, op, d, v) \/ Retry(n, op, d) \/ Serialize(n, op, d, e)
  PROVE  Sends(n, op)
<1>1. CASE Remove(n, op)
  <2>1. run' = [run EXCEPT ![n] = Idle] \/ Settle(n, op, docs[n], store[n])
    BY <1>1 DEF Remove
  <2> QED BY <2>1, EndsSend DEF Sends
<1>2. CASE Reseed(n, op, d, v)
  <2>1. \E t, f : Settle(n, op, t, f)
    BY <1>2 DEF Reseed
  <2> QED BY <2>1, EndsSend
<1>3. CASE Retry(n, op, d)
  <2>1. \E t, f : Settle(n, op, t, f)
    BY <1>3 DEF Retry
  <2> QED BY <2>1, EndsSend
<1>4. CASE Serialize(n, op, d, e)
  BY <1>4, EndsSend DEF Serialize
<1> QED BY <1>1, <1>2, <1>3, <1>4

\* The first stretch of the operation at the head of the chain.
LEMMA BeginSends ==
  ASSUME NEW n, Begin(n), Head(ops[n]) \in OpKinds
  PROVE  Sends(n, Head(ops[n]))
<1> DEFINE op == Head(ops[n])
<1> HIDE DEF op
<1>1. \/ BeginLoad(n, op) \/ BeginFlush(n, op) \/ BeginCheck(n, op) \/ Remove(n, op)
  <2>1. CASE op \in {"load", "adopt"}
    BY <2>1 DEF Begin, op
  <2>2. CASE op \in {"flush", "uflush", "sflush"}
    BY <2>2 DEF Begin, op
  <2>3. CASE op = "check"
    BY <2>3 DEF Begin, op
  <2>4. CASE op = "removed"
    BY <2>4 DEF Begin, op
  <2> QED BY <2>1, <2>2, <2>3, <2>4 DEF OpKinds, op
<1>2. CASE BeginLoad(n, op)
  <2>1. \E d, e, at, x, v, b :
          Settle(n, op, d, e) \/ Await(n, op, at, d, e, x) \/ Register(n, op, x, v, b)
    BY <1>2 DEF BeginLoad
  <2> QED BY <2>1, EndsSend DEF op
<1>3. CASE BeginFlush(n, op)
  <2>1. \E d, e, at, x :
          Settle(n, op, d, e) \/ Await(n, op, at, d, e, x) \/ Serialize(n, op, d, e)
    BY <1>3 DEF BeginFlush
  <2> QED BY <2>1, EndsSend, PartsSend DEF op
<1>4. CASE BeginCheck(n, op)
  <2>1. \E d, e, at, x : Settle(n, op, d, e) \/ Await(n, op, at, d, e, x)
    BY <1>4 DEF BeginCheck
  <2> QED BY <2>1, EndsSend DEF op
<1>5. CASE Remove(n, op)
  BY <1>5, PartsSend DEF op
<1> QED BY <1>1, <1>2, <1>3, <1>4, <1>5

\* And the stretch after an answer.
LEMMA ReplySends ==
  ASSUME NEW n, Reply(n)
  PROVE  Sends(n, run[n].op)
<1> DEFINE op == run[n].op
<1>1. \/ \E d, e, at, x, v, b :
           Settle(n, op, d, e) \/ Await(n, op, at, d, e, x) \/ Register(n, op, x, v, b)
      \/ \E d, e, v :
           Remove(n, op) \/ Reseed(n, op, d, v) \/ Retry(n, op, d) \/ Serialize(n, op, d, e)
  <2>1. CASE LoadReply(n)
    BY <2>1 DEF LoadReply
  <2>2. CASE CheckReply(n)
    BY <2>2 DEF CheckReply
  <2>3. CASE RevalidateReply(n)
    BY <2>3 DEF RevalidateReply
  <2>4. CASE WriteReply(n)
    BY <2>4 DEF WriteReply
  <2>5. CASE WinnerReply(n)
    BY <2>5 DEF WinnerReply
  <2> QED BY <2>1, <2>2, <2>3, <2>4, <2>5 DEF Reply
<1> HIDE DEF op
<1> QED BY <1>1, EndsSend, PartsSend DEF op

\* The note's writers are told its new version.
LEMMA EmitTold ==
  ASSUME TypeOK, Told, NEW n \in Notes, NEW STATE ver, ver # 0, Emit(n, ver) \/ chan' = chan
  PROVE  Told'
<1>1. CASE chan' = chan
  BY <1>1 DEF Told
<1>2. CASE Emit(n, ver) /\ chan' # chan
  <2> DEFINE ev == [snapshot |-> FALSE, about |-> {n},
                    vers |-> [m \in Notes |-> IF m = n THEN ver ELSE 0]]
  <2>1. chan' = Append(chan, ev) /\ chan \in Seq(Event)
    BY <1>2 DEF Emit, TypeOK
  <2>2. ev.about = {n} /\ ev.vers[n] = ver
    OBVIOUS
  <2> HIDE DEF ev
  <2>3. ASSUME NEW i \in 1..Len(chan')
        PROVE  chan'[i] = ev \/ (i \in 1..Len(chan) /\ chan'[i] = chan[i])
    BY <2>1
  <2> QED BY <2>2, <2>3 DEF Told
<1> QED BY <1>1, <1>2

\* No note is out of the working set, nor taken to be.
AllStay == Told /\ \A n \in Notes : Stays(n)

\* A stretch of an operation puts nothing of the kind on a chain or the wire.
LEMMA StretchStays ==
  ASSUME TypeOK, AllStay, NEW n \in Notes, Begin(n) \/ Reply(n)
  PROVE  AllStay'
<1>1. PICK op : op # "removed" /\ Sends(n, op)
  <2>1. CASE Begin(n)
    <3>1. ops[n] \in Seq(OpKinds) /\ ops[n] # <<>>
      BY <2>1 DEF Begin, TypeOK
    <3>2. 1 \in DOMAIN ops[n] /\ Head(ops[n]) = ops[n][1]
      BY <3>1
    <3>3. Head(ops[n]) # "removed" /\ Head(ops[n]) \in OpKinds
      BY <3>1, <3>2 DEF AllStay, Stays
    <3> QED BY <2>1, <3>3, BeginSends
  <2>2. CASE Reply(n)
    BY <2>2, ReplySends DEF AllStay, Stays
  <2> QED BY <2>1, <2>2
<1>2. UNCHANGED <<vaultVars, streamVars>> /\ (ops' = ops \/ ops' = [ops EXCEPT ![n] = Tail(@)])
  BY DEF Begin, Reply, LoadReply, CheckReply, RevalidateReply, WriteReply, WinnerReply, Elsewhere
<1>3. ASSUME NEW m \in Notes
      PROVE  Stays(m)'
  <2>1. run'[m] = run[m] \/ run'[m] = Idle \/ (run'[m].net = "sent" /\ run'[m].op = op)
    BY <1>1 DEF Sends, TypeOK
  <2>2. run'[m].net # "missing" /\ run'[m].op # "removed"
    BY <1>1, <2>1 DEF AllStay, Stays, Idle
  <2>3. ops[m] \in Seq(OpKinds) /\ (ops'[m] = ops[m] \/ (ops'[m] = Tail(ops[m]) /\ ops[m] # <<>>))
    <3>1. ops' # ops => ops[n] # <<>>
      BY DEF Begin, Reply, LoadReply, CheckReply, RevalidateReply, WriteReply, WinnerReply,
             Elsewhere
    <3> QED BY <1>2, <3>1 DEF TypeOK
  <2>4. \A i \in DOMAIN ops'[m] : ops'[m][i] # "removed"
    <3>1. CASE ops'[m] = ops[m]
      BY <3>1 DEF AllStay, Stays
    <3>2. CASE ops'[m] = Tail(ops[m]) /\ ops[m] # <<>>
      <4>1. ASSUME NEW i \in DOMAIN ops'[m]
            PROVE  i + 1 \in DOMAIN ops[m] /\ ops'[m][i] = ops[m][i + 1]
        BY <2>3, <3>2
      <4> QED BY <4>1 DEF AllStay, Stays
    <3> QED BY <2>3, <3>1, <3>2
  <2>5. scope'[m] = "tagged"
    BY <1>2 DEF vaultVars, AllStay, Stays
  <2> QED BY <2>2, <2>4, <2>5 DEF Stays
<1>4. Told'
  BY <1>2 DEF AllStay, Told, streamVars
<1> QED BY <1>3, <1>4 DEF AllStay

\* The vault and its other writers.
LEMMA NetworkStays ==
  ASSUME TypeOK, AllStay, NEW n \in Notes,
         ExternalEdit(n) \/ ServeGet(n) \/ ServePut(n) \/ LoseRequest(n) \/ LandStray(n)
  PROVE  AllStay'
<1>1. Version(n) \in Nat \ {0} /\ scope[n] = "tagged"
  BY DEF TypeOK, Version, AllStay, Stays
<1>2. scope' = scope /\ ops' = ops
  BY DEF ExternalEdit, ServeGet, ServePut, LoseRequest, LandStray, Untouched, machineVars
<1>3. run' = run \/ \E net, ver : net # "missing" /\ Answer(n, net, ver)
  <2>1. CASE ServeGet(n)
    <3>1. Answer(n, "note", Version(n))
      BY <1>1, <2>1 DEF ServeGet
    <3>2. "note" # "missing"
      OBVIOUS
    <3> QED BY <3>1, <3>2
  <2>2. CASE ServePut(n)
    <3>1. \/ Answer(n, "note", Version(n) + 1) \/ Answer(n, "conflict", 0)
          \/ Answer(n, "error", 0)
      BY <2>2 DEF ServePut
    <3>2. "note" # "missing" /\ "conflict" # "missing" /\ "error" # "missing"
      OBVIOUS
    <3> QED BY <3>1, <3>2
  <2>3. CASE LoseRequest(n)
    <3>1. Answer(n, "error", 0) /\ "error" # "missing"
      BY <2>3 DEF LoseRequest
    <3> QED BY <3>1
  <2>4. CASE ExternalEdit(n) \/ LandStray(n)
    BY <2>4 DEF ExternalEdit, LandStray, machineVars
  <2> QED BY <2>1, <2>2, <2>3, <2>4
<1>4. ASSUME NEW m \in Notes
      PROVE  Stays(m)'
  <2>1. run'[m].op = run[m].op /\ (run'[m].net = run[m].net \/ run'[m].net # "missing")
    <3>1. run[m] \in Running /\ run \in [Notes -> Running]
      BY DEF TypeOK
    <3>2. CASE run' = run
      BY <3>2
    <3>3. CASE \E net, ver : net # "missing" /\ Answer(n, net, ver)
      <4>1. PICK net, ver : net # "missing" /\ Answer(n, net, ver)
        BY <3>3
      <4>2. run' = [run EXCEPT ![n] = [run[n] EXCEPT !.net = net, !.ver = ver]]
        BY <4>1 DEF Answer
      <4>3. CASE m = n
        BY <3>1, <4>1, <4>2, <4>3 DEF Running
      <4>4. CASE m # n
        BY <3>1, <4>2, <4>4
      <4> QED BY <4>3, <4>4
    <3> QED BY <1>3, <3>2, <3>3
  <2> QED BY <1>2, <2>1 DEF AllStay, Stays
<1>5. Told'
  <2> DEFINE ver == Version(n) + 1
  <2>1. ver # 0
    BY <1>1
  <2>2. Emit(n, ver) \/ chan' = chan
    BY <1>1 DEF ExternalEdit, ServeGet, ServePut, LoseRequest, LandStray, Commit
  <2> HIDE DEF ver
  <2> QED BY <2>1, <2>2, EmitTold DEF AllStay
<1> QED BY <1>4, <1>5 DEF AllStay

\* Operations that join a chain.
LEMMA ChainStays ==
  ASSUME TypeOK, AllStay, UNCHANGED <<scope, run>>, Told',
         \A m \in Notes : ops'[m] = ops[m] \/
           \E op \in OpKinds \ {"removed"} : ops'[m] = Append(ops[m], op)
  PROVE  AllStay'
<1>1. ASSUME NEW m \in Notes
      PROVE  Stays(m)'
  <2>1. CASE ops'[m] = ops[m]
    BY <2>1 DEF AllStay, Stays
  <2>2. ASSUME NEW op \in OpKinds \ {"removed"}, ops'[m] = Append(ops[m], op)
        PROVE  Stays(m)'
    <3>1. ops[m] \in Seq(OpKinds)
      BY DEF TypeOK
    <3>2. \A i \in DOMAIN ops'[m] : ops'[m][i] = op \/ (i \in DOMAIN ops[m] /\ ops'[m][i] = ops[m][i])
      BY <2>2, <3>1
    <3> QED BY <3>2 DEF AllStay, Stays
  <2> QED BY <2>1, <2>2
<1> QED BY <1>1 DEF AllStay

\* The engine, the clients, the timers, the stream, and the end of the machine.
LEMMA OthersStay ==
  ASSUME TypeOK, AllStay,
         \/ \E n \in Notes :
              \/ \E op \in LoadKinds : Load(n, op)
              \/ LocalEdit(n) \/ TimerFires(n) \/ Flush(n) \/ Unload(n)
         \/ Start \/ Connect \/ Disconnect \/ Deliver
         \/ Stop \/ StopReturns \/ Crash
  PROVE  AllStay'
<1>0. Told /\ chan \in Seq(Event) /\ ops \in [Notes -> Seq(OpKinds)]
  BY DEF AllStay, TypeOK
<1>1. ASSUME NEW n \in Notes, NEW op \in OpKinds \ {"removed"}, Enqueue(n, op),
             UNCHANGED <<vaultVars, streamVars, run>>
      PROVE  AllStay'
  <2>1. \A m \in Notes : ops'[m] = ops[m] \/ ops'[m] = Append(ops[m], op)
    BY <1>0, <1>1 DEF Enqueue
  <2>2. Told' /\ UNCHANGED <<scope, run>>
    BY <1>0, <1>1 DEF Told, vaultVars, streamVars
  <2> QED BY <2>1, <2>2, ChainStays
<1>2. ASSUME NEW n \in Notes, NEW op \in LoadKinds, Load(n, op)
      PROVE  AllStay'
  <2>1. op \in OpKinds \ {"removed"}
    BY KindsAssumption DEF OpKinds
  <2> QED BY <1>1, <1>2, <2>1 DEF Load
<1>3. ASSUME NEW n \in Notes, TimerFires(n) \/ Flush(n) \/ Unload(n)
      PROVE  AllStay'
  <2>1. PICK op \in {"flush", "uflush"} : QueueFlush(n, op)
    BY <1>3 DEF TimerFires, Flush, Unload
  <2>2. op \in OpKinds \ {"removed"}
    BY DEF OpKinds
  <2> QED BY <1>1, <2>1, <2>2 DEF QueueFlush
<1>4. CASE (\E n \in Notes : LocalEdit(n)) \/ Start \/ StopReturns
  <2>1. UNCHANGED <<scope, run, ops, chan>>
    BY <1>4 DEF LocalEdit, Start, StopReturns, vaultVars, streamVars, machineVars
  <2> QED BY <1>0, <2>1, ChainStays DEF Told
<1>5. CASE Disconnect
  <2>1. UNCHANGED <<scope, run, ops>> /\ chan' = <<>>
    BY <1>5 DEF Disconnect, vaultVars, machineVars
  <2> QED BY <2>1, ChainStays DEF Told
<1>6. CASE Connect
  <2> DEFINE ev == [snapshot |-> TRUE, about |-> Notes,
                    vers |-> [n \in Notes |-> IF scope[n] = "tagged" THEN Version(n) ELSE 0]]
  <2>1. UNCHANGED <<scope, run, ops>> /\ chan' = <<ev>>
    BY <1>6 DEF Connect, vaultVars, machineVars
  <2>2. \A n \in ev.about : ev.vers[n] # 0
    BY DEF TypeOK, Version, AllStay, Stays
  <2> HIDE DEF ev
  <2> QED BY <2>1, <2>2, ChainStays DEF Told
<1>7. CASE Deliver
  <2> DEFINE ev == Head(chan)
             seen  == {n \in ev.about : Tracked(n) /\ ev.vers[n] # 0}
             check == {n \in seen : ev.vers[n] # docs[n].tracked /\ ~docs[n].checkQueued}
             gone  == {n \in ev.about : Tracked(n) /\ ev.vers[n] = 0}
  <2>1. /\ chan # <<>> /\ chan' = Tail(chan) /\ UNCHANGED <<scope, run>>
        /\ ops' = [n \in Notes |-> CASE n \in check -> Append(ops[n], "check")
                                     [] n \in gone  -> Append(ops[n], "removed")
                                     [] OTHER       -> ops[n]]
    BY <1>7 DEF Deliver, vaultVars
  <2>2. 1 \in 1..Len(chan) /\ ev = chan[1]
    BY <1>0, <2>1
  <2>3. gone = {}
    BY <1>0, <2>2 DEF Told
  <2> HIDE DEF gone, check
  <2>4. \A m \in Notes : ops'[m] = ops[m] \/ ops'[m] = Append(ops[m], "check")
    BY <2>1, <2>3
  <2>5. "check" \in OpKinds \ {"removed"}
    BY DEF OpKinds
  <2>6. \A i \in 1..Len(chan') : i + 1 \in 1..Len(chan) /\ chan'[i] = chan[i + 1]
    BY <1>0, <2>1
  <2>7. Told'
    BY <1>0, <2>6 DEF Told
  <2> QED BY <2>1, <2>4, <2>5, <2>7, ChainStays
<1>8. CASE Stop
  <2>1. /\ UNCHANGED <<scope, run>> /\ chan' = <<>>
        /\ ops' = [n \in Notes |-> IF Tracked(n) THEN Append(ops[n], "sflush") ELSE ops[n]]
    BY <1>8 DEF Stop, vaultVars
  <2>2. "sflush" \in OpKinds \ {"removed"}
    BY DEF OpKinds
  <2> QED BY <2>1, <2>2, ChainStays DEF Told
<1>9. CASE Crash
  <2>1. /\ scope' = scope /\ chan' = <<>> /\ ops' = [n \in Notes |-> <<>>]
        /\ run' = [n \in Notes |-> Idle]
    BY <1>9 DEF Crash
  <2> QED BY <2>1 DEF AllStay, Stays, Told, Idle
<1> QED BY <1>2, <1>3, <1>4, <1>5, <1>6, <1>7, <1>8, <1>9

\* Every step leaves it so.
LEMMA PresentKept ==
  ASSUME TypeOK, Present, [Next]_vars
  PROVE  Present'
<1> SUFFICES ASSUME Scopes = {"tagged"}
             PROVE  AllStay'
  BY DEF Present, AllStay
<1>1. AllStay
  BY DEF Present, AllStay
<1>2. CASE UNCHANGED vars
  BY <1>1, <1>2 DEF AllStay, Told, Stays, vars, vaultVars, streamVars, machineVars
<1>3. ASSUME NEW n \in Notes, Rescope(n)
      PROVE  FALSE
  BY <1>1, <1>3 DEF Rescope, AllStay, Stays
<1> QED BY <1>1, <1>2, <1>3, StretchStays, NetworkStays, OthersStay DEF Next

\* And it is so before the first event.
LEMMA InitPresent == Init => Present
BY DEF Init, Present, Told, Stays, Idle

-----------------------------------------------------------------------------
(* The invariant, and what it gives.                                       *)

\* The invariant holds before the first event.
LEMMA InitInv == Init => IInv
BY InitDescent, InitPresent DEF IInv

\* Every step preserves it.
LEMMA NextInv == IInv /\ [Next]_vars => IInv'
<1> SUFFICES ASSUME IInv, [Next]_vars
             PROVE  Descent'
  BY PresentKept DEF IInv, Descent
<1>1. CASE UNCHANGED vars
  BY <1>1 DEF IInv, Descent, TypeOK, Lineage, vars, vaultVars, streamVars, machineVars, countVars
<1>2. ASSUME NEW n \in Notes, ExternalEdit(n) \/ Rescope(n)
      PROVE  Descent'
  BY <1>2, ExternalEditPreserves, RescopePreserves
<1>3. ASSUME NEW n \in Notes, ServeGet(n) \/ ServePut(n) \/ LoseRequest(n) \/ LandStray(n)
      PROVE  Descent'
  BY <1>3, ServeGetPreserves, ServePutPreserves, LoseRequestPreserves, LandStrayPreserves
<1>4. ASSUME NEW n \in Notes, Begin(n) \/ Reply(n)
      PROVE  Descent'
  BY <1>4, BeginPreserves, ReplyStepPreserves
<1>5. ASSUME NEW n \in Notes, NEW op \in LoadKinds, Load(n, op)
      PROVE  Descent'
  BY <1>5, LoadPreserves
<1>6. ASSUME NEW n \in Notes, TimerFires(n) \/ Flush(n) \/ Unload(n)
      PROVE  Descent'
  <2>1. PICK op \in {"flush", "uflush"} : QueueFlush(n, op)
    BY <1>6 DEF TimerFires, Flush, Unload
  <2>2. op \in OpKinds
    BY <2>1 DEF OpKinds
  <2> QED BY <2>1, <2>2, QueueFlushPreserves
<1>7. ASSUME NEW n \in Notes, LocalEdit(n)
      PROVE  Descent'
  BY <1>7, LocalEditPreserves
<1>8. CASE Start \/ Connect \/ Disconnect \/ Deliver
  BY <1>8, StreamPreserves, DeliverPreserves
<1>9. CASE Stop \/ StopReturns \/ Crash
  BY <1>9, StopPreserves, StopReturnsPreserves, CrashPreserves
<1> QED BY <1>1, <1>2, <1>3, <1>4, <1>5, <1>6, <1>7, <1>8, <1>9 DEF Next

\* TypeOK and Lineage hold for ever: every document, snapshot and write on the
\* wire descends from the version it claims as its baseline.
THEOREM Invariance == Spec => []IInv
<1>1. Init => IInv
  BY InitInv
<1>2. IInv /\ [Next]_vars => IInv'
  BY NextInv
<1> QED BY <1>1, <1>2, PTL DEF Spec

\* Every variable of the machine keeps its type, and every baseline is a version
\* the vault has had.
THEOREM TypeCorrect == Spec => []TypeOK
<1>1. IInv => TypeOK
  BY DEF IInv, Descent
<1> QED BY <1>1, Invariance, PTL

\* The lineage of every copy of a note, as the runs check it.
THEOREM LineageHolds == Spec => []Lineage
<1>1. IInv => Lineage
  BY DEF IInv, Descent
<1> QED BY <1>1, Invariance, PTL

\* With documents of its own, and with documents it adopts as long as no note leaves
\* the working set and the store works, the machine never overwrites an external edit
\* nor an edit the vault already has, whatever fails, in whatever order, with any
\* number of notes.
THEOREM NeverBlind ==
  ASSUME Traceable
  PROVE  Spec => []NoBlindOverwrite
<1>1. IInv => NoBlindOverwrite
  <2> SUFFICES ASSUME IInv, NEW n \in Notes, NEW v \in 2..Version(n), commits[n][v].ext # v
               PROVE  Extends(commits[n][v], commits[n][v - 1]) /\ ~commits[n][v].torn
    BY DEF NoBlindOverwrite
  <2>1. SoundCommits(commits[n]) /\ v \in 2..Len(commits[n]) /\ Len(commits[n]) \in Nat
    BY NoteFacts DEF SoundNote, Version, History
  <2>2. v \in 1..Len(commits[n])
    BY <2>1
  <2> QED BY <2>1, <2>2 DEF SoundCommits
<1> QED BY <1>1, Invariance, PTL

\* And what is not dirty, in memory or in the state store, is what the vault has.
THEOREM CleanIsWritten ==
  ASSUME Traceable
  PROVE  Spec => []CleanMeansWritten
<1>1. IInv => CleanMeansWritten
  <2> SUFFICES ASSUME IInv, NEW n \in Notes
               PROVE  /\ Tracked(n) /\ ~docs[n].dirty /\ ~docs[n].content.torn =>
                           docs[n].content = commits[n][docs[n].tracked]
                      /\ store[n] # NoEntry /\ ~store[n].dirty /\ ~store[n].blob.torn =>
                           store[n].blob = commits[n][store[n].sourceVersion]
    BY DEF CleanMeansWritten
  <2>1. SoundDoc(commits[n], docs[n]) /\ SoundEntry(commits[n], store[n])
    BY NoteFacts DEF SoundNote
  <2> QED BY <2>1 DEF SoundDoc, SoundEntry, Sound, Tracked
<1> QED BY <1>1, Invariance, PTL

-----------------------------------------------------------------------------
(* Where the cells of a note can be, whatever fails.                       *)

\* The requests of a writeback are a writeback's, a check's are not; a load begins on an empty
\* slot; a document that stop() took out of #docs is in the hands of an operation;
\* an acknowledgement is of a later version than the baseline; the engine has no
\* document of its own beside the tracked one.
Placed(n) ==
  /\ run[n].at = "idle" => run[n] = Idle
  /\ run[n].at \in {"revalidating", "writing", "winner"} => run[n].op \in FlushOps
  /\ run[n].at = "checking" => run[n].op \notin FlushOps
  /\ run[n].at = "loading" =>
       run[n].op \in {"load", "adopt"} /\ docs[n] = NoDoc /\ store[n] = NoEntry
  /\ docs[n] # NoDoc /\ ~docs[n].mapped => run[n] # Idle
  /\ run[n].at = "writing" /\ run[n].net = "note" => docs[n].tracked < run[n].ver
  /\ loose[n] # NoDoc => docs[n] = NoDoc

Places == \A n \in Notes : Placed(n)

\* With a store that does not fail: what is in the snapshot is in the document that
\* will replace it, and what stop() has let go of is in the snapshot.
Backed(n) ==
  /\ docs[n] # NoDoc => InStore(n) \subseteq InDoc(n) \cup InVault(n)
  /\ docs[n] # NoDoc /\ ~docs[n].mapped => InDoc(n) \subseteq InStore(n) \cup InVault(n)
  /\ loose[n] # NoDoc => InStore(n) \subseteq loose[n].edits

Backups == \A n \in Notes : Backed(n)

\* With hooks that do not throw, besides: a clean document is its snapshot.
Snapped(n) == store[n] # NoEntry /\ store[n].blob = docs[n].content

CleanAreStored == \A n \in Notes : Tracked(n) /\ ~docs[n].dirty => Snapped(n)

-----------------------------------------------------------------------------
(* How a stretch of an operation ends: the cases the three invariants above *)
(* are proved by.                                                           *)

\* The document of n, but for its timer, which is not cleared, and the stream's bits.
Keeps(n, d) ==
  \/ d = NoDoc /\ docs[n] = NoDoc
  \/ /\ Alike(docs[n], d) /\ d.mapped = docs[n].mapped
     /\ d.timer = "none" => docs[n].timer = "none"

\* The snapshot of n as it was, or taken anew.
Copies(n, e) == e = store[n] \/ (docs[n] # NoDoc /\ e = Snapshot(docs[n]))

\* The operation ends on the document as it was; a writeback that failed is armed again.
Quiet(n, op) ==
  \E d \in Docs, e \in Entries :
    /\ Settle(n, op, d, e) /\ Keeps(n, d) /\ Copies(n, e) /\ UNCHANGED dropped
    /\ op \in FlushOps /\ d # NoDoc /\ d.mapped /\ d.dirty => d.timer # "none" \/ Fault("hook")

\* It ends on an acknowledged document.
Written(n, op) ==
  \E d \in TrackedDoc, e \in Entries :
    /\ Settle(n, op, d, e) /\ docs[n] # NoDoc /\ UNCHANGED dropped
    /\ d.content = docs[n].content /\ d.mapped = docs[n].mapped
    /\ docs[n].tracked <= d.tracked /\ e \in Persisted(store[n], d)
    /\ d.dirty /\ d.mapped => d.timer # "none"
    /\ run[n].at = "writing" /\ run[n].net = "note" /\ d.tracked = run[n].ver
    /\ ~d.dirty => d.content = commits[n][d.tracked]

\* It ends on a re-seeded document.
Reseeded(n, op) ==
  \E d \in TrackedDoc, e \in Entries, v \in 1..Version(n), why \in {"own", "external"} :
    /\ Settle(n, op, d, e) /\ docs[n] # NoDoc /\ docs[n].tracked < v
    /\ d.content = commits[n][v] /\ d.tracked = v /\ ~d.dirty /\ d.mapped = docs[n].mapped
    /\ e \in Persisted(store[n], d)
    /\ Drop(docs[n].content.edits \ d.content.edits, why)

\* Or on one whose re-seed broke off.
Torn(n, op) ==
  \E d \in TrackedDoc :
    /\ Settle(n, op, d, store[n]) /\ Fault("hook") /\ docs[n] # NoDoc /\ UNCHANGED dropped
    /\ d.content.edits = docs[n].content.edits /\ d.tracked = docs[n].tracked
    /\ d.mapped = docs[n].mapped /\ d.dirty = docs[n].dirty

\* It sends a request; a writeback that has just begun has taken its snapshot.
Waits(n, op, begun) ==
  \E at \in Awaits, d \in Docs, e \in Entries, provided \in Content \cup {NoDoc} :
    /\ Await(n, op, at, d, e, provided) /\ Keeps(n, d) /\ Copies(n, e) /\ UNCHANGED dropped
    /\ at = "loading" => op \in {"load", "adopt"} /\ d = NoDoc /\ e = NoEntry
    /\ at \in {"revalidating", "writing", "winner"} => op \in FlushOps
    /\ at = "checking" => op \notin FlushOps
    /\ begun /\ op \in FlushOps /\ ~Fault("store") => docs[n] # NoDoc /\ e = Snapshot(docs[n])

\* It registers a document.
Registered(n, op) ==
  \E content \in Content, tracked \in Nat \ {0}, dirty \in BOOLEAN :
    /\ op \in {"load", "adopt"}
    /\ Register(n, op, content, tracked, dirty) /\ docs[n] = NoDoc /\ UNCHANGED dropped
    /\ \/ /\ store[n] = NoEntry /\ tracked \in 1..Version(n) /\ ~dirty
          /\ content = commits[n][tracked] \/ run[n].loose # NoDoc
       \/ /\ store[n] # NoEntry /\ tracked = store[n].sourceVersion /\ dirty = store[n].dirty
          /\ content = store[n].blob \/ (loose[n] # NoDoc /\ content = loose[n])

\* It removes the tracking of a note that is gone.
Removed(n, op) == Tracked(n) /\ Remove(n, op) /\ (op = "removed" \/ run[n].net = "missing")

Kind(n, op, begun) ==
  \/ Quiet(n, op) \/ Written(n, op) \/ Reseeded(n, op) \/ Torn(n, op)
  \/ Waits(n, op, begun) \/ Registered(n, op) \/ Removed(n, op)

-----------------------------------------------------------------------------
(* Every stretch is one of these.                                          *)

\* A document keeps to itself.
LEMMA KeepsItself ==
  ASSUME IInv, NEW n \in Notes
  PROVE  Keeps(n, docs[n]) /\ Copies(n, store[n]) /\ docs[n] \in Docs /\ store[n] \in Entries
BY NoteFacts DEF Keeps, Copies, Alike, Docs

\* What #persist leaves at the start of a flush.
LEMMA PersistCopies ==
  ASSUME IInv, NEW n \in Notes, docs[n] # NoDoc, NEW STATE e, e \in Persisted(store[n], docs[n])
  PROVE  Copies(n, e) /\ e \in Entries /\ (~Fault("store") => e = Snapshot(docs[n]))
<1>1. docs[n] \in TrackedDoc /\ store[n] \in Entries
  BY NoteFacts DEF Docs
<1>2. Snapshot(docs[n]) \in Entries
  BY <1>1 DEF Snapshot, Entries, Entry, TrackedDoc
<1> QED BY <1>1, <1>2 DEF Persisted, Copies

\* A re-seed from a later version.
LEMMA ReseedKind ==
  ASSUME IInv, NEW n \in Notes, NEW STATE op, docs[n] # NoDoc,
         NEW STATE ver, ver \in 1..Version(n), docs[n].tracked < ver, Reseed(n, op, docs[n], ver)
  PROVE  Reseeded(n, op) \/ Torn(n, op)
<1> DEFINE winner == commits[n][ver]
           td == docs[n]
           d == [td EXCEPT !.content = winner, !.tracked = ver, !.dirty = FALSE, !.timer = "none"]
           t == [td EXCEPT !.content.torn = TRUE]
           why == IF winner.ext = td.content.ext THEN "own" ELSE "external"
<1>1. td \in TrackedDoc /\ store[n] \in Entries /\ winner \in Content
  BY NoteFacts DEF Docs, History, Version
<1>2. d \in TrackedDoc
  <2>1. ver \in Nat \ {0} /\ "none" \in Timers
    BY NoteFacts DEF Timers, Version, History
  <2> QED BY <1>1, <2>1, Zenon DEF TrackedDoc
<1>3. /\ d.content = winner /\ d.tracked = ver /\ d.mapped = td.mapped
  BY <1>1 DEF TrackedDoc
<1>4. ~d.dirty
  BY <1>1, Zenon DEF TrackedDoc
<1>5. /\ t \in TrackedDoc /\ t.content.edits = td.content.edits /\ t.tracked = td.tracked
      /\ t.mapped = td.mapped /\ t.dirty = td.dirty
  BY <1>1 DEF TrackedDoc, Content
<1>6. \/ /\ \E e \in Persisted(store[n], d) : Settle(n, op, d, e)
         /\ Drop(td.content.edits \ winner.edits, why)
      \/ Fault("hook") /\ Settle(n, op, t, store[n]) /\ UNCHANGED dropped
  BY DEF Reseed
<1>7. why \in {"own", "external"}
  OBVIOUS
<1> HIDE DEF winner, td, d, t, why
<1>8. CASE Fault("hook") /\ Settle(n, op, t, store[n]) /\ UNCHANGED dropped
  BY <1>5, <1>8 DEF Torn, td
<1>9. CASE /\ \E e \in Persisted(store[n], d) : Settle(n, op, d, e)
           /\ Drop(td.content.edits \ winner.edits, why)
  <2>1. PICK e \in Persisted(store[n], d) : Settle(n, op, d, e)
    BY <1>9
  <2>2. e \in Entries
    BY <1>1, <1>2 DEF Persisted, Entries, Snapshot, Entry, TrackedDoc
  <2>3. Drop(td.content.edits \ d.content.edits, why)
    BY <1>3, <1>9
  <2> QED BY <1>2, <1>3, <1>4, <1>7, <2>1, <2>2, <2>3 DEF Reseeded, td, winner
<1> QED BY <1>6, <1>8, <1>9

\* A removal, of what is tracked or of nothing.
LEMMA RemoveKind ==
  ASSUME IInv, NEW n \in Notes, NEW STATE op, Remove(n, op),
         op = "removed" \/ run[n].net = "missing"
  PROVE  Removed(n, op) \/ Quiet(n, op)
<1>1. CASE Tracked(n)
  BY <1>1 DEF Removed
<1>2. CASE ~Tracked(n)
  <2>1. Settle(n, op, docs[n], store[n]) /\ UNCHANGED dropped
    BY <1>2 DEF Remove
  <2>2. docs[n] = NoDoc \/ ~docs[n].mapped
    BY <1>2 DEF Tracked
  <2> QED BY <2>1, <2>2, KeepsItself DEF Quiet
<1> QED BY <1>1, <1>2

\* A deferred writeback.
LEMMA RetryKind ==
  ASSUME IInv, NEW n \in Notes, NEW STATE op, docs[n] # NoDoc,
         Settle(n, op, Schedule(docs[n], "retry"), store[n]), UNCHANGED dropped
  PROVE  Quiet(n, op)
<1> DEFINE d == Schedule(docs[n], "retry")
<1>1. docs[n] \in TrackedDoc
  BY NoteFacts DEF Docs
<1>2. d \in TrackedDoc
  BY <1>1 DEF Schedule, TrackedDoc, Timers
<1>3. /\ d.content = docs[n].content /\ d.tracked = docs[n].tracked /\ d.dirty = docs[n].dirty
      /\ d.generation = docs[n].generation /\ d.mapped = docs[n].mapped
      /\ d.timer = IF d.mapped THEN "retry" ELSE docs[n].timer
  BY <1>1 DEF Schedule, TrackedDoc
<1> HIDE DEF d
<1>4. Keeps(n, d)
  BY <1>1, <1>2, <1>3, Zenon DEF Keeps, Alike
<1>5. Settle(n, op, d, store[n])
  BY DEF d
<1>6. d \in Docs /\ (d.mapped => d.timer # "none")
  BY <1>2, <1>3 DEF Docs
<1> QED BY <1>4, <1>5, <1>6, KeepsItself DEF Quiet

\* From the serialize hook to the updateNote call.
LEMMA SerializeKind ==
  ASSUME IInv, NEW n \in Notes, NEW STATE op, op \in FlushOps, docs[n] # NoDoc, NEW STATE begun,
         NEW STATE e, e \in Entries, Copies(n, e),
         begun /\ ~Fault("store") => e = Snapshot(docs[n]), Serialize(n, op, docs[n], e)
  PROVE  Quiet(n, op) \/ Waits(n, op, begun)
<1>1. CASE Await(n, op, "writing", docs[n], e, NoDoc)
  <2> DEFINE at == "writing"
  <2>1. Await(n, op, at, docs[n], e, NoDoc) /\ at \in Awaits /\ at # "loading" /\ at # "checking"
    BY <1>1 DEF Awaits
  <2> HIDE DEF at
  <2> QED BY <2>1, KeepsItself DEF Waits, Serialize
<1>2. CASE Fault("hook") /\ Settle(n, op, docs[n], e)
  BY <1>2, KeepsItself DEF Quiet, Serialize
<1> QED BY <1>1, <1>2 DEF Serialize

\* The first stretch of a flush.
LEMMA BeginFlushKind ==
  ASSUME IInv, NEW n \in Notes, NEW STATE op, op \in FlushOps, BeginFlush(n, op)
  PROVE  Kind(n, op, TRUE)
<1>1. CASE Tracked(n) /\ docs[n].dirty
  <2>1. docs[n] # NoDoc
    BY <1>1 DEF Tracked
  <2>2. PICK e \in Persisted(store[n], docs[n]) :
          \/ Serialize(n, op, docs[n], e)
          \/ Await(n, op, "revalidating", docs[n], e, NoDoc) /\ UNCHANGED dropped
    BY <1>1 DEF BeginFlush
  <2>3. Copies(n, e) /\ e \in Entries /\ (~Fault("store") => e = Snapshot(docs[n]))
    BY <2>1, <2>2, PersistCopies
  <2>4. CASE Serialize(n, op, docs[n], e)
    BY <2>1, <2>3, <2>4, SerializeKind DEF Kind
  <2>5. CASE Await(n, op, "revalidating", docs[n], e, NoDoc) /\ UNCHANGED dropped
    <3> DEFINE at == "revalidating"
    <3>1. Await(n, op, at, docs[n], e, NoDoc) /\ at \in Awaits /\ at # "loading" /\ at # "checking"
      BY <2>5 DEF Awaits
    <3> HIDE DEF at
    <3> QED BY <2>1, <2>3, <2>5, <3>1, KeepsItself DEF Waits, Kind
  <2> QED BY <2>2, <2>4, <2>5
<1>2. CASE ~(Tracked(n) /\ docs[n].dirty)
  <2>1. Settle(n, op, docs[n], store[n]) /\ UNCHANGED dropped
    BY <1>2 DEF BeginFlush
  <2>2. ~(docs[n] # NoDoc /\ docs[n].mapped /\ docs[n].dirty)
    BY <1>2 DEF Tracked
  <2> QED BY <2>1, <2>2, KeepsItself DEF Quiet, Kind
<1> QED BY <1>1, <1>2

\* The first stretch of a load.
LEMMA BeginLoadKind ==
  ASSUME IInv, NEW n \in Notes, Placed(n), run[n] = Idle,
         NEW STATE op, op \in {"load", "adopt"}, BeginLoad(n, op)
  PROVE  Kind(n, op, TRUE)
<1> DEFINE provided == IF op = "adopt" THEN loose[n] ELSE NoDoc
           content  == IF provided = NoDoc THEN store[n].blob ELSE provided
<1>1. /\ docs[n] \in Docs /\ store[n] \in Entries /\ provided \in Content \cup {NoDoc}
  BY NoteFacts
<1>2. op \notin FlushOps
  BY DEF FlushOps
<1>3. CASE Tracked(n)
  BY <1>2, <1>3, KeepsItself DEF BeginLoad, Quiet, Kind
<1>4. CASE ~Tracked(n)
  <2>1. docs[n] = NoDoc
    BY <1>4 DEF Placed, Tracked
  <2>2. CASE store[n] # NoEntry
    <3>1. Register(n, op, content, store[n].sourceVersion, store[n].dirty) /\ UNCHANGED dropped
      BY <1>4, <2>2 DEF BeginLoad
    <3>2. store[n] \in Entry
      BY <1>1, <2>2 DEF Entries
    <3>3. content \in Content /\ store[n].sourceVersion \in Nat \ {0} /\ store[n].dirty \in BOOLEAN
      BY <1>1, <3>2 DEF Entry
    <3>4. content = store[n].blob \/ (loose[n] # NoDoc /\ content = loose[n])
      OBVIOUS
    <3> HIDE DEF content
    <3> QED BY <2>1, <2>2, <3>1, <3>3, <3>4 DEF Registered, Kind
  <2>3. CASE store[n] = NoEntry
    <3> DEFINE at == "loading"
    <3>1. Await(n, op, at, docs[n], store[n], provided) /\ UNCHANGED dropped
      BY <1>4, <2>3 DEF BeginLoad
    <3>2. at \in Awaits /\ at \notin {"revalidating", "writing", "winner", "checking"}
      BY DEF Awaits
    <3> HIDE DEF at, provided
    <3> QED BY <1>1, <1>2, <2>1, <2>3, <3>1, <3>2, KeepsItself DEF Waits, Kind
  <2> QED BY <2>2, <2>3
<1> QED BY <1>3, <1>4

\* The first stretch of an external check.
LEMMA BeginCheckKind ==
  ASSUME IInv, NEW n \in Notes, BeginCheck(n, "check")
  PROVE  Kind(n, "check", TRUE)
<1> DEFINE td == [docs[n] EXCEPT !.checkQueued = FALSE]
           op == "check"
<1>1. UNCHANGED dropped /\ op \notin FlushOps
  BY DEF BeginCheck, FlushOps
<1>2. \/ Settle(n, op, docs[n], store[n])
      \/ Tracked(n) /\ Settle(n, op, td, store[n])
      \/ Tracked(n) /\ Await(n, op, "checking", td, store[n], NoDoc)
  BY DEF BeginCheck
<1>3. ASSUME Tracked(n)
      PROVE  td \in Docs /\ Keeps(n, td)
  <2>1. docs[n] \in TrackedDoc
    BY <1>3, NoteFacts DEF Tracked, Docs
  <2>2. td \in TrackedDoc
    BY <2>1 DEF TrackedDoc
  <2>3. /\ td.content = docs[n].content /\ td.tracked = docs[n].tracked
        /\ td.dirty = docs[n].dirty /\ td.generation = docs[n].generation
    BY <2>1, Zenon DEF TrackedDoc
  <2>4. td.mapped = docs[n].mapped /\ td.timer = docs[n].timer
    BY <2>1, Zenon DEF TrackedDoc
  <2> HIDE DEF td
  <2>5. Alike(docs[n], td)
    BY <2>1, <2>2, <2>3, Zenon DEF Alike
  <2> QED BY <2>2, <2>4, <2>5 DEF Keeps, Docs
<1> HIDE DEF td, op
<1>4. CASE Settle(n, op, docs[n], store[n])
  BY <1>1, <1>4, KeepsItself DEF Quiet, Kind, op
<1>5. CASE Tracked(n) /\ Settle(n, op, td, store[n])
  BY <1>1, <1>3, <1>5, KeepsItself DEF Quiet, Kind, op
<1>6. CASE Tracked(n) /\ Await(n, op, "checking", td, store[n], NoDoc)
  <2> DEFINE at == "checking"
  <2>1. /\ Await(n, op, at, td, store[n], NoDoc) /\ at \in Awaits
        /\ at \notin {"loading", "revalidating", "writing", "winner"}
    BY <1>6 DEF Awaits
  <2> HIDE DEF at
  <2> QED BY <1>1, <1>3, <1>6, <2>1, KeepsItself DEF Waits, Kind, op
<1> QED BY <1>2, <1>4, <1>5, <1>6

\* The first stretch of whatever is next in the chain.
LEMMA BeginKind ==
  ASSUME IInv, NEW n \in Notes, Placed(n), Begin(n)
  PROVE  Kind(n, Head(ops[n]), TRUE)
<1> DEFINE op == Head(ops[n])
<1>1. op \in OpKinds /\ run[n] = Idle
  BY NoteFacts DEF Begin
<1> HIDE DEF op
<1>2. CASE op \in {"load", "adopt"}
  BY <1>1, <1>2, BeginLoadKind DEF Begin, op
<1>3. CASE op \in {"flush", "uflush", "sflush"}
  BY <1>3, BeginFlushKind DEF Begin, op, FlushOps
<1>4. CASE op = "check"
  <2>1. BeginCheck(n, op)
    BY <1>4 DEF Begin, op
  <2> QED BY <1>4, <2>1, BeginCheckKind DEF op
<1>5. CASE op = "removed"
  BY <1>5, RemoveKind DEF Begin, op, Kind
<1> QED BY <1>1, <1>2, <1>3, <1>4, <1>5 DEF OpKinds, op

\* After the getNote of a load.
LEMMA LoadReplyKind ==
  ASSUME IInv, NEW n \in Notes, Placed(n), LoadReply(n)
  PROVE  Kind(n, run[n].op, FALSE)
<1> DEFINE r == run[n]
           content == IF r.loose = NoDoc THEN commits[n][r.ver] ELSE r.loose
<1>1. /\ docs[n] = NoDoc /\ store[n] = NoEntry /\ UNCHANGED dropped
      /\ r.op \in {"load", "adopt"}
  BY DEF LoadReply, Answered, Placed
<1>2. \/ r.net = "note" /\ Register(n, r.op, content, r.ver, FALSE)
      \/ Settle(n, r.op, docs[n], store[n])
  BY DEF LoadReply
<1>3. CASE Settle(n, r.op, docs[n], store[n])
  BY <1>1, <1>3, KeepsItself DEF Quiet, Kind
<1>4. CASE r.net = "note" /\ Register(n, r.op, content, r.ver, FALSE)
  <2>1. r.ver \in 1..Len(commits[n]) /\ commits[n][r.ver] \in Content /\ r \in Running
    BY <1>4, NoteFacts DEF SoundNote, SoundRead, History
  <2>2. /\ content \in Content /\ r.ver \in Nat \ {0} /\ r.ver \in 1..Version(n)
        /\ content = commits[n][r.ver] \/ r.loose # NoDoc
    BY <2>1 DEF Running, Version
  <2> HIDE DEF content
  <2> QED BY <1>1, <1>4, <2>2 DEF Registered, Kind
<1> QED BY <1>2, <1>3, <1>4

\* After the getNote of a check.
LEMMA CheckReplyKind ==
  ASSUME IInv, NEW n \in Notes, Placed(n), CheckReply(n)
  PROVE  Kind(n, run[n].op, FALSE)
<1> DEFINE r == run[n]
<1>1. docs[n] # NoDoc /\ docs[n] \in TrackedDoc /\ SoundRead(commits[n], docs[n], r)
      /\ Len(commits[n]) \in Nat
  BY NoteFacts DEF SoundNote, SoundRead, CheckReply, Answered, Awaits, Docs, History
<1>2. \/ Settle(n, r.op, docs[n], store[n]) /\ UNCHANGED dropped
      \/ r.net = "missing" /\ Remove(n, r.op)
      \/ r.net = "note" /\ r.ver # docs[n].tracked /\ Reseed(n, r.op, docs[n], r.ver)
  BY DEF CheckReply
<1>3. CASE Settle(n, r.op, docs[n], store[n]) /\ UNCHANGED dropped
  <2>1. r.op \notin FlushOps
    BY DEF CheckReply, Answered, Placed
  <2> QED BY <1>3, <2>1, KeepsItself DEF Quiet, Kind
<1>4. CASE r.net = "missing" /\ Remove(n, r.op)
  BY <1>4, RemoveKind DEF Kind
<1>5. CASE r.net = "note" /\ r.ver # docs[n].tracked /\ Reseed(n, r.op, docs[n], r.ver)
  <2>1. r.ver \in 1..Version(n) /\ docs[n].tracked < r.ver
    BY <1>1, <1>5 DEF SoundRead, CheckReply, Answered, Version, TrackedDoc
  <2> QED BY <1>1, <1>5, <2>1, ReseedKind DEF Kind
<1> QED BY <1>2, <1>3, <1>4, <1>5

\* After the read that a flush makes while the stream is down.
LEMMA RevalidateReplyKind ==
  ASSUME IInv, NEW n \in Notes, Placed(n), RevalidateReply(n)
  PROVE  Kind(n, run[n].op, FALSE)
<1> DEFINE r == run[n]
<1>1. docs[n] # NoDoc /\ docs[n] \in TrackedDoc /\ SoundRead(commits[n], docs[n], r)
      /\ Len(commits[n]) \in Nat
  BY NoteFacts DEF SoundNote, SoundRead, RevalidateReply, Answered, Awaits, Docs, History
<1>2. r.op \in FlushOps
  BY DEF RevalidateReply, Answered, Placed
<1>3. \/ Settle(n, r.op, Schedule(docs[n], "retry"), store[n]) /\ UNCHANGED dropped
      \/ r.net = "missing" /\ Remove(n, r.op)
      \/ r.net = "note" /\ r.ver # docs[n].tracked /\ Reseed(n, r.op, docs[n], r.ver)
      \/ Serialize(n, r.op, docs[n], store[n])
  BY DEF RevalidateReply, Retry
<1>4. CASE Settle(n, r.op, Schedule(docs[n], "retry"), store[n]) /\ UNCHANGED dropped
  BY <1>1, <1>4, RetryKind DEF Kind
<1>5. CASE r.net = "missing" /\ Remove(n, r.op)
  BY <1>5, RemoveKind DEF Kind
<1>6. CASE r.net = "note" /\ r.ver # docs[n].tracked /\ Reseed(n, r.op, docs[n], r.ver)
  <2>1. r.ver \in 1..Version(n) /\ docs[n].tracked < r.ver
    BY <1>1, <1>6 DEF SoundRead, RevalidateReply, Answered, Version, TrackedDoc
  <2> QED BY <1>1, <1>6, <2>1, ReseedKind DEF Kind
<1>7. CASE Serialize(n, r.op, docs[n], store[n])
  BY <1>1, <1>2, <1>7, KeepsItself, SerializeKind DEF Kind
<1> QED BY <1>3, <1>4, <1>5, <1>6, <1>7

\* After the getNote that a conflict asks for.
LEMMA WinnerReplyKind ==
  ASSUME IInv, NEW n \in Notes, WinnerReply(n)
  PROVE  Kind(n, run[n].op, FALSE)
<1> DEFINE r == run[n]
<1>1. docs[n] # NoDoc /\ SoundRead(commits[n], docs[n], r)
  BY NoteFacts DEF SoundNote, SoundRead, WinnerReply, Answered, Awaits
<1>2. \/ Settle(n, r.op, Schedule(docs[n], "retry"), store[n]) /\ UNCHANGED dropped
      \/ r.net = "missing" /\ Remove(n, r.op)
      \/ r.net = "note" /\ Reseed(n, r.op, docs[n], r.ver)
  BY DEF WinnerReply, Retry
<1>3. CASE Settle(n, r.op, Schedule(docs[n], "retry"), store[n]) /\ UNCHANGED dropped
  BY <1>1, <1>3, RetryKind DEF Kind
<1>4. CASE r.net = "missing" /\ Remove(n, r.op)
  BY <1>4, RemoveKind DEF Kind
<1>5. CASE r.net = "note" /\ Reseed(n, r.op, docs[n], r.ver)
  <2>1. r.ver \in 1..Version(n) /\ docs[n].tracked < r.ver
    BY <1>1, <1>5 DEF SoundRead, WinnerReply, Answered, Version
  <2> QED BY <1>1, <1>5, <2>1, ReseedKind DEF Kind
<1> QED BY <1>2, <1>3, <1>4, <1>5

\* After the answer to a writeback.
LEMMA WriteReplyKind ==
  ASSUME IInv, NEW n \in Notes, Placed(n), WriteReply(n)
  PROVE  Kind(n, run[n].op, FALSE)
<1> DEFINE r == run[n]
           td == docs[n]
           d == Acked(td, r)
           s == IF d.dirty THEN Schedule(d, "debounce") ELSE d
<1>1. /\ td # NoDoc /\ td \in TrackedDoc /\ r \in Running /\ store[n] \in Entries
      /\ SoundRead(commits[n], td, r) /\ SoundWrite(commits[n], td, r) /\ UNCHANGED dropped
  BY NoteFacts DEF SoundNote, SoundRead, WriteReply, Answered, Awaits, Docs
<1>2. r.op \in FlushOps /\ r.at = "writing"
  BY DEF WriteReply, Answered, Placed
<1>3. \/ r.net = "note" /\ \E e \in Persisted(store[n], d) : Settle(n, r.op, s, e)
      \/ Await(n, r.op, "winner", td, store[n], NoDoc)
      \/ Settle(n, r.op, Schedule(td, "retry"), store[n])
  BY DEF WriteReply
<1>4. CASE Await(n, r.op, "winner", td, store[n], NoDoc)
  <2> DEFINE at == "winner"
  <2>1. Await(n, r.op, at, docs[n], store[n], NoDoc) /\ at \in Awaits /\ at # "loading"
        /\ at # "checking"
    BY <1>4 DEF Awaits
  <2> HIDE DEF at
  <2> QED BY <1>1, <1>2, <2>1, KeepsItself DEF Waits, Kind
<1>5. CASE Settle(n, r.op, Schedule(td, "retry"), store[n])
  BY <1>1, <1>5, RetryKind DEF Kind
<1>6. CASE r.net = "note" /\ \E e \in Persisted(store[n], d) : Settle(n, r.op, s, e)
  <2>1. r.ver \in Nat \ {0} /\ td.tracked < r.ver
    <3>1. td.tracked < r.ver
      BY <1>6 DEF WriteReply, Answered, Placed
    <3> QED BY <1>1, <3>1 DEF TrackedDoc, Running
  <2>2. /\ d \in TrackedDoc /\ d.content = td.content /\ d.mapped = td.mapped
        /\ d.tracked = r.ver
        /\ ~d.dirty => td.generation = r.generation \/ ~td.dirty
    BY <1>1, <2>1 DEF Acked, TrackedDoc
  <2> HIDE DEF d
  <2>3. /\ s \in TrackedDoc /\ s.content = d.content /\ s.mapped = d.mapped
        /\ s.tracked = d.tracked /\ s.dirty = d.dirty
        /\ s.dirty /\ s.mapped => s.timer # "none"
    BY <2>2 DEF Schedule, TrackedDoc, Timers
  <2> HIDE DEF s
  <2>4. Snapshot(s) = Snapshot(d)
    BY <2>3 DEF Snapshot
  <2>5. PICK e \in Persisted(store[n], s) : Settle(n, r.op, s, e)
    BY <1>6, <2>4 DEF Persisted
  <2>6. e \in Entries
    BY <1>1, <2>3 DEF Persisted, Entries, Snapshot, Entry, TrackedDoc
  <2>7. td.tracked <= s.tracked
    BY <1>1, <2>1, <2>2, <2>3 DEF TrackedDoc
  <2>8. ~s.dirty => s.content = commits[n][s.tracked]
    BY <1>1, <1>2, <1>6, <2>2, <2>3 DEF SoundWrite
  <2> QED BY <1>1, <1>2, <1>6, <2>2, <2>3, <2>5, <2>6, <2>7, <2>8 DEF Written, Kind
<1> QED BY <1>3, <1>4, <1>5, <1>6

\* After any answer.
LEMMA ReplyKind ==
  ASSUME IInv, NEW n \in Notes, Placed(n), Reply(n)
  PROVE  Kind(n, run[n].op, FALSE)
BY LoadReplyKind, CheckReplyKind, RevalidateReplyKind, WriteReplyKind, WinnerReplyKind DEF Reply

-----------------------------------------------------------------------------
(* What the ends of a stretch leave in the cells of the note.              *)

Others(n) ==
  \A m \in Notes \ {n} :
    docs'[m] = docs[m] /\ store'[m] = store[m] /\ run'[m] = run[m] /\ loose'[m] = loose[m]

\* The operation is over: its document stays, unless it is unloaded or is in #docs no more.
LEMMA SettleCells ==
  ASSUME TypeOK, NEW n \in Notes, NEW STATE op, NEW STATE d, NEW STATE e, Settle(n, op, d, e)
  PROVE  /\ Others(n) /\ run'[n] = Idle
         /\ \/ /\ op = "uflush" /\ d # NoDoc /\ d.mapped /\ docs'[n] = NoDoc
               /\ store'[n] \in Persisted(e, d) /\ loose'[n] \in {loose[n], d.content}
            \/ /\ d # NoDoc /\ d.mapped /\ docs'[n] = d /\ store'[n] = e /\ loose'[n] = loose[n]
            \/ /\ d = NoDoc \/ ~d.mapped
               /\ docs'[n] = NoDoc /\ store'[n] = e /\ loose'[n] = loose[n]
<1>1. run' = [run EXCEPT ![n] = Idle]
  BY DEF Settle
<1>2. CASE op = "uflush" /\ d # NoDoc /\ d.mapped
  <2>1. /\ docs' = [docs EXCEPT ![n] = NoDoc] /\ Loosen(n, d.content)
        /\ \E f \in Persisted(e, d) : store' = [store EXCEPT ![n] = f]
    BY <1>2 DEF Settle
  <2>2. loose' \in {loose, [loose EXCEPT ![n] = d.content]}
    BY <2>1 DEF Loosen
  <2> QED BY <1>1, <1>2, <2>1, <2>2 DEF TypeOK, Others
<1>3. CASE ~(op = "uflush" /\ d # NoDoc /\ d.mapped)
  <2>1. /\ docs' = [docs EXCEPT ![n] = IF d # NoDoc /\ d.mapped THEN d ELSE NoDoc]
        /\ store' = [store EXCEPT ![n] = e] /\ loose' = loose
    BY <1>3 DEF Settle
  <2> QED BY <1>1, <2>1 DEF TypeOK, Others
<1> QED BY <1>2, <1>3

\* The operation parks on a request.
LEMMA AwaitCells ==
  ASSUME TypeOK, NEW n \in Notes, NEW STATE op, NEW STATE at, NEW STATE d, NEW STATE e,
         NEW STATE provided, Await(n, op, at, d, e, provided)
  PROVE  /\ Others(n) /\ run'[n].op = op /\ run'[n].at = at /\ run'[n].net = "sent"
         /\ docs'[n] = d /\ store'[n] = e /\ loose'[n] = loose[n]
BY DEF Await, TypeOK, Others

\* A document is registered, and the engine's own becomes that of the reconciler.
LEMMA RegisterCells ==
  ASSUME IInv, NEW n \in Notes, NEW STATE op, NEW STATE content, NEW STATE tracked,
         NEW STATE dirty, Register(n, op, content, tracked, dirty)
  PROVE  /\ Others(n) /\ run'[n] = Idle /\ loose'[n] = NoDoc
         /\ store'[n] \in {Snapshot(docs'[n])} \cup (IF Fault("store") THEN {store[n]} ELSE {})
         /\ docs'[n].content = content /\ docs'[n].dirty = dirty /\ docs'[n].mapped
         /\ docs'[n].tracked = tracked /\ (dirty => docs'[n].timer = "debounce")
<1> DEFINE td == [content |-> content, tracked |-> tracked, dirty |-> dirty, generation |-> 0,
                  timer |-> IF dirty THEN "debounce" ELSE "none", checkQueued |-> FALSE,
                  hint |-> 0, mapped |-> TRUE]
<1>1. /\ td.content = content /\ td.dirty = dirty /\ td.mapped /\ td.tracked = tracked
      /\ dirty => td.timer = "debounce"
  OBVIOUS
<1>2. /\ run' = [run EXCEPT ![n] = Idle] /\ docs' = [docs EXCEPT ![n] = td]
      /\ \E e \in Persisted(store[n], td) : store' = [store EXCEPT ![n] = e]
      /\ Loosen(n, NoDoc)
  BY DEF Register
<1> HIDE DEF td
<1>3. loose' \in {loose, [loose EXCEPT ![n] = NoDoc]} /\ (loose' = loose => loose[n] = NoDoc)
  <2>1. CASE "adopt" \in LoadKinds
    <3>1. loose' = [loose EXCEPT ![n] = NoDoc]
      BY <1>2, <2>1 DEF Loosen
    <3> QED BY <3>1, NoteFacts DEF TypeOK
  <2>2. CASE "adopt" \notin LoadKinds
    <3>1. loose' = loose /\ Traceable
      BY <1>2, <2>2 DEF Loosen, Traceable
    <3>2. loose[n] = NoDoc
      BY <2>2, <3>1, NoteFacts DEF SoundNote, SoundLoose
    <3> QED BY <3>1, <3>2
  <2> QED BY <2>1, <2>2
<1>4. docs'[n] = td
  BY <1>2, NoteFacts DEF TypeOK
<1>5. store'[n] \in Persisted(store[n], td)
  BY <1>2, NoteFacts DEF TypeOK
<1>6. loose'[n] = NoDoc
  BY <1>3, NoteFacts DEF TypeOK
<1>7. Others(n) /\ run'[n] = Idle
  BY <1>2, <1>3, NoteFacts DEF TypeOK, Others
<1> QED BY <1>1, <1>4, <1>5, <1>6, <1>7 DEF Persisted

\* A document is removed; its edits are accounted for.
LEMMA RemoveCells ==
  ASSUME TypeOK, NEW n \in Notes, NEW STATE op, Removed(n, op)
  PROVE  /\ Others(n) /\ run'[n] = Idle /\ docs'[n] = NoDoc /\ docs[n] # NoDoc /\ docs[n].mapped
         /\ store'[n] \in {NoEntry} \cup (IF Fault("store") THEN {store[n]} ELSE {})
         /\ loose'[n] \in {loose[n], docs[n].content} /\ Drop(docs[n].content.edits, "removed")
<1>1. /\ run' = [run EXCEPT ![n] = Idle] /\ docs' = [docs EXCEPT ![n] = NoDoc]
      /\ \E e \in {NoEntry} \cup (IF Fault("store") THEN {store[n]} ELSE {}) :
           store' = [store EXCEPT ![n] = e]
      /\ Loosen(n, docs[n].content) /\ Drop(docs[n].content.edits, "removed")
      /\ docs[n] # NoDoc /\ docs[n].mapped
  BY DEF Removed, Remove, Tracked
<1>2. loose' \in {loose, [loose EXCEPT ![n] = docs[n].content]}
  BY <1>1 DEF Loosen
<1> QED BY <1>1, <1>2 DEF TypeOK, Others

-----------------------------------------------------------------------------
(* Where the cells are: every stretch.                                     *)

\* A document with a type is not the sentinel.
LEMMA DocsAreReal ==
  /\ \A d \in TrackedDoc : d # NoDoc
  /\ \A d \in Docs : d # NoDoc => d \in TrackedDoc
BY SentinelAssumption DEF Docs

\* The parked and the idle.
LEMMA IdleRun ==
  Idle.at = "idle" /\ Idle.net = "none" /\ Idle.op = "none" /\ Idle.op \notin FlushOps
BY DEF Idle, FlushOps

\* What a stretch leaves is in its place again.
LEMMA KindPlaced ==
  ASSUME IInv, NEW n \in Notes, Placed(n), NEW STATE op, NEW STATE begun, Kind(n, op, begun)
  PROVE  Others(n) /\ Placed(n)'
<1>0. TypeOK
  BY DEF IInv, Descent
<1>1. ASSUME NEW d, NEW e, Settle(n, op, d, e), d # NoDoc => docs[n] # NoDoc
      PROVE  Others(n) /\ Placed(n)'
  <2>1. /\ Others(n) /\ run'[n] = Idle
        /\ \/ /\ op = "uflush" /\ d # NoDoc /\ d.mapped /\ docs'[n] = NoDoc
              /\ store'[n] \in Persisted(e, d) /\ loose'[n] \in {loose[n], d.content}
           \/ /\ d # NoDoc /\ d.mapped /\ docs'[n] = d /\ store'[n] = e /\ loose'[n] = loose[n]
           \/ /\ d = NoDoc \/ ~d.mapped
              /\ docs'[n] = NoDoc /\ store'[n] = e /\ loose'[n] = loose[n]
    BY <1>0, <1>1, SettleCells
  <2> QED BY <1>1, <2>1, IdleRun DEF Placed
<1>2. CASE Quiet(n, op)
  BY <1>1, <1>2, DocsAreReal DEF Quiet, Keeps, Alike
<1>3. CASE Written(n, op)
  BY <1>1, <1>3 DEF Written
<1>4. CASE Reseeded(n, op)
  BY <1>1, <1>4 DEF Reseeded
<1>5. CASE Torn(n, op)
  BY <1>1, <1>5 DEF Torn
<1>6. CASE Waits(n, op, begun)
  <2>1. PICK at \in Awaits, d \in Docs, e \in Entries, provided \in Content \cup {NoDoc} :
          /\ Await(n, op, at, d, e, provided) /\ Keeps(n, d)
          /\ at = "loading" => op \in {"load", "adopt"} /\ d = NoDoc /\ e = NoEntry
          /\ at \in {"revalidating", "writing", "winner"} => op \in FlushOps
          /\ at = "checking" => op \notin FlushOps
    BY <1>6 DEF Waits
  <2>2. /\ Others(n) /\ run'[n].op = op /\ run'[n].at = at /\ run'[n].net = "sent"
        /\ docs'[n] = d /\ store'[n] = e /\ loose'[n] = loose[n]
    BY <1>0, <2>1, AwaitCells
  <2>3. d # NoDoc => docs[n] # NoDoc
    BY <2>1, DocsAreReal DEF Keeps, Alike
  <2>4. at # "idle" /\ run'[n] # Idle
    BY <2>2, IdleRun DEF Awaits
  <2> QED BY <2>1, <2>2, <2>3, <2>4 DEF Placed
<1>7. CASE Registered(n, op)
  <2>1. Others(n) /\ run'[n] = Idle /\ loose'[n] = NoDoc /\ docs'[n].mapped
    BY <1>7, RegisterCells DEF Registered
  <2> QED BY <2>1, IdleRun DEF Placed
<1>8. CASE Removed(n, op)
  BY <1>0, <1>8, RemoveCells, IdleRun DEF Placed
<1> QED BY <1>2, <1>3, <1>4, <1>5, <1>6, <1>7, <1>8 DEF Kind

-----------------------------------------------------------------------------
(* The steps of everybody else.                                            *)

\* What waits in a chain still waits when one more does, or another begins.
LEMMA ChainGrows ==
  ASSUME NEW q \in Seq(OpKinds), NEW op \in OpKinds
  PROVE  /\ \A i \in DOMAIN q : i \in DOMAIN Append(q, op) /\ Append(q, op)[i] = q[i]
         /\ Len(q) + 1 \in DOMAIN Append(q, op) /\ Append(q, op)[Len(q) + 1] = op
OBVIOUS

\* A chain without its head.
LEMMA ChainBegins ==
  ASSUME NEW q \in Seq(OpKinds), q # <<>>, NEW i \in DOMAIN q, q[i] # Head(q)
  PROVE  i - 1 \in DOMAIN Tail(q) /\ Tail(q)[i - 1] = q[i]
OBVIOUS

\* A history that grows keeps what it has.
LEMMA VaultGrows ==
  ASSUME IInv, NEW m \in Notes,
         commits'[m] = commits[m] \/ \E x : commits'[m] = Append(commits[m], x)
  PROVE  InVault(m) \subseteq InVault(m)'
<1>1. /\ commits[m] \in Seq(Content) /\ Len(commits[m]) \in Nat
  BY NoteFacts DEF History
<1>2. /\ Len(commits'[m]) \in Nat /\ Len(commits[m]) <= Len(commits'[m])
      /\ \A v \in 1..Len(commits[m]) : commits'[m][v] = commits[m][v]
  BY <1>1
<1>3. 1..Len(commits[m]) \subseteq 1..Len(commits'[m])
  BY <1>1, <1>2
<1> QED BY <1>2, <1>3 DEF InVault, Version

\* The vault and the network: only requests and histories change.
Distant ==
  /\ UNCHANGED <<docs, store, loose, ops, dropped, nextEdit>>
  /\ \A m \in Notes :
       /\ commits'[m] = commits[m] \/ \E x : commits'[m] = Append(commits[m], x)
       /\ \/ run'[m] = run[m]
          \/ /\ run[m].net = "sent" /\ run'[m].net # "none"
             /\ run'[m].op = run[m].op /\ run'[m].at = run[m].at
             /\ run[m].at = "writing" /\ run'[m].net = "note" => run'[m].ver = Version(m) + 1

\* A commit adds to one history.
LEMMA CommitGrows ==
  ASSUME TypeOK, NEW n \in Notes, NEW STATE x, Commit(n, x), NEW m \in Notes
  PROVE  commits'[m] = commits[m] \/ \E y : commits'[m] = Append(commits[m], y)
BY DEF Commit, TypeOK

\* The vault, its other writers and the network are of this kind.
LEMMA NetworkIsDistant ==
  ASSUME IInv, NEW n \in Notes,
         \/ ExternalEdit(n) \/ Rescope(n)
         \/ ServeGet(n) \/ ServePut(n) \/ LoseRequest(n) \/ LandStray(n)
  PROVE  Distant
<1>0. TypeOK
  BY DEF IInv, Descent
<1>1. UNCHANGED <<docs, store, loose, ops, dropped, nextEdit>>
  BY DEF ExternalEdit, Rescope, ServeGet, ServePut, LoseRequest, LandStray, Untouched,
         machineVars, countVars
<1>2. ASSUME NEW m \in Notes
      PROVE  commits'[m] = commits[m] \/ \E x : commits'[m] = Append(commits[m], x)
  BY <1>0, CommitGrows DEF ExternalEdit, Rescope, ServeGet, ServePut, LoseRequest, LandStray
<1>3. ASSUME NEW net, net # "none", NEW ver, Requested(n), NEW m \in Notes, Answer(n, net, ver),
             net = "note" /\ run[n].at = "writing" => ver = Version(n) + 1
      PROVE  \/ run'[m] = run[m]
             \/ /\ run[m].net = "sent" /\ run'[m].net # "none"
                /\ run'[m].op = run[m].op /\ run'[m].at = run[m].at
                /\ run[m].at = "writing" /\ run'[m].net = "note" => run'[m].ver = Version(m) + 1
  <2>1. CASE m = n
    <3>1. run'[n] = [run[n] EXCEPT !.net = net, !.ver = ver] /\ run[n] \in Running
      BY <1>0, <1>3 DEF Answer, TypeOK
    <3>2. /\ run'[n].net = net /\ run'[n].ver = ver /\ run'[n].op = run[n].op
          /\ run'[n].at = run[n].at
      BY <3>1 DEF Running
    <3> QED BY <1>3, <2>1, <3>2 DEF Requested
  <2>2. CASE m # n
    BY <1>0, <1>3, <2>2 DEF Answer, TypeOK
  <2> QED BY <2>1, <2>2
<1>4. ASSUME NEW m \in Notes
      PROVE  \/ run'[m] = run[m]
             \/ /\ run[m].net = "sent" /\ run'[m].net # "none"
                /\ run'[m].op = run[m].op /\ run'[m].at = run[m].at
                /\ run[m].at = "writing" /\ run'[m].net = "note" => run'[m].ver = Version(m) + 1
  <2>1. CASE ExternalEdit(n) \/ Rescope(n) \/ LandStray(n)
    BY <2>1 DEF ExternalEdit, Rescope, LandStray, machineVars
  <2>2. CASE ServeGet(n)
    BY <1>3, <2>2 DEF ServeGet
  <2>3. CASE ServePut(n)
    BY <1>3, <2>3 DEF ServePut
  <2>4. CASE LoseRequest(n)
    BY <1>3, <2>4 DEF LoseRequest
  <2> QED BY <2>1, <2>2, <2>3, <2>4
<1> QED BY <1>1, <1>2, <1>4 DEF Distant

\* The engine, the timers and the stream: a document may lose its timer, but then a
\* flush waits for it.
Nearby ==
  /\ UNCHANGED <<commits, run, store, loose, dropped, nextEdit>>
  /\ \A m \in Notes :
       /\ FlushWaits(m) => FlushWaits(m)'
       /\ \/ docs'[m] = docs[m]
          \/ /\ Alike(docs[m], docs'[m]) /\ docs'[m].mapped = docs[m].mapped
             /\ docs'[m].timer = docs[m].timer \/ FlushWaits(m)'

\* One more in the chain of a note.
LEMMA EnqueueKeeps ==
  ASSUME TypeOK, NEW n \in Notes, NEW STATE op, op \in OpKinds, ops'[n] = Append(ops[n], op)
  PROVE  (FlushWaits(n) => FlushWaits(n)') /\ (op \in FlushOps => FlushWaits(n)')
<1>1. ops[n] \in Seq(OpKinds)
  BY DEF TypeOK
<1> QED BY <1>1, ChainGrows DEF FlushWaits

\* A document with its timer cleared.
LEMMA Untimed ==
  ASSUME NEW d \in TrackedDoc, NEW t, t = [d EXCEPT !.timer = "none"]
  PROVE  Alike(d, t) /\ t.mapped = d.mapped
<1>1. t \in TrackedDoc
  BY DEF TrackedDoc, Timers
<1>2. /\ t.content = d.content /\ t.tracked = d.tracked /\ t.dirty = d.dirty
      /\ t.generation = d.generation /\ t.mapped = d.mapped
  BY Zenon DEF TrackedDoc
<1> QED BY <1>1, <1>2, Zenon DEF Alike

\* Of this kind is load(), which only joins the chain.
LEMMA LoadIsNearby ==
  ASSUME IInv, NEW n \in Notes, NEW op \in LoadKinds, Load(n, op)
  PROVE  Nearby
<1>1. op \in OpKinds /\ TypeOK
  BY KindsAssumption, NoteFacts DEF OpKinds
<1>2. /\ ops' = [ops EXCEPT ![n] = Append(@, op)]
      /\ UNCHANGED <<commits, docs, run, store, loose, dropped, nextEdit>>
  BY DEF Load, Enqueue, vaultVars, countVars
<1>3. ASSUME NEW m \in Notes
      PROVE  FlushWaits(m) => FlushWaits(m)'
  <2>1. CASE m = n
    <3>1. ops'[n] = Append(ops[n], op)
      BY <1>1, <1>2 DEF TypeOK
    <3> QED BY <1>1, <2>1, <3>1, EnqueueKeeps
  <2>2. CASE m # n
    <3>1. ops'[m] = ops[m]
      BY <1>1, <1>2, <2>2 DEF TypeOK
    <3> QED BY <3>1 DEF FlushWaits
  <2> QED BY <2>1, <2>2
<1> QED BY <1>2, <1>3 DEF Nearby

\* A timer that fires, flush() and unload() are, too.
LEMMA QueueFlushIsNearby ==
  ASSUME IInv, NEW n \in Notes, NEW op \in FlushOps, QueueFlush(n, op)
  PROVE  Nearby
<1> DEFINE t == [docs[n] EXCEPT !.timer = "none"]
<1>1. op \in OpKinds /\ TypeOK /\ docs[n] \in TrackedDoc
  BY NoteFacts DEF OpKinds, FlushOps, QueueFlush, Tracked, Docs
<1>2. /\ ops' = [ops EXCEPT ![n] = Append(@, op)] /\ docs' = [docs EXCEPT ![n] = t]
      /\ UNCHANGED <<commits, run, store, loose, dropped, nextEdit>>
  BY DEF QueueFlush, Enqueue, vaultVars, countVars
<1>3. Alike(docs[n], t) /\ t.mapped = docs[n].mapped
  BY <1>1, Untimed
<1> HIDE DEF t
<1>4. docs'[n] = t /\ ops'[n] = Append(ops[n], op)
  BY <1>1, <1>2 DEF TypeOK
<1>5. (FlushWaits(n) => FlushWaits(n)') /\ FlushWaits(n)'
  BY <1>1, <1>4, EnqueueKeeps
<1>6. ASSUME NEW m \in Notes, m # n
      PROVE  docs'[m] = docs[m] /\ (FlushWaits(m) => FlushWaits(m)')
  BY <1>1, <1>2, <1>6 DEF TypeOK, FlushWaits
<1> QED BY <1>2, <1>3, <1>4, <1>5, <1>6 DEF Nearby

\* The stream comes and goes.
LEMMA StreamIsNearby ==
  ASSUME IInv, Start \/ Connect \/ Disconnect
  PROVE  Nearby
<1>1. UNCHANGED <<commits, run, store, loose, dropped, nextEdit, docs, ops>>
  BY DEF Start, Connect, Disconnect, vaultVars, machineVars, countVars
<1> QED BY <1>1 DEF Nearby, FlushWaits

\* An event is delivered: bits of the documents change, checks and removals are queued.
LEMMA DeliverIsNearby ==
  ASSUME IInv, Deliver
  PROVE  Nearby
<1> DEFINE ev == Head(chan)
           seen  == {n \in ev.about : Tracked(n) /\ ev.vers[n] # 0}
           check == {n \in seen : ev.vers[n] # docs[n].tracked /\ ~docs[n].checkQueued}
           gone  == {n \in ev.about : Tracked(n) /\ ev.vers[n] = 0}
           t(n)  == [docs[n] EXCEPT !.hint = ev.vers[n], !.checkQueued = @ \/ n \in check]
<1>1. /\ docs' = [n \in Notes |-> IF n \in seen THEN t(n) ELSE docs[n]]
      /\ ops' = [n \in Notes |-> CASE n \in check -> Append(ops[n], "check")
                                   [] n \in gone  -> Append(ops[n], "removed")
                                   [] OTHER       -> ops[n]]
      /\ UNCHANGED <<commits, run, store, loose, dropped, nextEdit>> /\ chan # <<>>
  BY DEF Deliver, vaultVars, countVars
<1>2. ev \in Event
  <2>1. chan \in Seq(Event) /\ chan # <<>>
    BY <1>1 DEF IInv, Descent, TypeOK
  <2> QED BY <2>1
<1>3. ASSUME NEW m \in Notes
      PROVE  ops'[m] \in {ops[m], Append(ops[m], "check"), Append(ops[m], "removed")}
  <2> HIDE DEF ev, seen, check, gone, t
  <2>1. CASE m \in check
    <3>1. m \notin gone
      BY <2>1 DEF check, gone, seen
    <3> QED BY <1>1, <2>1, <3>1
  <2>2. CASE m \notin check
    BY <1>1, <2>2
  <2> QED BY <2>1, <2>2
<1>4. ASSUME NEW m \in Notes
      PROVE  FlushWaits(m) => FlushWaits(m)'
  <2>1. "check" \in OpKinds /\ "removed" \in OpKinds /\ TypeOK
    BY NoteFacts DEF OpKinds
  <2>2. CASE ops'[m] = ops[m]
    BY <2>2 DEF FlushWaits
  <2> QED BY <1>3, <2>1, <2>2, EnqueueKeeps
<1>5. ASSUME NEW m \in Notes, m \in seen
      PROVE  Alike(docs[m], t(m)) /\ t(m).mapped = docs[m].mapped /\ t(m).timer = docs[m].timer
  <2>1. docs[m] \in TrackedDoc /\ ev.vers[m] \in Nat
    BY <1>2, <1>5, NoteFacts DEF Tracked, Docs, Event
  <2>2. (docs[m].checkQueued \/ m \in check) \in BOOLEAN
    BY <2>1
  <2>3. Alike(docs[m], t(m))
    BY <2>1, <2>2, Zenon DEF Alike, TrackedDoc
  <2>4. t(m).mapped = docs[m].mapped /\ t(m).timer = docs[m].timer
    BY <2>1, Zenon DEF TrackedDoc
  <2> QED BY <2>3, <2>4
<1> HIDE DEF t, seen, check, gone, ev
<1>6. ASSUME NEW m \in Notes
      PROVE  \/ docs'[m] = docs[m]
             \/ /\ Alike(docs[m], docs'[m]) /\ docs'[m].mapped = docs[m].mapped
                /\ docs'[m].timer = docs[m].timer \/ FlushWaits(m)'
  BY <1>1, <1>5
<1> QED BY <1>1, <1>4, <1>6 DEF Nearby

\* stop() clears the timers and queues its flushes.
LEMMA StopIsNearby ==
  ASSUME IInv, Stop
  PROVE  Nearby
<1> DEFINE t(n) == [docs[n] EXCEPT !.timer = "none"]
<1>1. /\ docs' = [n \in Notes |-> IF Tracked(n) THEN t(n) ELSE docs[n]]
      /\ ops' = [n \in Notes |-> IF Tracked(n) THEN Append(ops[n], "sflush") ELSE ops[n]]
      /\ UNCHANGED <<commits, run, store, loose, dropped, nextEdit>>
  BY DEF Stop, vaultVars, countVars
<1>2. ASSUME NEW m \in Notes
      PROVE  /\ FlushWaits(m) => FlushWaits(m)'
             /\ \/ docs'[m] = docs[m]
                \/ /\ Alike(docs[m], docs'[m]) /\ docs'[m].mapped = docs[m].mapped
                   /\ docs'[m].timer = docs[m].timer \/ FlushWaits(m)'
  <2>1. CASE ~Tracked(m)
    BY <1>1, <2>1 DEF FlushWaits
  <2>2. CASE Tracked(m)
    <3>1. docs[m] \in TrackedDoc /\ TypeOK
      BY <2>2, NoteFacts DEF Tracked, Docs
    <3>2. Alike(docs[m], t(m)) /\ t(m).mapped = docs[m].mapped
      BY <3>1, Untimed
    <3>3. "sflush" \in OpKinds /\ "sflush" \in FlushOps
      BY DEF OpKinds, FlushOps
    <3>4. docs'[m] = t(m) /\ ops'[m] = Append(ops[m], "sflush")
      BY <1>1, <2>2
    <3> HIDE DEF t
    <3>5. FlushWaits(m)'
      BY <3>1, <3>3, <3>4, EnqueueKeeps
    <3> QED BY <3>2, <3>4, <3>5
  <2> QED BY <2>1, <2>2
<1> QED BY <1>1, <1>2 DEF Nearby

\* The steps, by what they do to the cells of a note.
LEMMA StepCases ==
  ASSUME IInv, Next
  PROVE  \/ Distant \/ Nearby
         \/ \E n \in Notes : Begin(n) \/ Reply(n) \/ LocalEdit(n)
         \/ StopReturns \/ Crash
<1>1. ASSUME NEW n \in Notes, TimerFires(n) \/ Flush(n) \/ Unload(n)
      PROVE  Nearby
  <2>1. "flush" \in FlushOps /\ "uflush" \in FlushOps
    BY DEF FlushOps
  <2>2. QueueFlush(n, "flush") \/ QueueFlush(n, "uflush")
    BY <1>1 DEF TimerFires, Flush, Unload
  <2> QED BY <2>1, <2>2, QueueFlushIsNearby
<1> QED BY <1>1, NetworkIsDistant, LoadIsNearby, StreamIsNearby, DeliverIsNearby, StopIsNearby
        DEF Next

\* The vault and the network move nothing but requests.
LEMMA DistantPlaced ==
  ASSUME IInv, Places, Distant
  PROVE  Places'
<1> SUFFICES ASSUME NEW n \in Notes
             PROVE  Placed(n)'
  BY DEF Places
<1>1. Placed(n) /\ docs'[n] = docs[n] /\ store'[n] = store[n] /\ loose'[n] = loose[n]
  BY DEF Places, Distant
<1>2. CASE run'[n] = run[n]
  BY <1>1, <1>2 DEF Placed
<1>3. CASE /\ run[n].net = "sent" /\ run'[n].net # "none"
           /\ run'[n].op = run[n].op /\ run'[n].at = run[n].at
           /\ run[n].at = "writing" /\ run'[n].net = "note" => run'[n].ver = Version(n) + 1
  <2>1. run[n].at # "idle" /\ run'[n] # Idle
    BY <1>1, <1>3, IdleRun DEF Placed
  <2>2. run[n].at = "writing" /\ run'[n].net = "note" => docs[n].tracked < run'[n].ver
    <3> SUFFICES ASSUME run[n].at = "writing", run'[n].net = "note"
                 PROVE  docs[n].tracked < run'[n].ver
      OBVIOUS
    <3>1. docs[n] # NoDoc /\ SoundDoc(commits[n], docs[n]) /\ Len(commits[n]) \in Nat
      BY NoteFacts DEF SoundNote, SoundRead, Awaits, History
    <3>2. docs[n].tracked \in 1..Len(commits[n])
      BY <3>1 DEF SoundDoc, Sound
    <3> QED BY <1>3, <3>1, <3>2 DEF Version
  <2> QED BY <1>1, <1>3, <2>1, <2>2 DEF Placed
<1> QED BY <1>2, <1>3 DEF Distant

\* Nor does the engine.
LEMMA NearbyPlaced ==
  ASSUME Places, Nearby
  PROVE  Places'
<1> SUFFICES ASSUME NEW n \in Notes
             PROVE  Placed(n)'
  BY DEF Places
<1>1. /\ Placed(n) /\ run'[n] = run[n] /\ store'[n] = store[n] /\ loose'[n] = loose[n]
      /\ \/ docs'[n] = docs[n]
         \/ Alike(docs[n], docs'[n]) /\ docs'[n].mapped = docs[n].mapped
  BY DEF Places, Nearby
<1> QED BY <1>1, DocsAreReal DEF Placed, Alike

\* An edit is made in a document that is there.
LEMMA LocalEditCells ==
  ASSUME IInv, NEW n \in Notes, LocalEdit(n)
  PROVE  /\ UNCHANGED <<commits, ops, run, store, loose, dropped>>
         /\ nextEdit' = nextEdit + 1 /\ nextEdit < MaxEdits
         /\ \A m \in Notes \ {n} : docs'[m] = docs[m]
         /\ docs[n] \in TrackedDoc /\ docs'[n] \in TrackedDoc /\ docs[n].mapped
         /\ docs'[n].content.edits = docs[n].content.edits \cup {nextEdit + 1}
         /\ docs'[n].tracked = docs[n].tracked /\ docs'[n].mapped = docs[n].mapped
         /\ docs'[n].dirty /\ docs'[n].timer = "debounce"
<1> DEFINE t == Edited(docs[n], nextEdit + 1)
<1>1. docs[n] \in TrackedDoc /\ TypeOK /\ docs[n].mapped
  BY NoteFacts DEF LocalEdit, Tracked, Docs
<1>2. /\ UNCHANGED <<commits, ops, run, store, loose, dropped>>
      /\ nextEdit' = nextEdit + 1 /\ nextEdit < MaxEdits /\ docs' = [docs EXCEPT ![n] = t]
  BY DEF LocalEdit, vaultVars
<1>3. nextEdit + 1 \in Edits
  BY <1>1, <1>2, BoundsAssumption DEF TypeOK, Edits
<1>4. t.content = [docs[n].content EXCEPT !.edits = docs[n].content.edits \cup {nextEdit + 1}]
  BY <1>1, Zenon DEF Edited, TrackedDoc
<1>5. t.content \in Content /\ t.content.edits = docs[n].content.edits \cup {nextEdit + 1}
  BY <1>1, <1>3, <1>4 DEF Content, TrackedDoc
<1>6. /\ t.tracked = docs[n].tracked /\ t.mapped = docs[n].mapped /\ t.dirty
      /\ t.timer = "debounce"
  BY <1>1, Zenon DEF Edited, TrackedDoc
<1>7. t \in TrackedDoc
  <2>1. docs[n].generation + 1 \in Nat
    BY <1>1 DEF TrackedDoc
  <2> QED BY <1>1, <1>5, <2>1, Zenon DEF Edited, TrackedDoc, Timers
<1> HIDE DEF t
<1>8. docs'[n] = t /\ \A m \in Notes \ {n} : docs'[m] = docs[m]
  BY <1>1, <1>2 DEF TypeOK
<1> QED BY <1>1, <1>2, <1>5, <1>6, <1>7, <1>8

\* stop() takes its documents out of #docs; what an operation still holds stays.
LEMMA StopReturnsCells ==
  ASSUME IInv, StopReturns, NEW n \in Notes
  PROVE  /\ UNCHANGED <<commits, ops, run, loose, dropped, nextEdit>>
         /\ \/ store'[n] = store[n] /\ (Tracked(n) => Fault("store"))
            \/ Tracked(n) /\ store'[n] = Snapshot(docs[n])
         /\ \/ docs'[n] = NoDoc /\ (docs[n] = NoDoc \/ run[n] = Idle)
            \/ /\ docs[n] \in TrackedDoc /\ docs'[n] \in TrackedDoc /\ run[n] # Idle
               /\ docs'[n].content = docs[n].content /\ ~docs'[n].mapped
               /\ docs'[n].tracked = docs[n].tracked
<1> DEFINE t == [docs[n] EXCEPT !.mapped = FALSE, !.timer = "none"]
<1>1. /\ UNCHANGED <<commits, ops, run, loose, dropped, nextEdit>>
      /\ docs'[n] = IF docs[n] # NoDoc /\ run[n] # Idle THEN t ELSE NoDoc
  BY DEF StopReturns, vaultVars, countVars
<1>2. \/ store'[n] = store[n] /\ (Tracked(n) => Fault("store"))
      \/ Tracked(n) /\ store'[n] = Snapshot(docs[n])
  <2>1. PICK failed \in SUBSET {m \in Notes : Tracked(m) /\ Fault("store")} :
          store' = [m \in Notes |->
            IF Tracked(m) /\ m \notin failed THEN Snapshot(docs[m]) ELSE store[m]]
    BY DEF StopReturns
  <2>2. store'[n] = IF Tracked(n) /\ n \notin failed THEN Snapshot(docs[n]) ELSE store[n]
    BY <2>1
  <2> QED BY <2>1, <2>2
<1>3. ASSUME docs[n] # NoDoc
      PROVE  /\ docs[n] \in TrackedDoc /\ t \in TrackedDoc
             /\ t.content = docs[n].content /\ ~t.mapped /\ t.tracked = docs[n].tracked
  <2>1. docs[n] \in TrackedDoc
    BY <1>3, NoteFacts DEF Docs
  <2>2. t \in TrackedDoc
    BY <2>1 DEF TrackedDoc, Timers
  <2>3. t.content = docs[n].content /\ ~t.mapped /\ t.tracked = docs[n].tracked
    BY <2>1, Zenon DEF TrackedDoc
  <2> QED BY <2>1, <2>2, <2>3
<1> HIDE DEF t
<1> QED BY <1>1, <1>2, <1>3

\* Every step puts the cells where they can be.
LEMMA PlacesKept ==
  ASSUME IInv, Places, [Next]_vars
  PROVE  Places'
<1>1. CASE UNCHANGED vars
  BY <1>1 DEF Places, Placed, vars, machineVars
<1>2. CASE Distant \/ Nearby
  BY <1>2, DistantPlaced, NearbyPlaced
<1>3. ASSUME NEW n \in Notes, Begin(n) \/ Reply(n)
      PROVE  Places'
  <2>1. PICK op, begun : Kind(n, op, begun)
    BY <1>3, BeginKind, ReplyKind DEF Places
  <2>2. Others(n) /\ Placed(n)'
    BY <2>1, KindPlaced DEF Places
  <2> QED BY <2>2 DEF Places, Placed, Others
<1>4. ASSUME NEW n \in Notes, LocalEdit(n)
      PROVE  Places'
  BY <1>4, LocalEditCells, DocsAreReal DEF Places, Placed
<1>5. CASE StopReturns
  <2> SUFFICES ASSUME NEW n \in Notes
               PROVE  Placed(n)'
    BY DEF Places
  <2>1. Placed(n)
    BY DEF Places
  <2>2. run[n].at = "loading" => store'[n] = store[n]
    BY <1>5, <2>1, StopReturnsCells DEF Placed, Tracked
  <2>3. run[n].at = "writing" /\ run[n].net = "note" => docs'[n] # NoDoc
    <3> SUFFICES ASSUME run[n].at = "writing"
                 PROVE  docs'[n] # NoDoc
      OBVIOUS
    <3>1. docs[n] # NoDoc /\ run[n] # Idle
      BY NoteFacts, IdleRun DEF SoundNote, SoundRead, Awaits
    <3> QED BY <1>5, <3>1, StopReturnsCells, DocsAreReal
  <2> QED BY <1>5, <2>1, <2>2, <2>3, StopReturnsCells, DocsAreReal DEF Placed
<1>6. CASE Crash
  <2>1. \A n \in Notes : docs'[n] = NoDoc /\ loose'[n] = NoDoc /\ run'[n] = Idle
    BY <1>6 DEF Crash
  <2> QED BY <2>1, IdleRun DEF Places, Placed
<1> QED BY <1>1, <1>2, <1>3, <1>4, <1>5, <1>6, StepCases

\* In the beginning nothing is anywhere.
LEMMA PlacesInit == Init => Places
BY IdleRun DEF Init, Places, Placed

\* So the cells are always where they can be.
THEOREM PlacesHold == Spec => []Places
<1>1. IInv /\ Places /\ [Next]_vars => Places'
  BY PlacesKept
<1> QED BY <1>1, PlacesInit, Invariance, PTL DEF Spec

-----------------------------------------------------------------------------
(* Re-seeds go forward.                                                    *)

\* A stretch moves the baseline of a document only forward, and takes edits from it
\* only with a move.
LEMMA KindForward ==
  ASSUME IInv, NEW n \in Notes, NEW STATE op, NEW STATE begun, Kind(n, op, begun),
         Tracked(n), Tracked(n)'
  PROVE  /\ docs[n].tracked <= docs'[n].tracked
         /\ ~(InDoc(n) \subseteq InDoc(n)') => docs[n].tracked < docs'[n].tracked
<1>0. /\ TypeOK /\ docs[n] \in TrackedDoc /\ docs[n] # NoDoc /\ docs'[n] # NoDoc
      /\ docs[n].tracked \in Nat
  BY NoteFacts DEF Tracked, Docs, TrackedDoc
<1>1. ASSUME NEW d, NEW e, Settle(n, op, d, e)
      PROVE  docs'[n] = d
  BY <1>0, <1>1, SettleCells
<1>2. CASE Quiet(n, op)
  BY <1>0, <1>1, <1>2 DEF Quiet, Keeps, Alike, InDoc
<1>3. CASE Written(n, op)
  BY <1>0, <1>1, <1>3 DEF Written, InDoc
<1>4. CASE Reseeded(n, op)
  <2>1. PICK v \in 1..Version(n) : docs[n].tracked < v /\ docs'[n].tracked = v
    BY <1>1, <1>4 DEF Reseeded
  <2>2. Version(n) \in Nat
    BY NoteFacts DEF Version, History
  <2> QED BY <1>0, <2>1, <2>2
<1>5. CASE Torn(n, op)
  BY <1>0, <1>1, <1>5 DEF Torn, InDoc
<1>6. CASE Waits(n, op, begun)
  <2>1. PICK d \in Docs : docs'[n] = d /\ Keeps(n, d)
    BY <1>0, <1>6, AwaitCells DEF Waits
  <2> QED BY <1>0, <2>1 DEF Keeps, Alike, InDoc
<1>7. CASE Registered(n, op)
  BY <1>0, <1>7 DEF Registered
<1>8. CASE Removed(n, op)
  BY <1>0, <1>8, RemoveCells
<1> QED BY <1>2, <1>3, <1>4, <1>5, <1>6, <1>7, <1>8 DEF Kind

\* No document falls back to an older version of its note, or gives up an edit for
\* the version it has, whatever fails and however late an echo or a check comes.
THEOREM NoWayBack == Spec => ReseedsGoForward
<1> DEFINE Forward == \A n \in Notes : Tracked(n) /\ Tracked(n)' =>
              /\ docs[n].tracked <= docs'[n].tracked
              /\ ~(InDoc(n) \subseteq InDoc(n)') => docs[n].tracked < docs'[n].tracked
<1>1. ASSUME IInv, Places, [Next]_vars
      PROVE  Forward
  <2> SUFFICES ASSUME NEW n \in Notes, Tracked(n), Tracked(n)'
               PROVE  /\ docs[n].tracked <= docs'[n].tracked
                      /\ ~(InDoc(n) \subseteq InDoc(n)') => docs[n].tracked < docs'[n].tracked
    OBVIOUS
  <2>0. docs[n] \in TrackedDoc /\ docs[n].tracked \in Nat /\ docs[n] # NoDoc /\ docs'[n] # NoDoc
    BY <1>1, NoteFacts DEF Tracked, Docs, TrackedDoc
  <2>1. docs'[n] = docs[n] \/ (Alike(docs[n], docs'[n])) =>
          docs[n].tracked <= docs'[n].tracked /\ InDoc(n) \subseteq InDoc(n)'
    BY <2>0 DEF InDoc, Alike
  <2>2. CASE UNCHANGED vars
    BY <2>1, <2>2 DEF vars, machineVars
  <2>3. CASE Distant \/ Nearby
    BY <2>1, <2>3 DEF Distant, Nearby
  <2>4. ASSUME NEW m \in Notes, Begin(m) \/ Reply(m)
        PROVE  /\ docs[n].tracked <= docs'[n].tracked
               /\ ~(InDoc(n) \subseteq InDoc(n)') => docs[n].tracked < docs'[n].tracked
    <3>1. PICK op, begun : Kind(m, op, begun)
      BY <1>1, <2>4, BeginKind, ReplyKind DEF Places
    <3>2. CASE m = n
      BY <1>1, <3>1, <3>2, KindForward
    <3>3. CASE m # n
      <4>1. docs'[n] = docs[n]
        BY <1>1, <3>1, <3>3, KindPlaced DEF Places, Others
      <4> QED BY <2>1, <4>1
    <3> QED BY <3>2, <3>3
  <2>5. ASSUME NEW m \in Notes, LocalEdit(m)
        PROVE  docs[n].tracked <= docs'[n].tracked /\ InDoc(n) \subseteq InDoc(n)'
    BY <1>1, <2>0, <2>1, <2>5, LocalEditCells DEF InDoc
  <2>6. CASE StopReturns
    BY <1>1, <2>0, <2>6, StopReturnsCells DEF Tracked
  <2>7. CASE Crash
    BY <2>0, <2>7 DEF Crash
  <2> QED BY <1>1, <2>2, <2>3, <2>4, <2>5, <2>6, <2>7, StepCases
<1>2. IInv /\ Places /\ [Next]_vars => [Forward]_vars
  BY <1>1
<1> HIDE DEF Forward
<1>3. Spec => [][Forward]_vars
  BY <1>2, Invariance, PlacesHold, PTL DEF Spec
<1> QED BY <1>3 DEF ReseedsGoForward, Forward

-----------------------------------------------------------------------------
(* No edit goes without a reason, if the state store takes what it is given. *)

DocEdits(d)   == IF d = NoDoc THEN {} ELSE d.content.edits
StoreEdits(e) == IF e = NoEntry THEN {} ELSE e.blob.edits

\* A step keeps the edits of a note's document and snapshot, or says why not.
Held(n) ==
  \A x \in InDoc(n) \cup InStore(n) :
    x \in InDoc(n)' \cup InStore(n)' \cup InVault(n)' \/ dropped'[x] # "no"

\* A reason once given stays.
Final == \A x \in Edits : dropped[x] # "no" => dropped'[x] # "no"

\* The edits of a note are edits.
LEMMA EditsOfNote ==
  ASSUME IInv, NEW n \in Notes
  PROVE  /\ InDoc(n) = DocEdits(docs[n]) /\ InStore(n) = StoreEdits(store[n])
         /\ InDoc(n) \subseteq Edits /\ InStore(n) \subseteq Edits
<1>1. docs[n] \in Docs /\ store[n] \in Entries
  BY NoteFacts
<1>2. InDoc(n) \subseteq Edits
  BY <1>1, DocsAreReal DEF InDoc, TrackedDoc, Content
<1>3. InStore(n) \subseteq Edits
  BY <1>1 DEF InStore, Entries, Entry, Content
<1> QED BY <1>2, <1>3 DEF InDoc, InStore, DocEdits, StoreEdits

\* A snapshot holds the edits of its document.
LEMMA SnapshotEdits ==
  ASSUME NEW d \in TrackedDoc
  PROVE  Snapshot(d) # NoEntry /\ StoreEdits(Snapshot(d)) = d.content.edits
         /\ Snapshot(d).blob = d.content
<1>1. Snapshot(d) \in Entry
  BY DEF Snapshot, Entry, TrackedDoc
<1> QED BY <1>1, SentinelAssumption DEF StoreEdits, Snapshot

\* An operation that ends on a document backed by its snapshot leaves a note that is.
LEMMA SettleBacked ==
  ASSUME IInv, NEW n \in Notes, NEW STATE op, NEW STATE d, d \in Docs, NEW STATE e, e \in Entries,
         Settle(n, op, d, e), ~Fault("store"), UNCHANGED commits,
         d # NoDoc => StoreEdits(e) \subseteq DocEdits(d) \cup InVault(n),
         d # NoDoc /\ ~d.mapped => DocEdits(d) \subseteq StoreEdits(e) \cup InVault(n),
         loose[n] # NoDoc => d = NoDoc /\ StoreEdits(e) \subseteq loose[n].edits
  PROVE  /\ Backed(n)'
         /\ DocEdits(d) \cup StoreEdits(e) \subseteq InDoc(n)' \cup InStore(n)' \cup InVault(n)'
<1>1. TypeOK
  BY DEF IInv, Descent
<1>2. InVault(n)' = InVault(n)
  BY DEF InVault, Version
<1>3. \/ /\ op = "uflush" /\ d # NoDoc /\ d.mapped /\ docs'[n] = NoDoc
         /\ store'[n] \in Persisted(e, d) /\ loose'[n] \in {loose[n], d.content}
      \/ /\ d # NoDoc /\ d.mapped /\ docs'[n] = d /\ store'[n] = e /\ loose'[n] = loose[n]
      \/ /\ d = NoDoc \/ ~d.mapped
         /\ docs'[n] = NoDoc /\ store'[n] = e /\ loose'[n] = loose[n]
  BY <1>1, SettleCells
<1>4. /\ InDoc(n)' = DocEdits(docs'[n]) /\ InStore(n)' = StoreEdits(store'[n])
  BY DEF InDoc, InStore, DocEdits, StoreEdits
<1>5. DocEdits(NoDoc) = {}
  BY DEF DocEdits
<1>6. CASE /\ op = "uflush" /\ d # NoDoc /\ d.mapped /\ docs'[n] = NoDoc
           /\ store'[n] \in Persisted(e, d) /\ loose'[n] \in {loose[n], d.content}
  <2>1. store'[n] = Snapshot(d) /\ d \in TrackedDoc
    BY <1>6 DEF Persisted, Docs
  <2>2. StoreEdits(store'[n]) = DocEdits(d) /\ DocEdits(d) = d.content.edits
    BY <1>6, <2>1, SnapshotEdits DEF DocEdits
  <2>3. loose[n] = NoDoc
    BY <1>6
  <2> QED BY <1>2, <1>4, <1>5, <1>6, <2>2, <2>3 DEF Backed
<1>7. CASE d # NoDoc /\ d.mapped /\ docs'[n] = d /\ store'[n] = e /\ loose'[n] = loose[n]
  BY <1>2, <1>4, <1>7 DEF Backed
<1>8. CASE /\ d = NoDoc \/ ~d.mapped
           /\ docs'[n] = NoDoc /\ store'[n] = e /\ loose'[n] = loose[n]
  BY <1>2, <1>4, <1>5, <1>8 DEF Backed
<1> QED BY <1>3, <1>6, <1>7, <1>8

\* Reasons are only added.
LEMMA DropIsFinal ==
  ASSUME TypeOK, NEW STATE edits, NEW STATE why, why # "no", Drop(edits, why)
  PROVE  Final /\ \A x \in Edits : x \in edits => dropped'[x] # "no"
BY DEF Drop, Final, TypeOK

\* Every stretch keeps a note backed, and its edits.
LEMMA KindBacked ==
  ASSUME IInv, NEW n \in Notes, Placed(n), Backed(n), ~Fault("store"), UNCHANGED commits,
         NEW STATE op, NEW STATE begun, Kind(n, op, begun)
  PROVE  Backed(n)' /\ Held(n) /\ Final
<1> DEFINE Kept(d, e) ==
      DocEdits(d) \cup StoreEdits(e) \subseteq InDoc(n)' \cup InStore(n)' \cup InVault(n)'
<1>1. /\ TypeOK /\ InVault(n)' = InVault(n)
      /\ InDoc(n) = DocEdits(docs[n]) /\ InStore(n) = StoreEdits(store[n])
      /\ InDoc(n) \subseteq Edits /\ InStore(n) \subseteq Edits
      /\ docs[n] \in Docs /\ store[n] \in Entries
  BY EditsOfNote, NoteFacts DEF InVault, Version
<1>2. /\ docs[n] # NoDoc => InStore(n) \subseteq InDoc(n) \cup InVault(n)
      /\ docs[n] # NoDoc /\ ~docs[n].mapped => InDoc(n) \subseteq InStore(n) \cup InVault(n)
      /\ loose[n] # NoDoc => docs[n] = NoDoc /\ InStore(n) \subseteq loose[n].edits
  BY DEF Backed, Placed
<1>3. UNCHANGED dropped => Final
  BY DEF Final
<1>4. ASSUME NEW d, NEW e, Keeps(n, d), Copies(n, e)
      PROVE  /\ DocEdits(d) = InDoc(n) /\ (d # NoDoc <=> docs[n] # NoDoc)
             /\ d # NoDoc => d.mapped = docs[n].mapped
             /\ StoreEdits(e) = InStore(n) \/ (docs[n] # NoDoc /\ StoreEdits(e) = InDoc(n))
  <2>1. docs[n] # NoDoc => StoreEdits(Snapshot(docs[n])) = InDoc(n)
    BY <1>1, SnapshotEdits DEF Docs, DocEdits
  <2>2. /\ DocEdits(d) = InDoc(n) /\ (d # NoDoc <=> docs[n] # NoDoc)
        /\ d # NoDoc => d.mapped = docs[n].mapped
    BY <1>1, <1>4, DocsAreReal DEF Keeps, Alike, DocEdits
  <2> QED BY <1>1, <1>4, <2>1, <2>2 DEF Copies
<1>5. CASE Quiet(n, op)
  <2>1. PICK d \in Docs, e \in Entries :
          Settle(n, op, d, e) /\ Keeps(n, d) /\ Copies(n, e) /\ UNCHANGED dropped
    BY <1>5 DEF Quiet
  <2>2. Backed(n)' /\ Kept(d, e)
    BY <1>1, <1>2, <1>4, <2>1, SettleBacked
  <2> QED BY <1>1, <1>2, <1>3, <1>4, <2>1, <2>2 DEF Held
<1>6. CASE Written(n, op)
  <2>1. PICK d \in TrackedDoc, e \in Entries :
          /\ Settle(n, op, d, e) /\ docs[n] # NoDoc /\ UNCHANGED dropped
          /\ d.content = docs[n].content /\ d.mapped = docs[n].mapped /\ e \in Persisted(store[n], d)
    BY <1>6 DEF Written
  <2>2. /\ d \in Docs /\ d # NoDoc /\ StoreEdits(e) = DocEdits(d) /\ DocEdits(d) = InDoc(n)
    BY <1>1, <2>1, DocsAreReal, SnapshotEdits DEF Persisted, DocEdits, Docs
  <2>3. Backed(n)' /\ Kept(d, e)
    BY <1>2, <2>1, <2>2, SettleBacked
  <2> QED BY <1>1, <1>2, <1>3, <2>1, <2>2, <2>3 DEF Held
<1>7. CASE Reseeded(n, op)
  <2>1. PICK d \in TrackedDoc, e \in Entries, v \in 1..Version(n), why \in {"own", "external"} :
          /\ Settle(n, op, d, e) /\ docs[n] # NoDoc /\ d.content = commits[n][v]
          /\ e \in Persisted(store[n], d) /\ Drop(docs[n].content.edits \ d.content.edits, why)
    BY <1>7 DEF Reseeded
  <2>2. /\ d \in Docs /\ d # NoDoc /\ StoreEdits(e) = DocEdits(d)
        /\ DocEdits(d) = d.content.edits /\ InDoc(n) = docs[n].content.edits
    BY <1>1, <2>1, DocsAreReal, SnapshotEdits DEF Persisted, DocEdits, Docs
  <2>3. DocEdits(d) \subseteq InVault(n)
    BY <2>1, <2>2 DEF InVault
  <2>4. Backed(n)' /\ Kept(d, e)
    BY <1>2, <2>1, <2>2, SettleBacked
  <2>5. Final /\ \A x \in Edits : x \in InDoc(n) \ DocEdits(d) => dropped'[x] # "no"
    BY <1>1, <2>1, <2>2, DropIsFinal
  <2> QED BY <1>1, <1>2, <2>1, <2>4, <2>5 DEF Held
<1>8. CASE Torn(n, op)
  <2>1. PICK d \in TrackedDoc :
          /\ Settle(n, op, d, store[n]) /\ docs[n] # NoDoc /\ UNCHANGED dropped
          /\ d.content.edits = docs[n].content.edits /\ d.mapped = docs[n].mapped
    BY <1>8 DEF Torn
  <2>2. d \in Docs /\ d # NoDoc /\ DocEdits(d) = InDoc(n)
    BY <1>1, <2>1, DocsAreReal DEF DocEdits, Docs
  <2>3. Backed(n)' /\ Kept(d, store[n])
    BY <1>1, <1>2, <2>1, <2>2, SettleBacked
  <2> QED BY <1>1, <1>3, <2>1, <2>2, <2>3 DEF Held
<1>9. CASE Waits(n, op, begun)
  <2>1. PICK at \in Awaits, d \in Docs, e \in Entries, provided \in Content \cup {NoDoc} :
          /\ Await(n, op, at, d, e, provided) /\ Keeps(n, d) /\ Copies(n, e)
          /\ UNCHANGED dropped
    BY <1>9 DEF Waits
  <2>2. docs'[n] = d /\ store'[n] = e /\ loose'[n] = loose[n]
    BY <1>1, <2>1, AwaitCells
  <2>3. InDoc(n)' = DocEdits(d) /\ InStore(n)' = StoreEdits(e)
    BY <2>2 DEF InDoc, InStore, DocEdits, StoreEdits
  <2> QED BY <1>1, <1>2, <1>3, <1>4, <2>1, <2>2, <2>3 DEF Held, Backed
<1>10. CASE Registered(n, op)
  <2>1. PICK content \in Content, tracked \in Nat \ {0}, dirty \in BOOLEAN :
          /\ Register(n, op, content, tracked, dirty) /\ docs[n] = NoDoc /\ UNCHANGED dropped
          /\ \/ store[n] = NoEntry
             \/ content = store[n].blob
             \/ loose[n] # NoDoc /\ content = loose[n]
    BY <1>10 DEF Registered
  <2>2. /\ loose'[n] = NoDoc /\ store'[n] = Snapshot(docs'[n]) /\ docs'[n].content = content
        /\ docs'[n].mapped
    BY <2>1, RegisterCells
  <2>3. docs'[n] \in TrackedDoc
    <3> DEFINE td == [content |-> content, tracked |-> tracked, dirty |-> dirty,
                      generation |-> 0, timer |-> IF dirty THEN "debounce" ELSE "none",
                      checkQueued |-> FALSE, hint |-> 0, mapped |-> TRUE]
    <3>1. td \in TrackedDoc
      BY DEF TrackedDoc, Timers
    <3>2. docs' = [docs EXCEPT ![n] = td]
      BY <2>1 DEF Register
    <3> HIDE DEF td
    <3> QED BY <1>1, <3>1, <3>2 DEF TypeOK
  <2>4. InDoc(n)' = content.edits /\ InStore(n)' = content.edits
    BY <2>2, <2>3, DocsAreReal, SnapshotEdits DEF InDoc, InStore, StoreEdits
  <2>5. InDoc(n) = {} /\ InStore(n) \subseteq content.edits
    BY <1>1, <1>2, <2>1 DEF InDoc, InStore
  <2> QED BY <1>3, <2>1, <2>2, <2>4, <2>5 DEF Held, Backed
<1>11. CASE Removed(n, op)
  <2>1. /\ docs'[n] = NoDoc /\ docs[n] # NoDoc /\ store'[n] = NoEntry
        /\ Drop(docs[n].content.edits, "removed")
    BY <1>1, <1>11, RemoveCells
  <2>2. InDoc(n) = docs[n].content.edits
    BY <2>1 DEF InDoc
  <2>3. Final /\ \A x \in Edits : x \in InDoc(n) => dropped'[x] # "no"
    BY <1>1, <2>1, <2>2, DropIsFinal
  <2>4. InStore(n)' = {} /\ InDoc(n)' = {}
    BY <2>1 DEF InStore, InDoc
  <2> QED BY <1>1, <1>2, <2>1, <2>3, <2>4 DEF Held, Backed
<1> QED BY <1>5, <1>6, <1>7, <1>8, <1>9, <1>10, <1>11 DEF Kind

\* What every note holds, the machine holds.
LEMMA HeldIsEnough ==
  ASSUME IInv, NoSilentLoss, nextEdit' = nextEdit, Final,
         \A n \in Notes : Held(n) /\ InVault(n) \subseteq InVault(n)'
  PROVE  NoSilentLoss'
<1> SUFFICES ASSUME NEW e \in 1..nextEdit, dropped'[e] = "no"
             PROVE  \E n \in Notes : e \in InDoc(n)' \cup InStore(n)' \cup InVault(n)'
  BY DEF NoSilentLoss
<1>1. e \in Edits
  BY BoundsAssumption DEF IInv, Descent, TypeOK, Edits
<1>2. dropped[e] = "no"
  BY <1>1 DEF Final
<1>3. PICK n \in Notes : e \in InDoc(n) \cup InStore(n) \cup InVault(n)
  BY <1>2 DEF NoSilentLoss
<1> QED BY <1>3 DEF Held

\* A note whose document, snapshot and vault copy say what they said stays backed.
LEMMA AsBacked ==
  ASSUME NEW n \in Notes, Backed(n), InDoc(n)' = InDoc(n), store'[n] = store[n],
         loose'[n] = loose[n], InVault(n) \subseteq InVault(n)',
         docs'[n] = NoDoc <=> docs[n] = NoDoc, docs[n] # NoDoc => docs'[n].mapped = docs[n].mapped
  PROVE  Backed(n)' /\ Held(n)
<1>1. InStore(n)' = InStore(n)
  BY DEF InStore
<1> QED BY <1>1 DEF Backed, Held

\* Every step keeps every note backed, and no edit goes silently.
LEMMA BackupsKept ==
  ASSUME IInv, Places, Backups, NoSilentLoss, ~Fault("store"), [Next]_vars
  PROVE  Backups' /\ NoSilentLoss'
<1>0. UNCHANGED commits => \A n \in Notes : InVault(n)' = InVault(n)
  BY DEF InVault, Version
<1>1. CASE UNCHANGED vars
  BY <1>1 DEF Backups, Backed, NoSilentLoss, vars, vaultVars, machineVars, countVars, InDoc, InStore,
              InVault, Version
<1>2. CASE Distant
  <2>1. ASSUME NEW n \in Notes
        PROVE  Backed(n)' /\ Held(n) /\ InVault(n) \subseteq InVault(n)'
    <3>1. /\ docs'[n] = docs[n] /\ store'[n] = store[n] /\ loose'[n] = loose[n]
          /\ InVault(n) \subseteq InVault(n)'
      BY <1>2, VaultGrows DEF Distant
    <3>2. InDoc(n)' = InDoc(n)
      BY <3>1 DEF InDoc
    <3> QED BY <3>1, <3>2, AsBacked DEF Backups
  <2>2. nextEdit' = nextEdit /\ Final
    BY <1>2 DEF Distant, Final
  <2> QED BY <2>1, <2>2, HeldIsEnough DEF Backups
<1>3. CASE Nearby
  <2>1. ASSUME NEW n \in Notes
        PROVE  Backed(n)' /\ Held(n) /\ InVault(n) \subseteq InVault(n)'
    <3>1. /\ store'[n] = store[n] /\ loose'[n] = loose[n] /\ InVault(n)' = InVault(n)
          /\ \/ docs'[n] = docs[n]
             \/ Alike(docs[n], docs'[n]) /\ docs'[n].mapped = docs[n].mapped
      BY <1>0, <1>3 DEF Nearby
    <3>2. InDoc(n)' = InDoc(n) /\ (docs'[n] = NoDoc <=> docs[n] = NoDoc)
          /\ (docs[n] # NoDoc => docs'[n].mapped = docs[n].mapped)
      BY <3>1, DocsAreReal DEF InDoc, Alike
    <3> QED BY <3>1, <3>2, AsBacked DEF Backups
  <2>2. nextEdit' = nextEdit /\ Final
    BY <1>3 DEF Nearby, Final
  <2> QED BY <2>1, <2>2, HeldIsEnough DEF Backups
<1>4. ASSUME NEW n \in Notes, Begin(n) \/ Reply(n)
      PROVE  Backups' /\ NoSilentLoss'
  <2>1. UNCHANGED <<commits, nextEdit>>
    BY <1>4 DEF Begin, Reply, LoadReply, CheckReply, RevalidateReply, WriteReply, WinnerReply,
                Elsewhere, vaultVars, countVars
  <2>2. PICK op, begun : Kind(n, op, begun)
    BY <1>4, BeginKind, ReplyKind DEF Places
  <2>3. Backed(n)' /\ Held(n) /\ Final /\ Others(n)
    BY <2>1, <2>2, KindBacked, KindPlaced DEF Places, Backups
  <2>4. ASSUME NEW m \in Notes, m # n
        PROVE  Backed(m)' /\ Held(m)
    <3>1. docs'[m] = docs[m] /\ store'[m] = store[m] /\ loose'[m] = loose[m]
      BY <2>3, <2>4 DEF Others
    <3>2. InDoc(m)' = InDoc(m) /\ InVault(m)' = InVault(m)
      BY <1>0, <2>1, <3>1 DEF InDoc
    <3> QED BY <3>1, <3>2, AsBacked DEF Backups
  <2> QED BY <1>0, <2>1, <2>3, <2>4, HeldIsEnough DEF Backups
<1>5. ASSUME NEW n \in Notes, LocalEdit(n)
      PROVE  Backups' /\ NoSilentLoss'
  <2>1. /\ UNCHANGED <<commits, ops, run, store, loose, dropped>>
        /\ nextEdit' = nextEdit + 1
        /\ \A m \in Notes \ {n} : docs'[m] = docs[m]
        /\ docs[n] # NoDoc /\ docs'[n] # NoDoc
        /\ docs'[n].content.edits = docs[n].content.edits \cup {nextEdit + 1}
        /\ docs'[n].mapped /\ docs[n].mapped
    BY <1>5, LocalEditCells, DocsAreReal
  <2>2. /\ InDoc(n)' = InDoc(n) \cup {nextEdit + 1}
        /\ \A m \in Notes \ {n} : InDoc(m)' = InDoc(m)
        /\ \A m \in Notes : InStore(m)' = InStore(m) /\ InVault(m)' = InVault(m)
    BY <1>0, <2>1 DEF InDoc, InStore
  <2>3. Backups'
    BY <2>1, <2>2 DEF Backups, Backed
  <2>4. NoSilentLoss'
    <3> SUFFICES ASSUME NEW e \in 1..nextEdit', dropped'[e] = "no"
                 PROVE  \E m \in Notes : e \in InDoc(m)' \cup InStore(m)' \cup InVault(m)'
      BY DEF NoSilentLoss
    <3>1. CASE e = nextEdit + 1
      BY <2>2, <3>1
    <3>2. CASE e # nextEdit + 1
      <4>1. e \in 1..nextEdit
        BY <2>1, <3>2 DEF IInv, Descent, TypeOK
      <4>2. PICK m \in Notes : e \in InDoc(m) \cup InStore(m) \cup InVault(m)
        BY <2>1, <4>1 DEF NoSilentLoss
      <4> QED BY <2>2, <4>2
    <3> QED BY <3>1, <3>2
  <2> QED BY <2>3, <2>4
<1>6. CASE StopReturns
  <2>1. ASSUME NEW n \in Notes
        PROVE  Backed(n)' /\ Held(n)
    <3>1. Placed(n) /\ Backed(n) /\ docs[n] \in Docs
      BY NoteFacts DEF Places, Backups
    <3>2. /\ UNCHANGED <<commits, loose>>
          /\ \/ store'[n] = store[n] /\ ~Tracked(n)
             \/ Tracked(n) /\ store'[n] = Snapshot(docs[n])
          /\ \/ docs'[n] = NoDoc /\ (docs[n] = NoDoc \/ run[n] = Idle)
             \/ /\ docs[n] \in TrackedDoc /\ docs'[n] \in TrackedDoc
                /\ docs'[n].content = docs[n].content /\ ~docs'[n].mapped
      BY <1>6, StopReturnsCells
    <3>3. InVault(n)' = InVault(n)
      BY <1>0, <3>2
    <3>4. /\ InDoc(n) = DocEdits(docs[n]) /\ InStore(n) = StoreEdits(store[n])
          /\ InDoc(n)' = DocEdits(docs'[n]) /\ InStore(n)' = StoreEdits(store'[n])
      BY DEF InDoc, InStore, DocEdits, StoreEdits
    <3>5. CASE Tracked(n)
      <4>1. docs[n] \in TrackedDoc /\ docs[n] # NoDoc /\ loose[n] = NoDoc
        BY <3>1, <3>5 DEF Tracked, Docs, Placed
      <4>2. InStore(n)' = InDoc(n) /\ InStore(n) \subseteq InDoc(n) \cup InVault(n)
        BY <3>1, <3>2, <3>4, <3>5, <4>1, SnapshotEdits DEF Backed, DocEdits
      <4>3. docs'[n] = NoDoc \/ InDoc(n)' = InDoc(n)
        BY <3>2, <3>4, DocsAreReal DEF DocEdits
      <4> QED BY <3>2, <3>3, <4>1, <4>2, <4>3 DEF Backed, Held
    <3>6. CASE ~Tracked(n)
      <4>1. InStore(n)' = InStore(n) /\ loose'[n] = loose[n]
        BY <3>2, <3>4, <3>6
      <4>2. CASE docs[n] = NoDoc
        <5>1. docs'[n] = NoDoc
          BY <3>2, <4>2, DocsAreReal
        <5> QED BY <3>1, <3>3, <3>4, <4>1, <4>2, <5>1 DEF Backed, Held, DocEdits
      <4>3. CASE docs[n] # NoDoc
        <5>1. ~docs[n].mapped /\ run[n] # Idle
          BY <3>1, <3>6, <4>3 DEF Tracked, Placed
        <5>2. docs'[n] # NoDoc /\ ~docs'[n].mapped /\ InDoc(n)' = InDoc(n)
          BY <3>2, <3>4, <4>3, <5>1, DocsAreReal DEF DocEdits
        <5> QED BY <3>1, <3>3, <4>1, <4>3, <5>1, <5>2 DEF Backed, Held
      <4> QED BY <4>2, <4>3
    <3> QED BY <3>5, <3>6
  <2>2. UNCHANGED <<commits, dropped, nextEdit>>
    BY <1>6 DEF StopReturns, vaultVars, countVars
  <2>3. Final
    BY <2>2 DEF Final
  <2> QED BY <1>0, <2>1, <2>2, <2>3, HeldIsEnough DEF Backups
<1>7. CASE Crash
  <2> DEFINE lost == UNION {InDoc(n) \ (InStore(n) \cup InVault(n)) : n \in Notes}
  <2>1. /\ \A n \in Notes : docs'[n] = NoDoc /\ loose'[n] = NoDoc
        /\ Drop(lost, "crash") /\ UNCHANGED <<commits, store, nextEdit>>
    BY <1>7 DEF Crash
  <2>2. Final /\ \A x \in Edits : x \in lost => dropped'[x] # "no"
    <3> HIDE DEF lost
    <3> QED BY <2>1, DropIsFinal DEF IInv, Descent
  <2>3. ASSUME NEW n \in Notes
        PROVE  Backed(n)' /\ Held(n)
    <3>1. /\ InDoc(n)' = {} /\ InStore(n)' = InStore(n) /\ InVault(n)' = InVault(n)
          /\ docs'[n] = NoDoc /\ loose'[n] = NoDoc
      BY <1>0, <2>1 DEF InDoc, InStore
    <3>2. InDoc(n) \subseteq Edits
      BY EditsOfNote
    <3> QED BY <2>2, <3>1, <3>2 DEF Backed, Held
  <2> QED BY <1>0, <2>1, <2>2, <2>3, HeldIsEnough DEF Backups
<1> QED BY <1>1, <1>2, <1>3, <1>4, <1>5, <1>6, <1>7, StepCases

\* Unless the state store fails, a local edit is in a document, a snapshot or the
\* vault until a re-seed, a removal or a crash takes it: load(), unload(), stop(),
\* adoption, conflicts and retries lose none.
THEOREM NoEditGoesSilently ==
  ASSUME ~Fault("store")
  PROVE  Spec => []NoSilentLoss
<1>1. Init => Backups /\ NoSilentLoss
  BY DEF Init, Backups, Backed, NoSilentLoss
<1>2. IInv /\ Places /\ (Backups /\ NoSilentLoss) /\ [Next]_vars => (Backups /\ NoSilentLoss)'
  BY BackupsKept
<1> DEFINE Both == Backups /\ NoSilentLoss
<1>3. Spec => []Both
  <2>1. Init => Both
    BY <1>1
  <2>2. IInv /\ Places /\ Both /\ [Next]_vars => Both'
    BY <1>2
  <2> HIDE DEF Both
  <2> QED BY <2>1, <2>2, Invariance, PlacesHold, PTL DEF Spec
<1>4. Both => NoSilentLoss
  OBVIOUS
<1> QED BY <1>3, <1>4, PTL

-----------------------------------------------------------------------------
(* Nothing waits for ever, if neither the store nor a hook fails.          *)

Ahead(n) == docs[n].timer # "none" \/ FlushWaits(n)

Works(n) ==
  Tracked(n) =>
    /\ docs[n].dirty => Ahead(n) \/ run[n].op \in FlushOps
    /\ Snapped(n) \/ Ahead(n)
    /\ docs[n].dirty \/ Snapped(n)

\* It is what the runs check, and that what is clean is stored.
LEMMA WorksSplit == (\A n \in Notes : Works(n)) <=> WorkIsScheduled /\ CleanAreStored
BY DEF Works, Ahead, WorkIsScheduled, CleanAreStored, Snapped

\* A document that is as good as the one before, with its snapshot or a new one.
LEMMA AsStored ==
  ASSUME IInv, NEW n \in Notes, NEW d, NEW e, Keeps(n, d), Copies(n, e), d # NoDoc
  PROVE  /\ docs[n] # NoDoc /\ d.dirty = docs[n].dirty /\ d.mapped = docs[n].mapped
         /\ d.content = docs[n].content /\ (d.timer = "none" => docs[n].timer = "none")
         /\ Snapped(n) => e # NoEntry /\ e.blob = d.content
         /\ e = Snapshot(docs[n]) => e # NoEntry /\ e.blob = d.content
<1>1. /\ docs[n] \in TrackedDoc /\ d.dirty = docs[n].dirty /\ d.mapped = docs[n].mapped
      /\ d.content = docs[n].content /\ (d.timer = "none" => docs[n].timer = "none")
  BY DEF Keeps, Alike
<1> QED BY <1>1, DocsAreReal, SnapshotEdits DEF Copies, Snapped

\* Every stretch leaves what is to be done in somebody's hands.
LEMMA KindWorks ==
  ASSUME IInv, NEW n \in Notes, Works(n), ~Fault("store"), ~Fault("hook"),
         NEW STATE op, NEW STATE begun, Kind(n, op, begun),
         run[n].op \in FlushOps => op \in FlushOps,
         FlushWaits(n) => FlushWaits(n)' \/ (begun /\ op \in FlushOps)
  PROVE  Works(n)'
<1>0. TypeOK
  BY DEF IInv, Descent
<1>1. ASSUME NEW d, NEW e, Settle(n, op, d, e), Tracked(n)'
      PROVE  docs'[n] = d /\ store'[n] = e /\ d # NoDoc /\ d.mapped
  BY <1>0, <1>1, SettleCells DEF Tracked
<1> SUFFICES ASSUME Tracked(n)'
             PROVE  /\ docs'[n].dirty => Ahead(n)' \/ run'[n].op \in FlushOps
                    /\ Snapped(n)' \/ Ahead(n)'
                    /\ docs'[n].dirty \/ Snapped(n)'
  BY DEF Works
<1>2. CASE Quiet(n, op)
  <2>1. PICK d \in Docs, e \in Entries :
          /\ Settle(n, op, d, e) /\ Keeps(n, d) /\ Copies(n, e)
          /\ op \in FlushOps /\ d # NoDoc /\ d.mapped /\ d.dirty => d.timer # "none"
    BY <1>2 DEF Quiet
  <2>2. docs'[n] = d /\ store'[n] = e /\ d # NoDoc /\ d.mapped
    BY <1>1, <2>1
  <2>3. /\ docs[n] # NoDoc /\ d.dirty = docs[n].dirty /\ d.mapped = docs[n].mapped
        /\ d.content = docs[n].content /\ (d.timer = "none" => docs[n].timer = "none")
        /\ Snapped(n) => e # NoEntry /\ e.blob = d.content
    BY <2>1, <2>2, AsStored
  <2>4. Tracked(n) /\ (Snapped(n) => Snapped(n)')
    BY <2>2, <2>3 DEF Tracked, Snapped
  <2>5. CASE op \in FlushOps
    BY <2>1, <2>2, <2>3, <2>4, <2>5 DEF Works, Ahead
  <2>6. CASE op \notin FlushOps
    BY <2>2, <2>3, <2>4, <2>6 DEF Works, Ahead
  <2> QED BY <2>5, <2>6
<1>3. ASSUME NEW d \in TrackedDoc, NEW e, e \in Persisted(store[n], d), Settle(n, op, d, e),
             d.dirty /\ d.mapped => d.timer # "none"
      PROVE  /\ docs'[n].dirty => Ahead(n)' /\ Snapped(n)'
             /\ Snapped(n)'
  <2>1. docs'[n] = d /\ store'[n] = e /\ d # NoDoc /\ d.mapped
    BY <1>1, <1>3
  <2>2. e = Snapshot(d)
    BY <1>3 DEF Persisted
  <2> QED BY <1>3, <2>1, <2>2, SnapshotEdits DEF Snapped, Ahead
<1>4. CASE Written(n, op)
  BY <1>3, <1>4 DEF Written
<1>5. CASE Reseeded(n, op)
  BY <1>3, <1>5 DEF Reseeded
<1>6. CASE Torn(n, op)
  BY <1>6 DEF Torn
<1>7. CASE Waits(n, op, begun)
  <2>1. PICK at \in Awaits, d \in Docs, e \in Entries, provided \in Content \cup {NoDoc} :
          /\ Await(n, op, at, d, e, provided) /\ Keeps(n, d) /\ Copies(n, e)
          /\ begun /\ op \in FlushOps => docs[n] # NoDoc /\ e = Snapshot(docs[n])
    BY <1>7 DEF Waits
  <2>2. docs'[n] = d /\ store'[n] = e /\ run'[n].op = op /\ d # NoDoc
    BY <1>0, <2>1, AwaitCells DEF Tracked
  <2>3. /\ docs[n] # NoDoc /\ d.dirty = docs[n].dirty /\ d.mapped = docs[n].mapped
        /\ d.content = docs[n].content /\ (d.timer = "none" => docs[n].timer = "none")
        /\ Snapped(n) => e # NoEntry /\ e.blob = d.content
        /\ e = Snapshot(docs[n]) => e # NoEntry /\ e.blob = d.content
    BY <2>1, <2>2, AsStored
  <2>4. Tracked(n) /\ (Snapped(n) => Snapped(n)') /\ (begun /\ op \in FlushOps => Snapped(n)')
    BY <2>1, <2>2, <2>3 DEF Tracked, Snapped
  <2> QED BY <2>2, <2>3, <2>4 DEF Works, Ahead
<1>8. CASE Registered(n, op)
  <2>1. PICK content \in Content, tracked \in Nat \ {0}, dirty \in BOOLEAN :
          Register(n, op, content, tracked, dirty)
    BY <1>8 DEF Registered
  <2>2. /\ store'[n] = Snapshot(docs'[n]) /\ docs'[n].dirty = dirty
        /\ dirty => docs'[n].timer = "debounce"
    BY <2>1, RegisterCells
  <2>3. docs'[n] \in TrackedDoc
    <3> DEFINE td == [content |-> content, tracked |-> tracked, dirty |-> dirty,
                      generation |-> 0, timer |-> IF dirty THEN "debounce" ELSE "none",
                      checkQueued |-> FALSE, hint |-> 0, mapped |-> TRUE]
    <3>1. td \in TrackedDoc
      BY DEF TrackedDoc, Timers
    <3>2. docs' = [docs EXCEPT ![n] = td]
      BY <2>1 DEF Register
    <3> HIDE DEF td
    <3> QED BY <1>0, <3>1, <3>2 DEF TypeOK
  <2> QED BY <2>2, <2>3, SnapshotEdits DEF Snapped, Ahead
<1>9. CASE Removed(n, op)
  BY <1>0, <1>9, RemoveCells DEF Tracked
<1> QED BY <1>2, <1>4, <1>5, <1>6, <1>7, <1>8, <1>9 DEF Kind

\* A note whose cells are as they were, but for the timer, has its work ahead of it still.
LEMMA AsScheduled ==
  ASSUME NEW n \in Notes, Works(n), store'[n] = store[n], run'[n].op = run[n].op,
         FlushWaits(n) => FlushWaits(n)',
         \/ docs'[n] = docs[n]
         \/ /\ Alike(docs[n], docs'[n]) /\ docs'[n].mapped = docs[n].mapped
            /\ docs'[n].timer = docs[n].timer \/ FlushWaits(n)'
  PROVE  Works(n)'
<1>1. CASE docs'[n] = docs[n]
  BY <1>1 DEF Works, Tracked, Ahead, Snapped
<1>2. CASE /\ Alike(docs[n], docs'[n]) /\ docs'[n].mapped = docs[n].mapped
           /\ docs'[n].timer = docs[n].timer \/ FlushWaits(n)'
  <2>1. docs[n] # NoDoc /\ docs'[n].dirty = docs[n].dirty /\ docs'[n].content = docs[n].content
    BY <1>2, DocsAreReal DEF Alike
  <2> QED BY <1>2, <2>1 DEF Works, Tracked, Ahead, Snapped
<1> QED BY <1>1, <1>2

\* Every step does.
LEMMA WorkKept ==
  ASSUME IInv, Places, \A n \in Notes : Works(n), ~Fault("store"), ~Fault("hook"), [Next]_vars
  PROVE  \A n \in Notes : Works(n)'
<1> SUFFICES ASSUME NEW n \in Notes
             PROVE  Works(n)'
  OBVIOUS
<1>1. CASE UNCHANGED vars
  BY <1>1 DEF vars, machineVars, Works, Tracked, Ahead, Snapped, FlushWaits
<1>2. CASE Distant
  <2>1. /\ docs'[n] = docs[n] /\ store'[n] = store[n] /\ run'[n].op = run[n].op
        /\ FlushWaits(n)' = FlushWaits(n)
    BY <1>2 DEF Distant, FlushWaits
  <2> QED BY <2>1, AsScheduled
<1>3. CASE Nearby
  <2>1. /\ store'[n] = store[n] /\ run'[n].op = run[n].op /\ (FlushWaits(n) => FlushWaits(n)')
        /\ \/ docs'[n] = docs[n]
           \/ /\ Alike(docs[n], docs'[n]) /\ docs'[n].mapped = docs[n].mapped
              /\ docs'[n].timer = docs[n].timer \/ FlushWaits(n)'
    BY <1>3 DEF Nearby
  <2> QED BY <2>1, AsScheduled
<1>4. ASSUME NEW m \in Notes, Begin(m)
      PROVE  Works(n)'
  <2>1. Kind(m, Head(ops[m]), TRUE) /\ Others(m) /\ run[m] = Idle
    BY <1>4, BeginKind, KindPlaced DEF Places, Begin
  <2>2. ops[m] # <<>> /\ ops' = [ops EXCEPT ![m] = Tail(ops[m])] /\ ops[m] \in Seq(OpKinds)
        /\ ops \in [Notes -> Seq(OpKinds)]
    BY <1>4, NoteFacts DEF Begin, TypeOK
  <2>3. CASE m = n
    <3>1. FlushWaits(m) => FlushWaits(m)' \/ Head(ops[m]) \in FlushOps
      <4> SUFFICES ASSUME NEW i \in DOMAIN ops[m], ops[m][i] \in FlushOps,
                          Head(ops[m]) \notin FlushOps
                   PROVE  FlushWaits(m)'
        BY DEF FlushWaits
      <4>1. i - 1 \in DOMAIN Tail(ops[m]) /\ Tail(ops[m])[i - 1] = ops[m][i]
        BY <2>2, ChainBegins
      <4>2. ops'[m] = Tail(ops[m])
        BY <2>2
      <4> QED BY <4>1, <4>2 DEF FlushWaits
    <3>2. run[m].op \notin FlushOps
      BY <2>1, IdleRun
    <3> QED BY <2>1, <2>3, <3>1, <3>2, KindWorks
  <2>4. CASE m # n
    <3>1. /\ docs'[n] = docs[n] /\ store'[n] = store[n] /\ run'[n] = run[n]
          /\ ops'[n] = ops[n]
      BY <2>1, <2>2, <2>4 DEF Others
    <3> QED BY <3>1, AsScheduled DEF FlushWaits
  <2> QED BY <2>3, <2>4
<1>5. ASSUME NEW m \in Notes, Reply(m)
      PROVE  Works(n)'
  <2>1. Kind(m, run[m].op, FALSE) /\ Others(m)
    BY <1>5, ReplyKind, KindPlaced DEF Places
  <2>2. ops' = ops
    BY <1>5 DEF Reply, LoadReply, CheckReply, RevalidateReply, WriteReply, WinnerReply, Elsewhere
  <2>3. FlushWaits(n)' = FlushWaits(n)
    BY <2>2 DEF FlushWaits
  <2>4. CASE m = n
    BY <2>1, <2>3, <2>4, KindWorks
  <2>5. CASE m # n
    <3>1. docs'[n] = docs[n] /\ store'[n] = store[n] /\ run'[n] = run[n]
      BY <2>1, <2>5 DEF Others
    <3> QED BY <2>3, <3>1, AsScheduled
  <2> QED BY <2>4, <2>5
<1>6. ASSUME NEW m \in Notes, LocalEdit(m)
      PROVE  Works(n)'
  <2>1. CASE m = n
    <3>1. docs'[n].dirty /\ docs'[n].timer = "debounce"
      BY <1>6, <2>1, LocalEditCells
    <3> QED BY <3>1 DEF Works, Ahead
  <2>2. CASE m # n
    <3>1. docs'[n] = docs[n] /\ UNCHANGED <<store, run, ops>>
      BY <1>6, <2>2, LocalEditCells
    <3>2. FlushWaits(n)' = FlushWaits(n)
      BY <3>1 DEF FlushWaits
    <3> QED BY <3>1, <3>2, AsScheduled
  <2> QED BY <2>1, <2>2
<1>7. CASE StopReturns
  <2>1. docs'[n] = NoDoc \/ ~docs'[n].mapped
    BY <1>7, StopReturnsCells
  <2> QED BY <2>1 DEF Works, Tracked
<1>8. CASE Crash
  <2>1. docs'[n] = NoDoc
    BY <1>8 DEF Crash
  <2> QED BY <2>1 DEF Works, Tracked
<1> QED BY <1>1, <1>2, <1>3, <1>4, <1>5, <1>6, <1>7, <1>8, StepCases

\* Unless the store or a hook fails, a dirty document has its writeback ahead of it and
\* what a crash could lose is about to be persisted, in every state.
THEOREM WorkIsAhead ==
  ASSUME ~Fault("store"), ~Fault("hook")
  PROVE  Spec => []WorkIsScheduled
<1> DEFINE All == \A n \in Notes : Works(n)
<1>1. Init => All
  BY DEF Init, Works, Tracked
<1>2. IInv /\ Places /\ All /\ [Next]_vars => All'
  BY WorkKept
<1>3. All => WorkIsScheduled
  BY WorksSplit
<1> HIDE DEF All
<1> QED BY <1>1, <1>2, <1>3, Invariance, PlacesHold, PTL DEF Spec

-----------------------------------------------------------------------------
(* The documents of the engine.                                            *)

\* What the docs editor relies on: documents are adopted, and the state store works.
Collaborative == LoadKinds = {"adopt"} /\ ~Fault("store")

\* What may run for a document at any time, and never ends its tracking.
Plain == {"flush", "check"}

\* The operations of n, the running one first.
OpAt(n, i) ==
  IF run[n] = Idle THEN ops[n][i] ELSE IF i = 1 THEN run[n].op ELSE ops[n][i - 1]

\* What the hook that the engine is in has queued.
Hooked(at) ==
  IF at \in {"opening", "readopting"} THEN "adopt"
    ELSE IF at = "unloading" THEN "uflush" ELSE "flush"

\* Besides the operation that a hook awaits there are flushes and checks only.
Chained(n) ==
  /\ engine[n].ahead <= Queue(n)
  /\ \A i \in 1..Queue(n) :
       IF i = engine[n].ahead THEN OpAt(n, i) = Hooked(engine[n].at) ELSE OpAt(n, i) \in Plain

\* Where the engine has the document, and whether the reconciler has it.
EngineHolds(n) ==
  LET e == engine[n]
  IN /\ docs[n] # NoDoc => docs[n].mapped
     /\ e.at = "absent" => e.ahead = 0 /\ docs[n] = NoDoc
     /\ e.at = "opening" => e.conns > 0 /\ (e.ahead > 0 => docs[n] = NoDoc)
     /\ e.at = "open" => e.conns > 0 /\ e.ahead = 0 /\ docs[n] # NoDoc
     /\ e.at = "storing" => docs[n] # NoDoc
     /\ e.at = "unloading" =>
          IF e.ahead > 0 THEN docs[n] # NoDoc ELSE docs[n] = NoDoc /\ store[n] # NoEntry
     /\ e.at = "readopting" =>
          /\ e.conns > 0
          /\ IF e.ahead > 0 THEN docs[n] = NoDoc /\ store[n] # NoEntry /\ run[n] = Idle
                            ELSE docs[n] # NoDoc

\* The note is there, and nobody is told otherwise.
InScope(n) == scope[n] = "tagged" /\ run[n].net # "missing"

Fits(n) == InScope(n) /\ Chained(n) /\ EngineHolds(n)

EngineInv == engine \in [Notes -> EngineDoc] /\ Told /\ \A n \in Notes : Fits(n)

CollabInv == IInv /\ Places /\ EngineInv

-----------------------------------------------------------------------------
(* One stretch of an operation.                                            *)

\* What the stretch of an operation op leaves of the document of n.
Leaves(n, op) ==
  /\ docs'[n] # NoDoc => docs'[n].mapped
  /\ store[n] # NoEntry => store'[n] # NoEntry
  /\ run'[n].net # "missing"
  /\ \/ /\ run'[n] # Idle /\ run'[n].op = op
        /\ docs'[n] = NoDoc <=> docs[n] = NoDoc
     \/ /\ run'[n] = Idle
        /\ docs[n] = NoDoc /\ op # "adopt" => docs'[n] = NoDoc
        /\ docs[n] # NoDoc /\ op # "uflush" => docs'[n] # NoDoc
        /\ docs[n] # NoDoc /\ op = "uflush" => docs'[n] = NoDoc /\ store'[n] # NoEntry

\* A snapshot of a document is an entry.
LEMMA SnapshotIsReal ==
  ASSUME NEW d \in TrackedDoc
  PROVE  Snapshot(d) # NoEntry
<1>1. Snapshot(d) \in Entry
  BY DEF Snapshot, Entry, TrackedDoc
<1> QED BY <1>1, SentinelAssumption

\* What is registered is a document.
LEMMA RegisterIsReal ==
  ASSUME TypeOK, NEW n \in Notes, NEW STATE op, NEW STATE content, content \in Content,
         NEW STATE tracked, tracked \in Nat \ {0}, NEW STATE dirty, dirty \in BOOLEAN,
         Register(n, op, content, tracked, dirty)
  PROVE  docs'[n] \in TrackedDoc
<1> DEFINE td == [content |-> content, tracked |-> tracked, dirty |-> dirty, generation |-> 0,
                  timer |-> IF dirty THEN "debounce" ELSE "none", checkQueued |-> FALSE,
                  hint |-> 0, mapped |-> TRUE]
<1>1. docs' = [docs EXCEPT ![n] = td]
  BY DEF Register
<1>2. td \in TrackedDoc
  BY DEF TrackedDoc, Timers
<1> HIDE DEF td
<1> QED BY <1>1, <1>2 DEF TypeOK

\* While the store works and the note is there, a stretch ends the tracking of a
\* document only if it is an unload's.
LEMMA KindLeaves ==
  ASSUME IInv, NEW n \in Notes, ~Fault("store"), docs[n] # NoDoc => docs[n].mapped,
         run[n].net # "missing", NEW STATE op, op # "load", op # "removed", NEW STATE begun,
         Kind(n, op, begun)
  PROVE  Leaves(n, op)
<1>0. TypeOK
  BY DEF IInv, Descent
<1>1. ASSUME NEW d \in TrackedDoc, NEW e, Settle(n, op, d, e), d.mapped, docs[n] # NoDoc,
             store[n] # NoEntry => e # NoEntry
      PROVE  Leaves(n, op)
  <2>1. /\ run'[n] = Idle
        /\ \/ /\ op = "uflush" /\ docs'[n] = NoDoc /\ store'[n] \in Persisted(e, d)
           \/ docs'[n] = d /\ store'[n] = e
    BY <1>0, <1>1, SettleCells, DocsAreReal
  <2>2. op = "uflush" => docs'[n] = NoDoc /\ store'[n] \in Persisted(e, d)
    BY <1>0, <1>1, <2>1, DocsAreReal DEF Settle, TypeOK
  <2>3. op = "uflush" => store'[n] # NoEntry
    BY <1>1, <2>2, SnapshotIsReal DEF Persisted
  <2> QED BY <1>1, <2>1, <2>2, <2>3, DocsAreReal, IdleRun DEF Leaves
<1>2. ASSUME NEW e, Settle(n, op, NoDoc, e), docs[n] = NoDoc, store[n] # NoEntry => e # NoEntry
      PROVE  Leaves(n, op)
  <2>1. run'[n] = Idle /\ docs'[n] = NoDoc /\ store'[n] = e
    BY <1>0, <1>2, SettleCells
  <2> QED BY <1>2, <2>1, IdleRun DEF Leaves
<1>3. ASSUME NEW e, Copies(n, e)
      PROVE  store[n] # NoEntry => e # NoEntry
  BY <1>3, NoteFacts, DocsAreReal, SnapshotIsReal DEF Copies
<1>4. ASSUME NEW e, NEW d \in TrackedDoc, e \in Persisted(store[n], d)
      PROVE  e # NoEntry
  BY <1>4, SnapshotIsReal DEF Persisted
<1>5. CASE Quiet(n, op)
  <2>1. PICK d \in Docs, e \in Entries : Settle(n, op, d, e) /\ Keeps(n, d) /\ Copies(n, e)
    BY <1>5 DEF Quiet
  <2>2. CASE d = NoDoc /\ docs[n] = NoDoc
    BY <1>2, <1>3, <2>1, <2>2
  <2>3. CASE Alike(docs[n], d) /\ d.mapped = docs[n].mapped
    <3>1. docs[n] # NoDoc /\ d \in TrackedDoc
      BY <2>3, DocsAreReal DEF Alike
    <3> QED BY <1>1, <1>3, <2>1, <2>3, <3>1
  <2> QED BY <2>1, <2>2, <2>3 DEF Keeps
<1>6. CASE Written(n, op)
  BY <1>1, <1>4, <1>6 DEF Written
<1>7. CASE Reseeded(n, op)
  BY <1>1, <1>4, <1>7 DEF Reseeded
<1>8. CASE Torn(n, op)
  BY <1>1, <1>8 DEF Torn
<1>9. CASE Waits(n, op, begun)
  <2>1. PICK at \in Awaits, d \in Docs, e \in Entries, provided \in Content \cup {NoDoc} :
          Await(n, op, at, d, e, provided) /\ Keeps(n, d) /\ Copies(n, e)
    BY <1>9 DEF Waits
  <2>2. /\ run'[n].op = op /\ run'[n].at = at /\ run'[n].net = "sent"
        /\ docs'[n] = d /\ store'[n] = e
    BY <1>0, <2>1, AwaitCells
  <2>3. \/ d = NoDoc /\ docs[n] = NoDoc
        \/ d # NoDoc /\ docs[n] # NoDoc /\ d.mapped = docs[n].mapped
    BY <2>1, DocsAreReal DEF Keeps, Alike
  <2>4. run'[n] # Idle
    BY <2>2, IdleRun
  <2> QED BY <1>3, <2>1, <2>2, <2>3, <2>4 DEF Leaves
<1>10. CASE Registered(n, op)
  <2>1. PICK content \in Content, tracked \in Nat \ {0}, dirty \in BOOLEAN :
          Register(n, op, content, tracked, dirty)
    BY <1>10 DEF Registered
  <2>2. docs'[n] \in TrackedDoc /\ op = "adopt" /\ docs[n] = NoDoc
    BY <1>0, <1>10, <2>1, RegisterIsReal DEF Registered
  <2>3. run'[n] = Idle /\ docs'[n].mapped /\ store'[n] = Snapshot(docs'[n])
    BY <2>1, RegisterCells
  <2> QED BY <2>2, <2>3, DocsAreReal, SnapshotIsReal, IdleRun DEF Leaves
<1>11. CASE Removed(n, op)
  BY <1>11 DEF Removed
<1> QED BY <1>5, <1>6, <1>7, <1>8, <1>9, <1>10, <1>11 DEF Kind

\* A note without a document runs at most a load.
LEMMA OnlyLoadsWithoutDoc ==
  ASSUME IInv, NEW n \in Notes, Placed(n), docs[n] = NoDoc, run[n] # Idle
  PROVE  run[n].op \in {"load", "adopt"}
<1>1. run[n].at \in Awaits
  BY NoteFacts DEF Placed, Running
<1>2. run[n].at = "loading"
  BY <1>1, NoteFacts DEF SoundNote, SoundRead
<1> QED BY <1>2 DEF Placed

\* The chain of n when a stretch of its first operation has passed.
LEMMA ChainMoves ==
  ASSUME TypeOK, NEW n \in Notes, NEW STATE op,
         \/ run[n] = Idle /\ ops[n] # <<>> /\ op = Head(ops[n]) /\ ops' = [ops EXCEPT ![n] = Tail(@)]
         \/ run[n] # Idle /\ op = run[n].op /\ ops' = ops
  PROVE  /\ Queue(n) \in Nat \ {0} /\ OpAt(n, 1) = op
         /\ \A m \in Notes \ {n} : ops'[m] = ops[m]
         /\ run'[n] # Idle /\ run'[n].op = op =>
              Queue(n)' = Queue(n) /\ \A i \in 1..Queue(n) : OpAt(n, i)' = OpAt(n, i)
         /\ run'[n] = Idle =>
              Queue(n)' = Queue(n) - 1 /\ \A i \in 1..Queue(n)' : OpAt(n, i)' = OpAt(n, i + 1)
<1> DEFINE q == ops[n]
<1>1. q \in Seq(OpKinds) /\ Len(q) \in Nat
  BY DEF TypeOK
<1>2. CASE run[n] = Idle /\ q # <<>> /\ op = Head(q) /\ ops' = [ops EXCEPT ![n] = Tail(@)]
  <2>1. ops'[n] = Tail(q) /\ \A m \in Notes \ {n} : ops'[m] = ops[m]
    BY <1>2 DEF TypeOK
  <2>2. /\ Len(q) \in Nat \ {0} /\ op = q[1] /\ Len(Tail(q)) = Len(q) - 1
        /\ \A i \in 1..Len(q) - 1 : Tail(q)[i] = q[i + 1]
    BY <1>1, <1>2
  <2> HIDE DEF q
  <2>3. Queue(n) = Len(q) /\ \A i : OpAt(n, i) = q[i]
    BY <1>1, <1>2 DEF Queue, OpAt, q
  <2>4. CASE run'[n] # Idle /\ run'[n].op = op
    <3>1. /\ Queue(n)' = Len(q) - 1 + 1
          /\ \A i : OpAt(n, i)' = IF i = 1 THEN op ELSE Tail(q)[i - 1]
      BY <2>1, <2>2, <2>4 DEF Queue, OpAt
    <3>2. ASSUME NEW i \in 1..Len(q)
          PROVE  OpAt(n, i)' = q[i]
      <4>1. CASE i = 1
        BY <2>2, <3>1, <4>1
      <4>2. CASE i # 1
        <5>1. i - 1 \in 1..Len(q) - 1 /\ (i - 1) + 1 = i
          BY <2>2, <4>2
        <5> QED BY <2>2, <3>1, <4>2, <5>1
      <4> QED BY <4>1, <4>2
    <3>3. Queue(n)' = Queue(n) /\ Queue(n) = Len(q) /\ Queue(n) \in Nat \ {0}
      BY <2>2, <2>3, <3>1
    <3>4. OpAt(n, 1) = op /\ \A i \in 1..Queue(n) : OpAt(n, i)' = OpAt(n, i)
      BY <2>2, <2>3, <3>2, <3>3
    <3> QED BY <2>1, <2>4, <3>3, <3>4
  <2>5. CASE run'[n] = Idle
    <3>1. Queue(n)' = Len(q) - 1 /\ \A i : OpAt(n, i)' = Tail(q)[i]
      BY <2>1, <2>2, <2>5 DEF Queue, OpAt
    <3> QED BY <2>1, <2>2, <2>3, <2>5, <3>1
  <2> QED BY <2>1, <2>2, <2>3, <2>4, <2>5
<1>3. CASE run[n] # Idle /\ op = run[n].op /\ ops' = ops
  <2> HIDE DEF q
  <2>1. /\ Queue(n) = Len(q) + 1
        /\ \A i : OpAt(n, i) = IF i = 1 THEN op ELSE q[i - 1]
    BY <1>3 DEF Queue, OpAt, q
  <2>2. CASE run'[n] # Idle /\ run'[n].op = op
    <3>1. Queue(n)' = Len(q) + 1 /\ \A i : OpAt(n, i)' = IF i = 1 THEN op ELSE q[i - 1]
      BY <1>3, <2>2 DEF Queue, OpAt, q
    <3> QED BY <1>1, <1>3, <2>1, <2>2, <3>1
  <2>3. CASE run'[n] = Idle
    <3>1. Queue(n)' = Len(q) /\ \A i : OpAt(n, i)' = q[i]
      BY <1>1, <1>3, <2>3 DEF Queue, OpAt, q
    <3>2. \A i \in 1..Len(q) : i + 1 # 1 /\ (i + 1) - 1 = i
      BY <1>1
    <3> QED BY <1>1, <1>3, <2>1, <2>3, <3>1, <3>2
  <2> QED BY <1>1, <1>3, <2>1, <2>2, <2>3
<1> QED BY <1>2, <1>3

\* Such a stretch of an operation moves what the hook awaits one place ahead, when it
\* ends the operation.
LEMMA AheadMoves ==
  ASSUME EngineInv, EngineKept, NEW n \in Notes, Queue(n) \in Nat, Queue(n)' \in Nat
  PROVE  /\ engine'[n] \in EngineDoc /\ engine'[n].at = engine[n].at
         /\ engine'[n].conns = engine[n].conns
         /\ engine'[n].ahead = IF Queue(n)' < Queue(n) /\ engine[n].ahead > 0
                                 THEN engine[n].ahead - 1 ELSE engine[n].ahead
<1> DEFINE e == engine[n]
<1>1. e \in EngineDoc
  BY DEF EngineInv
<1>2. engine'[n] = IF Queue(n)' < Queue(n) /\ e.ahead > 0 THEN [e EXCEPT !.ahead = @ - 1] ELSE e
  BY DEF EngineKept
<1> HIDE DEF e
<1>3. CASE Queue(n)' < Queue(n) /\ e.ahead > 0
  <2>1. engine'[n] = [e EXCEPT !.ahead = e.ahead - 1]
    BY <1>2, <1>3
  <2> QED BY <1>1, <1>3, <2>1 DEF EngineDoc, e
<1>4. CASE ~(Queue(n)' < Queue(n) /\ e.ahead > 0)
  BY <1>1, <1>2, <1>4 DEF e
<1> QED BY <1>3, <1>4

\* After a stretch the chain of n is as it must be again.
LEMMA StretchChained ==
  ASSUME CollabInv, NEW n \in Notes, EngineKept, NEW STATE op,
         \/ run[n] = Idle /\ ops[n] # <<>> /\ op = Head(ops[n]) /\ ops' = [ops EXCEPT ![n] = Tail(@)]
         \/ run[n] # Idle /\ op = run[n].op /\ ops' = ops,
         run'[n] = Idle \/ run'[n].op = op
  PROVE  /\ Chained(n)' /\ engine'[n] \in EngineDoc /\ engine'[n].at = engine[n].at
         /\ engine'[n].conns = engine[n].conns
         /\ engine'[n].ahead = IF run'[n] = Idle /\ engine[n].ahead > 0
                                 THEN engine[n].ahead - 1 ELSE engine[n].ahead
         /\ IF engine[n].ahead = 1 THEN op = Hooked(engine[n].at) ELSE op \in Plain
         /\ \A m \in Notes \ {n} : ops'[m] = ops[m]
<1> DEFINE a == engine[n].ahead
           b == engine'[n].ahead
           h == Hooked(engine[n].at)
<1>1. TypeOK /\ EngineInv /\ Chained(n) /\ a \in Nat
  BY DEF CollabInv, IInv, Descent, EngineInv, EngineDoc, Fits
<1>2. /\ Queue(n) \in Nat \ {0} /\ OpAt(n, 1) = op
      /\ \A m \in Notes \ {n} : ops'[m] = ops[m]
      /\ run'[n] # Idle =>
           Queue(n)' = Queue(n) /\ \A i \in 1..Queue(n) : OpAt(n, i)' = OpAt(n, i)
      /\ run'[n] = Idle =>
           Queue(n)' = Queue(n) - 1 /\ \A i \in 1..Queue(n)' : OpAt(n, i)' = OpAt(n, i + 1)
  BY <1>1, ChainMoves
<1>3. Queue(n)' \in Nat /\ (Queue(n)' < Queue(n) <=> run'[n] = Idle)
  BY <1>2
<1>4. /\ engine'[n] \in EngineDoc /\ engine'[n].at = engine[n].at
      /\ engine'[n].conns = engine[n].conns
      /\ b = IF run'[n] = Idle /\ a > 0 THEN a - 1 ELSE a
  BY <1>1, <1>2, <1>3, AheadMoves
<1>5. /\ a <= Queue(n)
      /\ \A i \in 1..Queue(n) : IF i = a THEN OpAt(n, i) = h ELSE OpAt(n, i) \in Plain
  BY <1>1 DEF Chained
<1>6. Hooked(engine[n].at)' = h
  BY <1>4 DEF Hooked
<1> HIDE DEF a, b, h
<1>7. b <= Queue(n)'
  BY <1>1, <1>2, <1>3, <1>4, <1>5
<1>8. ASSUME NEW i \in 1..Queue(n)'
      PROVE  IF i = b THEN OpAt(n, i)' = h ELSE OpAt(n, i)' \in Plain
  <2>1. CASE run'[n] # Idle
    BY <1>1, <1>2, <1>4, <1>5, <2>1
  <2>2. CASE run'[n] = Idle
    <3>1. i + 1 \in 1..Queue(n) /\ OpAt(n, i)' = OpAt(n, i + 1) /\ i \in Nat
      BY <1>2, <1>3, <2>2
    <3>2. i = b <=> i + 1 = a
      BY <1>1, <1>4, <2>2, <3>1
    <3> QED BY <1>5, <3>1, <3>2
  <2> QED BY <2>1, <2>2
<1>9. Chained(n)'
  BY <1>6, <1>7, <1>8 DEF Chained, b
<1>10. IF a = 1 THEN op = h ELSE op \in Plain
  <2>1. 1 \in 1..Queue(n)
    BY <1>2
  <2> QED BY <1>1, <1>2, <1>5, <2>1
<1> QED BY <1>2, <1>4, <1>9, <1>10 DEF a, b, h

\* And where the engine has the document, the reconciler has it or not as before, or
\* the hook that awaits the operation may go on.
LEMMA StretchHolds ==
  ASSUME CollabInv, NEW n \in Notes, IInv', Placed(n)', NEW STATE op, Leaves(n, op),
         engine'[n].at = engine[n].at, engine'[n].conns = engine[n].conns,
         engine'[n].ahead = IF run'[n] = Idle /\ engine[n].ahead > 0
                              THEN engine[n].ahead - 1 ELSE engine[n].ahead,
         IF engine[n].ahead = 1 THEN op = Hooked(engine[n].at) ELSE op \in Plain,
         engine[n].at = "readopting" /\ op = "adopt" => docs'[n] # NoDoc /\ run'[n] = Idle
  PROVE  EngineHolds(n)'
<1> DEFINE e == engine[n]
           f == engine'[n]
<1>1. /\ EngineHolds(n) /\ e \in EngineDoc /\ e.ahead \in Nat
      /\ docs[n] = NoDoc /\ run[n] # Idle => run[n].op \in {"load", "adopt"}
  BY OnlyLoadsWithoutDoc DEF CollabInv, EngineInv, EngineDoc, Places, Fits
<1>2. docs'[n] = NoDoc /\ run'[n] # Idle => run'[n].op \in {"load", "adopt"}
  <2>1. Placed(n)' /\ IInv'
    OBVIOUS
  <2>2. run'[n].at \in Awaits \cup {"idle"}
    BY <2>1 DEF IInv, Descent, TypeOK, Running
  <2>3. run'[n].at \in Awaits \ {"loading"} => docs'[n] # NoDoc
    BY <2>1 DEF IInv, Descent, Lineage, SoundNote, SoundRead
  <2> QED BY <2>1, <2>2, <2>3 DEF Placed
<1>3. /\ op \in Plain => op \notin {"load", "adopt", "uflush"}
      /\ e.ahead = 1 /\ e.at = "unloading" => op = "uflush"
      /\ e.ahead = 1 /\ e.at \in {"opening", "readopting"} => op = "adopt"
      /\ e.ahead = 1 /\ e.at \notin {"unloading", "opening", "readopting"} => op = "flush"
      /\ e.ahead # 1 => op \in Plain
  BY DEF Plain, Hooked
<1>4. /\ f.at = e.at /\ f.conns = e.conns
      /\ f.ahead = IF run'[n] = Idle /\ e.ahead > 0 THEN e.ahead - 1 ELSE e.ahead
      /\ e.at = "readopting" /\ op = "adopt" => docs'[n] # NoDoc /\ run'[n] = Idle
  OBVIOUS
<1> HIDE DEF e, f
<1>5. docs'[n] # NoDoc => docs'[n].mapped
  BY DEF Leaves
<1>6. f.at = "absent" => f.ahead = 0 /\ docs'[n] = NoDoc
  BY <1>1, <1>3, <1>4 DEF EngineHolds, Leaves, e
<1>7. f.at = "opening" => f.conns > 0 /\ (f.ahead > 0 => docs'[n] = NoDoc)
  BY <1>1, <1>3, <1>4 DEF EngineHolds, Leaves, e
<1>8. f.at = "open" => f.conns > 0 /\ f.ahead = 0 /\ docs'[n] # NoDoc
  BY <1>1, <1>3, <1>4 DEF EngineHolds, Leaves, e
<1>9. f.at = "storing" => docs'[n] # NoDoc
  BY <1>1, <1>3, <1>4 DEF EngineHolds, Leaves, e
<1>10. f.at = "unloading" =>
         IF f.ahead > 0 THEN docs'[n] # NoDoc ELSE docs'[n] = NoDoc /\ store'[n] # NoEntry
  BY <1>1, <1>3, <1>4 DEF EngineHolds, Leaves, e
<1>11. f.at = "readopting" =>
         /\ f.conns > 0
         /\ IF f.ahead > 0 THEN docs'[n] = NoDoc /\ store'[n] # NoEntry /\ run'[n] = Idle
                           ELSE docs'[n] # NoDoc
  <2> SUFFICES ASSUME f.at = "readopting"
               PROVE  /\ f.conns > 0
                      /\ IF f.ahead > 0 THEN docs'[n] = NoDoc /\ store'[n] # NoEntry /\ run'[n] = Idle
                                        ELSE docs'[n] # NoDoc
    OBVIOUS
  <2>1. CASE e.ahead = 0
    BY <1>1, <1>3, <1>4, <2>1 DEF EngineHolds, Leaves, e
  <2>2. CASE e.ahead = 1
    BY <1>1, <1>3, <1>4, <2>2 DEF EngineHolds, Leaves, e
  <2>3. CASE e.ahead > 1
    <3>1. docs[n] = NoDoc /\ store[n] # NoEntry /\ op \in Plain
      BY <1>1, <1>3, <1>4, <2>3 DEF EngineHolds, e
    <3>2. docs'[n] = NoDoc /\ store'[n] # NoEntry /\ run'[n] = Idle
      BY <1>2, <1>3, <3>1 DEF Leaves
    <3> QED BY <1>1, <1>4, <2>3, <3>2 DEF EngineHolds, e
  <2> QED BY <1>1, <2>1, <2>2, <2>3
<1> QED BY <1>5, <1>6, <1>7, <1>8, <1>9, <1>10, <1>11 DEF EngineHolds, f

\* A note that a step does not touch is as it was.
LEMMA UntouchedFits ==
  ASSUME NEW m \in Notes, Fits(m), engine'[m] = engine[m], ops'[m] = ops[m], run'[m] = run[m],
         docs'[m] = docs[m], store'[m] = store[m], scope'[m] = scope[m]
  PROVE  Fits(m)'
<1>1. InScope(m)'
  BY DEF Fits, InScope
<1>2. Chained(m)'
  BY DEF Fits, Chained, Queue, OpAt
<1>3. EngineHolds(m)'
  BY DEF Fits, EngineHolds
<1> QED BY <1>1, <1>2, <1>3 DEF Fits

\* Nor does the engine move on for a note whose chain is as long as it was.
LEMMA EngineStays ==
  ASSUME TypeOK, EngineInv, EngineKept, NEW m \in Notes, ops'[m] = ops[m], run'[m] = run[m]
  PROVE  engine'[m] = engine[m]
<1>1. Queue(m)' = Queue(m)
  BY DEF Queue
<1>2. ~(Queue(m)' < Queue(m))
  BY <1>1 DEF Queue, TypeOK
<1> QED BY <1>2 DEF EngineKept

\* A load whose document the snapshot knows is registered at once.
LEMMA ReadoptRegisters ==
  ASSUME IInv, NEW n \in Notes, docs[n] = NoDoc, store[n] # NoEntry, NEW STATE op,
         op = "adopt", BeginLoad(n, op)
  PROVE  docs'[n] # NoDoc /\ run'[n] = Idle
<1> DEFINE provided == IF op = "adopt" THEN loose[n] ELSE NoDoc
           content  == IF provided = NoDoc THEN store[n].blob ELSE provided
<1>1. /\ TypeOK /\ store[n] \in Entry /\ loose[n] \in Content \cup {NoDoc}
  BY NoteFacts DEF Entries
<1>2. Register(n, op, content, store[n].sourceVersion, store[n].dirty)
  BY DEF BeginLoad, Tracked
<1>3. content \in Content /\ store[n].sourceVersion \in Nat \ {0} /\ store[n].dirty \in BOOLEAN
  BY <1>1 DEF Entry
<1> HIDE DEF content
<1> QED BY <1>1, <1>2, <1>3, RegisterIsReal, RegisterCells, DocsAreReal

\* A stretch of an operation.
LEMMA StretchKept ==
  ASSUME CollabInv, ~Fault("store"), NEW n \in Notes, Begin(n) \/ Reply(n), EngineKept
  PROVE  CollabInv'
<1> DEFINE op == IF run[n] = Idle THEN Head(ops[n]) ELSE run[n].op
<1>1. IInv' /\ Places'
  BY NextInv, PlacesKept DEF CollabInv, Next
<1>2. /\ IInv /\ Placed(n) /\ EngineInv /\ Fits(n) /\ TypeOK
      /\ docs[n] # NoDoc => docs[n].mapped
      /\ run[n].net # "missing"
  BY DEF CollabInv, Places, EngineInv, Fits, InScope, EngineHolds, IInv, Descent
<1>3. /\ UNCHANGED <<vaultVars, streamVars>>
      /\ \/ run[n] = Idle /\ ops[n] # <<>> /\ op = Head(ops[n]) /\ ops' = [ops EXCEPT ![n] = Tail(@)]
         \/ run[n] # Idle /\ op = run[n].op /\ ops' = ops
      /\ \E begun : Kind(n, op, begun)
  <2>1. CASE Begin(n)
    BY <1>2, <2>1, BeginKind DEF Begin
  <2>2. CASE Reply(n)
    <3>1. run[n] # Idle /\ UNCHANGED Elsewhere
      BY <2>2, IdleRun DEF Reply, LoadReply, CheckReply, RevalidateReply, WriteReply, WinnerReply,
                           Answered
    <3> QED BY <1>2, <2>2, <3>1, ReplyKind DEF Elsewhere
  <2> QED BY <2>1, <2>2
<1>4. PICK begun : Kind(n, op, begun)
  BY <1>3
<1>5. /\ Others(n)
  BY <1>2, <1>4, KindPlaced
<1>6. Queue(n) \in Nat \ {0} /\ OpAt(n, 1) = op
  BY <1>2, <1>3, ChainMoves
<1>7. op \in {"flush", "check", "uflush", "adopt"}
  <2>1. 1 \in 1..Queue(n)
    BY <1>6
  <2> QED BY <1>2, <1>6, <2>1 DEF Fits, Chained, Hooked, Plain
<1>8. op # "load" /\ op # "removed" /\ (docs[n] # NoDoc => docs[n].mapped)
  BY <1>2, <1>7
<1>9. engine[n].at = "readopting" /\ op = "adopt" => docs'[n] # NoDoc /\ run'[n] = Idle
  <2> SUFFICES ASSUME engine[n].at = "readopting", op = "adopt"
               PROVE  docs'[n] # NoDoc /\ run'[n] = Idle
    OBVIOUS
  <2>1. engine[n].ahead = 1
    <3>1. 1 \in 1..Queue(n) /\ op \notin Plain
      BY <1>6 DEF Plain
    <3> QED BY <1>2, <1>6, <3>1 DEF Fits, Chained
  <2>2. docs[n] = NoDoc /\ store[n] # NoEntry /\ run[n] = Idle
    BY <1>2, <2>1 DEF Fits, EngineHolds
  <2>3. Begin(n)
    BY <2>2, IdleRun DEF Reply, LoadReply, CheckReply, RevalidateReply, WriteReply, WinnerReply,
                         Answered
  <2>4. BeginLoad(n, "adopt")
    BY <2>2, <2>3 DEF Begin
  <2> HIDE DEF op
  <2> QED BY <1>2, <2>2, <2>4, ReadoptRegisters
<1> HIDE DEF op
<1>10. Leaves(n, op)
  BY <1>2, <1>4, <1>8, KindLeaves
<1>11. run'[n] = Idle \/ run'[n].op = op
  BY <1>10 DEF Leaves
<1>12. /\ Chained(n)' /\ engine'[n] \in EngineDoc /\ engine'[n].at = engine[n].at
       /\ engine'[n].conns = engine[n].conns
       /\ engine'[n].ahead = IF run'[n] = Idle /\ engine[n].ahead > 0
                                 THEN engine[n].ahead - 1 ELSE engine[n].ahead
       /\ IF engine[n].ahead = 1 THEN op = Hooked(engine[n].at) ELSE op \in Plain
       /\ \A m \in Notes \ {n} : ops'[m] = ops[m]
  BY <1>3, <1>11, StretchChained
<1>13. EngineHolds(n)'
  BY <1>1, <1>9, <1>10, <1>12, StretchHolds DEF Places
<1>14. Fits(n)'
  <2>1. scope' = scope /\ run'[n].net # "missing"
    BY <1>3, <1>10 DEF vaultVars, Leaves
  <2> QED BY <1>2, <1>12, <1>13, <2>1 DEF Fits, InScope
<1>15. ASSUME NEW m \in Notes \ {n}
       PROVE  Fits(m)' /\ engine'[m] = engine[m]
  <2>1. /\ ops'[m] = ops[m] /\ run'[m] = run[m] /\ docs'[m] = docs[m] /\ store'[m] = store[m]
        /\ scope'[m] = scope[m] /\ Fits(m)
    BY <1>2, <1>3, <1>5, <1>12 DEF Others, vaultVars, EngineInv
  <2>2. engine'[m] = engine[m]
    BY <1>2, <2>1, EngineStays
  <2> QED BY <2>1, <2>2, UntouchedFits
<1>16. engine' \in [Notes -> EngineDoc]
  <2>1. engine' = [m \in Notes |-> engine'[m]]
    BY DEF EngineKept
  <2>2. \A m \in Notes : engine'[m] \in EngineDoc
    BY <1>2, <1>12, <1>15 DEF EngineInv
  <2> QED BY <2>1, <2>2
<1>17. Told'
  BY <1>2, <1>3 DEF EngineInv, Told, streamVars
<1> QED BY <1>1, <1>14, <1>15, <1>16, <1>17 DEF CollabInv, EngineInv

-----------------------------------------------------------------------------
(* The network, the timers, the stream and the clients.                    *)

\* What a document may become while it stays tracked.
SameDoc(m) ==
  \/ docs'[m] = docs[m]
  \/ docs[m] # NoDoc /\ docs'[m] # NoDoc /\ (docs[m].mapped => docs'[m].mapped)

\* What one more operation does to a chain.
LEMMA QueueGrows ==
  ASSUME TypeOK, NEW m \in Notes, run'[m] = Idle <=> run[m] = Idle, run'[m].op = run[m].op
  PROVE  /\ Queue(m) \in Nat
         /\ ops'[m] = ops[m] => Queue(m)' = Queue(m) /\ \A i : OpAt(m, i)' = OpAt(m, i)
         /\ \A x \in OpKinds : ops'[m] = Append(ops[m], x) =>
              /\ Queue(m)' = Queue(m) + 1
              /\ \A i \in 1..Queue(m)' :
                   OpAt(m, i)' = IF i = Queue(m)' THEN x ELSE OpAt(m, i)
<1> DEFINE q == ops[m]
           p == ops'[m]
<1>1. q \in Seq(OpKinds) /\ Len(q) \in Nat
  BY DEF TypeOK
<1> HIDE DEF p, q
<1>2. /\ Queue(m) = Len(q) + (IF run[m] = Idle THEN 0 ELSE 1)
      /\ Queue(m)' = Len(p) + (IF run[m] = Idle THEN 0 ELSE 1)
  BY DEF Queue, p, q
<1>3. /\ \A i : OpAt(m, i) =
           IF run[m] = Idle THEN q[i] ELSE IF i = 1 THEN run[m].op ELSE q[i - 1]
      /\ \A i : OpAt(m, i)' =
           IF run[m] = Idle THEN p[i] ELSE IF i = 1 THEN run[m].op ELSE p[i - 1]
  BY DEF OpAt, p, q
<1>4. p = q => Queue(m)' = Queue(m) /\ \A i : OpAt(m, i)' = OpAt(m, i)
  BY <1>2, <1>3
<1>5. ASSUME NEW x \in OpKinds, p = Append(q, x)
      PROVE  /\ Queue(m)' = Queue(m) + 1
             /\ \A i \in 1..Queue(m)' :
                  OpAt(m, i)' = IF i = Queue(m)' THEN x ELSE OpAt(m, i)
  <2>1. /\ Len(p) = Len(q) + 1 /\ p[Len(q) + 1] = x
        /\ \A i \in 1..Len(q) : p[i] = q[i]
    BY <1>1, <1>5
  <2>2. CASE run[m] = Idle
    BY <1>1, <1>2, <1>3, <2>1, <2>2
  <2>3. CASE run[m] # Idle
    <3>1. Queue(m) = Len(q) + 1 /\ Queue(m)' = Len(q) + 2
      BY <1>1, <1>2, <2>1, <2>3
    <3>2. ASSUME NEW i \in 1..Queue(m)'
          PROVE  OpAt(m, i)' = IF i = Queue(m)' THEN x ELSE OpAt(m, i)
      <4>1. i = 1 \/ i - 1 = Len(q) + 1 \/ i - 1 \in 1..Len(q)
        BY <1>1, <3>1
      <4> QED BY <1>1, <1>3, <2>1, <2>3, <3>1, <4>1
    <3> QED BY <1>1, <3>1, <3>2
  <2> QED BY <2>2, <2>3
<1>6. Queue(m) \in Nat
  BY <1>1, <1>2
<1> QED BY <1>4, <1>5, <1>6 DEF p, q

\* One more flush or check at the end of a chain disturbs no hook.
LEMMA PlainFits ==
  ASSUME TypeOK, EngineInv, NEW m \in Notes, engine'[m] = engine[m], run'[m] = run[m],
         store'[m] = store[m], scope'[m] = scope[m], SameDoc(m),
         ops'[m] = ops[m] \/ \E x \in Plain : ops'[m] = Append(ops[m], x)
  PROVE  Fits(m)'
<1>1. Fits(m) /\ ops[m] \in Seq(OpKinds) /\ Len(ops[m]) \in Nat /\ engine[m].ahead \in Nat
  BY DEF EngineInv, EngineDoc, TypeOK
<1>2. InScope(m)'
  BY <1>1 DEF Fits, InScope
<1>3. EngineHolds(m)'
  BY <1>1 DEF Fits, EngineHolds, SameDoc
<1>4. Chained(m)'
  <2>1. CASE ops'[m] = ops[m]
    BY <1>1, <2>1 DEF Fits, Chained, Queue, OpAt
  <2>2. ASSUME NEW x \in Plain, ops'[m] = Append(ops[m], x)
        PROVE  Chained(m)'
    <3>1. x \in OpKinds
      BY DEF Plain, OpKinds
    <3>2. /\ Queue(m) \in Nat /\ Queue(m)' = Queue(m) + 1
          /\ \A i \in 1..Queue(m)' : OpAt(m, i)' = IF i = Queue(m)' THEN x ELSE OpAt(m, i)
      BY <2>2, <3>1, QueueGrows
    <3>3. engine[m].ahead <= Queue(m) /\ Hooked(engine[m].at)' = Hooked(engine[m].at)
      BY <1>1 DEF Fits, Chained, Hooked
    <3>4. ASSUME NEW i \in 1..Queue(m)'
          PROVE  IF i = engine[m].ahead THEN OpAt(m, i)' = Hooked(engine[m].at)
                                        ELSE OpAt(m, i)' \in Plain
      <4>1. CASE i = Queue(m) + 1
        BY <1>1, <2>2, <3>2, <3>3, <4>1
      <4>2. CASE i \in 1..Queue(m)
        BY <1>1, <3>2, <4>2 DEF Fits, Chained
      <4> QED BY <3>2, <4>1, <4>2
    <3> QED BY <1>1, <3>2, <3>3, <3>4 DEF Chained
  <2> QED BY <2>1, <2>2
<1> QED BY <1>2, <1>3, <1>4 DEF Fits

\* Nor does it move the engine.
LEMMA EngineStaysPut ==
  ASSUME TypeOK, EngineInv, EngineKept, \A m \in Notes : run'[m] = run[m] /\
           (ops'[m] = ops[m] \/ \E x \in Plain : ops'[m] = Append(ops[m], x))
  PROVE  engine' = engine
<1>1. ASSUME NEW m \in Notes
      PROVE  ~(Queue(m)' < Queue(m))
  <2>1. Plain \subseteq OpKinds
    BY DEF Plain, OpKinds
  <2> QED BY <2>1, QueueGrows
<1> QED BY <1>1 DEF EngineKept, EngineInv

\* The vault and the network.
LEMMA NetworkKept ==
  ASSUME CollabInv, NEW n \in Notes, Environment(n), EngineKept
  PROVE  CollabInv'
<1>1. IInv' /\ Places'
  BY NextInv, PlacesKept DEF CollabInv, Next, Environment
<1>2. TypeOK /\ IInv /\ EngineInv /\ Told /\ InScope(n)
  BY DEF CollabInv, IInv, Descent, EngineInv, Fits
<1>3. Distant
  BY <1>2, NetworkIsDistant DEF Environment
<1>4. scope' = scope
  BY DEF Environment, ExternalEdit, ServeGet, ServePut, LoseRequest, LandStray, Untouched
<1>5. ASSUME NEW m \in Notes
      PROVE  /\ run'[m].op = run[m].op /\ (run'[m] = Idle <=> run[m] = Idle)
             /\ ops'[m] = ops[m] /\ docs'[m] = docs[m] /\ store'[m] = store[m]
  BY <1>3, IdleRun DEF Distant
<1>6. engine' = engine
  <2>1. ASSUME NEW m \in Notes
        PROVE  ~(Queue(m)' < Queue(m))
    BY <1>2, <1>5, QueueGrows
  <2> QED BY <1>2, <2>1 DEF EngineKept, EngineInv
<1>7. ASSUME NEW net, NEW ver, Answer(n, net, ver), net # "missing", NEW m \in Notes, InScope(m)
      PROVE  run'[m].net # "missing"
  <2>1. run[n] \in Running /\ run' = [run EXCEPT ![n] = [[run[n] EXCEPT !.net = net] EXCEPT !.ver = ver]]
    BY <1>2, <1>7 DEF Answer, TypeOK
  <2>2. run'[n].net = net
    BY <1>2, <2>1 DEF Running, TypeOK
  <2>3. m # n => run'[m] = run[m]
    BY <1>2, <2>1 DEF TypeOK
  <2> QED BY <1>7, <2>2, <2>3 DEF InScope
<1>8. ASSUME NEW m \in Notes
      PROVE  Fits(m)'
  <2>1. Fits(m)
    BY <1>2 DEF EngineInv
  <2>2. InScope(m)'
    <3>1. run'[m].net # "missing"
      <4>1. CASE ServeGet(n)
        <5>1. Answer(n, "note", Version(n))
          BY <1>2, <4>1 DEF ServeGet, InScope
        <5> QED BY <1>7, <2>1, <5>1 DEF Fits
      <4>2. CASE ServePut(n) \/ LoseRequest(n)
        <5>1. Answer(n, "note", Version(n) + 1) \/ Answer(n, "conflict", 0) \/ Answer(n, "error", 0)
          BY <4>2 DEF ServePut, LoseRequest
        <5> QED BY <1>7, <2>1, <5>1 DEF Fits
      <4>3. CASE ExternalEdit(n) \/ LandStray(n)
        <5>1. run'[m] = run[m]
          BY <4>3 DEF ExternalEdit, LandStray, machineVars
        <5> QED BY <2>1, <5>1 DEF Fits, InScope
      <4> QED BY <4>1, <4>2, <4>3 DEF Environment
    <3> QED BY <1>4, <2>1, <3>1 DEF Fits, InScope
  <2>3. Chained(m)'
    <3>1. Queue(m)' = Queue(m) /\ \A i : OpAt(m, i)' = OpAt(m, i)
      BY <1>2, <1>5, QueueGrows
    <3> QED BY <1>6, <2>1, <3>1 DEF Fits, Chained
  <2>4. EngineHolds(m)'
    BY <1>5, <1>6, <2>1 DEF Fits, EngineHolds
  <2> QED BY <2>2, <2>3, <2>4 DEF Fits
<1>9. Told'
  <2>1. Version(n) + 1 # 0
    BY <1>2 DEF Version, TypeOK
  <2>2. ASSUME NEW x, Commit(n, x)
        PROVE  Emit(n, Version(n) + 1) \/ chan' = chan
    BY <2>2 DEF Commit
  <2>3. Emit(n, Version(n) + 1) \/ chan' = chan
    BY <2>2 DEF Environment, ExternalEdit, ServeGet, ServePut, LoseRequest, LandStray
  <2> QED BY <1>2, <2>1, <2>3, EmitTold
<1> QED BY <1>1, <1>2, <1>6, <1>8, <1>9 DEF CollabInv, EngineInv

\* Timers, the stream and the edits of clients leave the engine alone, and queue
\* flushes and checks only.
LEMMA NearbyKept ==
  ASSUME CollabInv, IInv', Places', engine' \in [Notes -> EngineDoc], Told', run' = run,
         store' = store, scope' = scope,
         \A m \in Notes : /\ engine'[m] = engine[m] /\ SameDoc(m)
                          /\ ops'[m] = ops[m] \/ \E x \in Plain : ops'[m] = Append(ops[m], x)
  PROVE  CollabInv'
<1>1. ASSUME NEW m \in Notes
      PROVE  Fits(m)'
  BY PlainFits DEF CollabInv, IInv, Descent
<1> QED BY <1>1 DEF CollabInv, EngineInv

\* Documents that differ in timer or bits only.
LEMMA NearbySame ==
  ASSUME Nearby, NEW m \in Notes
  PROVE  SameDoc(m)
BY DocsAreReal DEF Nearby, SameDoc, Alike

\* A flush is queued: what it does to the cells.
LEMMA QueueFlushCells ==
  ASSUME IInv, NEW n \in Notes, NEW op \in FlushOps, QueueFlush(n, op)
  PROVE  /\ \A m \in Notes : SameDoc(m)
         /\ ops'[n] = Append(ops[n], op) /\ \A m \in Notes \ {n} : ops'[m] = ops[m]
         /\ docs[n] # NoDoc
         /\ UNCHANGED <<vaultVars, streamVars, run, store>>
<1>1. /\ \A m \in Notes : SameDoc(m)
  BY QueueFlushIsNearby, NearbySame
<1> QED BY <1>1, NoteFacts DEF QueueFlush, Enqueue, TypeOK, Tracked

\* A timer fires.
LEMMA TimerKept ==
  ASSUME CollabInv, NEW n \in Notes, TimerFires(n), EngineKept
  PROVE  CollabInv'
<1>1. IInv' /\ Places' /\ IInv /\ TypeOK /\ EngineInv
  BY NextInv, PlacesKept DEF CollabInv, Next, IInv, Descent
<1>2. QueueFlush(n, "flush") /\ "flush" \in FlushOps
  BY DEF TimerFires, FlushOps
<1>3. /\ \A m \in Notes : SameDoc(m)
      /\ ops'[n] = Append(ops[n], "flush") /\ \A m \in Notes \ {n} : ops'[m] = ops[m]
      /\ UNCHANGED <<vaultVars, streamVars, run, store>>
  BY <1>1, <1>2, QueueFlushCells
<1>4. \A m \in Notes : ops'[m] = ops[m] \/ \E x \in Plain : ops'[m] = Append(ops[m], x)
  BY <1>3 DEF Plain
<1>5. engine' = engine /\ engine' \in [Notes -> EngineDoc]
  BY <1>1, <1>3, <1>4, EngineStaysPut DEF EngineInv
<1>6. Told' /\ scope' = scope
  BY <1>1, <1>3 DEF EngineInv, Told, streamVars, vaultVars
<1> QED BY <1>1, <1>3, <1>4, <1>5, <1>6, NearbyKept

\* The stream starts, connects or drops.
LEMMA StreamKept ==
  ASSUME CollabInv, Start \/ Connect \/ Disconnect, EngineKept
  PROVE  CollabInv'
<1>1. IInv' /\ Places' /\ IInv /\ TypeOK /\ EngineInv
  BY NextInv, PlacesKept DEF CollabInv, Next, IInv, Descent
<1>2. UNCHANGED <<run, store, scope, ops, docs>>
  BY DEF Start, Connect, Disconnect, vaultVars, machineVars
<1>3. engine' = engine /\ engine' \in [Notes -> EngineDoc]
  BY <1>1, <1>2, EngineStaysPut DEF EngineInv
<1>4. Told'
  <2>1. CASE Start
    BY <1>1, <2>1 DEF Start, EngineInv, Told
  <2>2. CASE Disconnect
    <3>1. chan' = <<>>
      BY <2>2 DEF Disconnect
    <3> QED BY <3>1 DEF Told
  <2>3. CASE Connect
    <3> DEFINE ev == [snapshot |-> TRUE, about |-> Notes,
                      vers |-> [n \in Notes |-> IF scope[n] = "tagged" THEN Version(n) ELSE 0]]
    <3>1. chan' = <<ev>>
      BY <2>3 DEF Connect
    <3>2. \A n \in ev.about : ev.vers[n] # 0
      BY <1>1 DEF EngineInv, Fits, InScope, Version, TypeOK
    <3> HIDE DEF ev
    <3> QED BY <3>1, <3>2 DEF Told
  <2> QED BY <2>1, <2>2, <2>3
<1>5. \A m \in Notes : SameDoc(m)
  BY <1>2 DEF SameDoc
<1> QED BY <1>1, <1>2, <1>3, <1>4, <1>5, NearbyKept

\* An event is delivered.
LEMMA DeliverKept ==
  ASSUME CollabInv, Deliver, EngineKept
  PROVE  CollabInv'
<1> DEFINE ev == Head(chan)
           seen  == {n \in ev.about : Tracked(n) /\ ev.vers[n] # 0}
           check == {n \in seen : ev.vers[n] # docs[n].tracked /\ ~docs[n].checkQueued}
           gone  == {n \in ev.about : Tracked(n) /\ ev.vers[n] = 0}
<1>1. IInv' /\ Places' /\ IInv /\ TypeOK /\ EngineInv
  BY NextInv, PlacesKept DEF CollabInv, Next, IInv, Descent
<1>2. /\ UNCHANGED <<run, store, scope>> /\ chan # <<>> /\ chan' = Tail(chan)
      /\ ops' = [n \in Notes |-> CASE n \in check -> Append(ops[n], "check")
                                   [] n \in gone  -> Append(ops[n], "removed")
                                   [] OTHER       -> ops[n]]
  BY DEF Deliver, vaultVars
<1>3. chan \in Seq(Event) /\ Told /\ ev = chan[1] /\ 1 \in 1..Len(chan)
  BY <1>1, <1>2 DEF EngineInv, TypeOK
<1>4. gone = {}
  BY <1>3 DEF Told
<1> HIDE DEF ev, seen, check, gone
<1>5. \A m \in Notes : ops'[m] = ops[m] \/ \E x \in Plain : ops'[m] = Append(ops[m], x)
  BY <1>2, <1>4 DEF Plain
<1>6. engine' = engine /\ engine' \in [Notes -> EngineDoc]
  BY <1>1, <1>2, <1>5, EngineStaysPut DEF EngineInv
<1>7. Told'
  <2>1. \A i \in 1..Len(Tail(chan)) : i + 1 \in 1..Len(chan) /\ Tail(chan)[i] = chan[i + 1]
    BY <1>2, <1>3
  <2> QED BY <1>2, <1>3, <2>1 DEF Told
<1>8. \A m \in Notes : SameDoc(m)
  BY <1>1, DeliverIsNearby, NearbySame
<1> QED BY <1>1, <1>2, <1>5, <1>6, <1>7, <1>8, NearbyKept

\* A client edits, or the engine's debounce stores.
LEMMA EditKept ==
  ASSUME CollabInv, NEW n \in Notes, LocalEdit(n) \/ Flush(n), UNCHANGED engine
  PROVE  CollabInv'
<1>1. IInv' /\ Places' /\ IInv /\ TypeOK /\ EngineInv
  BY NextInv, PlacesKept DEF CollabInv, Next, IInv, Descent
<1>2. engine' \in [Notes -> EngineDoc]
  BY <1>1 DEF EngineInv
<1>3. CASE LocalEdit(n)
  <2>1. /\ UNCHANGED <<ops, run, store>> /\ \A m \in Notes \ {n} : docs'[m] = docs[m]
        /\ docs[n] \in TrackedDoc /\ docs'[n] \in TrackedDoc /\ docs'[n].mapped = docs[n].mapped
    BY <1>1, <1>3, LocalEditCells
  <2>2. scope' = scope /\ Told'
    BY <1>1, <1>3 DEF LocalEdit, vaultVars, streamVars, EngineInv, Told
  <2>3. \A m \in Notes : SameDoc(m)
    BY <2>1, DocsAreReal DEF SameDoc
  <2> QED BY <1>1, <1>2, <2>1, <2>2, <2>3, NearbyKept
<1>4. CASE Flush(n)
  <2>1. QueueFlush(n, "flush") /\ "flush" \in FlushOps
    BY <1>4 DEF Flush, FlushOps
  <2>2. /\ \A m \in Notes : SameDoc(m)
        /\ ops'[n] = Append(ops[n], "flush") /\ \A m \in Notes \ {n} : ops'[m] = ops[m]
        /\ UNCHANGED <<vaultVars, streamVars, run, store>>
    BY <1>1, <2>1, QueueFlushCells
  <2>3. \A m \in Notes : ops'[m] = ops[m] \/ \E x \in Plain : ops'[m] = Append(ops[m], x)
    BY <2>2 DEF Plain
  <2>4. Told' /\ scope' = scope
    BY <1>1, <2>2 DEF EngineInv, Told, streamVars, vaultVars
  <2> QED BY <1>1, <1>2, <2>2, <2>3, <2>4, NearbyKept
<1> QED BY <1>3, <1>4

-----------------------------------------------------------------------------
(* The hooks.                                                              *)

\* A hook awaits the operation it has queued.
LEMMA HookChained ==
  ASSUME TypeOK, EngineInv, NEW n \in Notes, engine[n].ahead = 0, run' = run,
         NEW STATE at, at \in EngineStates, NEW STATE conns, conns \in 0..MaxConns,
         Hooked(at) \in OpKinds, ops'[n] = Append(ops[n], Hooked(at)), Hook(n, at, conns)
  PROVE  /\ Chained(n)' /\ engine' \in [Notes -> EngineDoc]
         /\ \A m \in Notes \ {n} : engine'[m] = engine[m]
         /\ engine'[n].at = at /\ engine'[n].conns = conns /\ engine'[n].ahead \in Nat \ {0}
<1> DEFINE e == [at |-> at, conns |-> conns, ahead |-> Queue(n)']
<1>1. /\ Queue(n) \in Nat /\ Queue(n)' = Queue(n) + 1
      /\ \A i \in 1..Queue(n)' :
           OpAt(n, i)' = IF i = Queue(n)' THEN Hooked(at) ELSE OpAt(n, i)
  BY QueueGrows
<1>2. \A i \in 1..Queue(n) : OpAt(n, i) \in Plain
  BY DEF EngineInv, Fits, Chained
<1>3. engine' = [engine EXCEPT ![n] = e] /\ e.ahead = Queue(n)' /\ e.at = at /\ e.conns = conns
  BY DEF Hook
<1>4. e \in EngineDoc
  BY <1>1 DEF EngineDoc
<1> HIDE DEF e
<1>5. engine'[n] = e /\ \A m \in Notes \ {n} : engine'[m] = engine[m]
  BY <1>3 DEF EngineInv
<1>6. engine' \in [Notes -> EngineDoc]
  BY <1>3, <1>4 DEF EngineInv
<1>7. engine'[n].ahead = Queue(n)' /\ Hooked(engine[n].at)' = Hooked(at)
  BY <1>3, <1>5 DEF Hooked
<1>8. ASSUME NEW i \in 1..Queue(n)'
      PROVE  IF i = Queue(n)' THEN OpAt(n, i)' = Hooked(at) ELSE OpAt(n, i)' \in Plain
  BY <1>1, <1>2
<1>9. Chained(n)'
  BY <1>1, <1>7, <1>8 DEF Chained
<1> QED BY <1>1, <1>3, <1>5, <1>6, <1>7, <1>9

\* A hook queues an operation.
LEMMA HookKept ==
  ASSUME CollabInv, LoadKinds = {"adopt"}, NEW n \in Notes, engine[n].ahead = 0,
         NEW STATE at, NEW STATE conns, conns \in 0..MaxConns, Hook(n, at, conns),
         \/ /\ Load(n, "adopt") /\ docs[n] = NoDoc /\ conns > 0
            /\ at = "opening" \/ (at = "readopting" /\ store[n] # NoEntry /\ run[n] = Idle)
         \/ Flush(n) /\ at = "storing"
         \/ Unload(n) /\ at = "unloading"
  PROVE  CollabInv'
<1>1. IInv' /\ Places' /\ IInv /\ TypeOK /\ EngineInv
  BY NextInv, PlacesKept DEF CollabInv, Next, IInv, Descent
<1>2. /\ \A m \in Notes : SameDoc(m)
      /\ \A m \in Notes \ {n} : docs'[m] = docs[m] /\ ops'[m] = ops[m]
      /\ docs[n] = NoDoc => docs'[n] = NoDoc
      /\ ops'[n] = Append(ops[n], Hooked(at)) /\ Hooked(at) \in OpKinds
      /\ UNCHANGED <<vaultVars, streamVars, run, store>>
  <2>1. CASE Load(n, "adopt") /\ at \in {"opening", "readopting"}
    BY <1>1, <2>1 DEF Load, Enqueue, SameDoc, Hooked, OpKinds, TypeOK
  <2>2. ASSUME NEW op \in FlushOps, QueueFlush(n, op)
        PROVE  /\ \A m \in Notes : SameDoc(m)
               /\ \A m \in Notes \ {n} : docs'[m] = docs[m] /\ ops'[m] = ops[m]
               /\ docs[n] # NoDoc /\ ops'[n] = Append(ops[n], op)
               /\ UNCHANGED <<vaultVars, streamVars, run, store>>
    <3>1. \A m \in Notes \ {n} : docs'[m] = docs[m]
      BY <1>1, <2>2 DEF QueueFlush, TypeOK
    <3> QED BY <1>1, <2>2, <3>1, QueueFlushCells
  <2>3. CASE Flush(n) /\ at = "storing"
    BY <2>2, <2>3 DEF Flush, FlushOps, Hooked, OpKinds
  <2>4. CASE Unload(n) /\ at = "unloading"
    BY <2>2, <2>4 DEF Unload, FlushOps, Hooked, OpKinds
  <2> QED BY <2>1, <2>3, <2>4
<1>3. at \in EngineStates
  BY DEF EngineStates
<1>4. /\ Chained(n)' /\ engine' \in [Notes -> EngineDoc]
      /\ \A m \in Notes \ {n} : engine'[m] = engine[m]
      /\ engine'[n].at = at /\ engine'[n].conns = conns /\ engine'[n].ahead \in Nat \ {0}
  BY <1>1, <1>2, <1>3, HookChained
<1>5. docs[n] = NoDoc <=> docs'[n] = NoDoc
  BY <1>2 DEF SameDoc
<1>6. (Flush(n) \/ Unload(n)) => docs[n] # NoDoc
  BY DEF Flush, Unload, QueueFlush, Tracked
<1>7. docs'[n] # NoDoc => docs'[n].mapped
  BY <1>1, <1>2 DEF SameDoc, EngineInv, Fits, EngineHolds
<1>8. EngineHolds(n)'
  BY <1>2, <1>4, <1>5, <1>6, <1>7 DEF EngineHolds
<1>9. Fits(n)'
  BY <1>1, <1>2, <1>4, <1>8 DEF Fits, InScope, EngineInv, vaultVars
<1>10. ASSUME NEW m \in Notes \ {n}
       PROVE  Fits(m)'
  BY <1>1, <1>2, <1>4, UntouchedFits DEF EngineInv, vaultVars
<1>11. Told'
  BY <1>1, <1>2 DEF EngineInv, Told, streamVars
<1> QED BY <1>1, <1>4, <1>9, <1>10, <1>11 DEF CollabInv, EngineInv

\* The engine moves by itself, or a client comes or goes.
LEMMA EngineMoves ==
  ASSUME CollabInv, UNCHANGED vars, NEW n \in Notes, NEW STATE e, e \in EngineDoc,
         engine' = [engine EXCEPT ![n] = e], e.ahead = engine[n].ahead,
         e.ahead > 0 => e.at = engine[n].at,
         e.at = engine[n].at \/ (e.at = "open" /\ docs[n] # NoDoc /\ e.ahead = 0),
         e.conns > 0 \/ e.at \in {"storing", "unloading"}
  PROVE  CollabInv'
<1>1. IInv' /\ Places' /\ IInv /\ TypeOK /\ EngineInv
  <2>1. [Next]_vars
    OBVIOUS
  <2> QED BY <2>1, NextInv, PlacesKept DEF CollabInv, IInv, Descent
<1>2. UNCHANGED <<commits, scope, stray, chan, docs, ops, run, store>>
  BY DEF vars, vaultVars, streamVars, machineVars
<1>3. engine' \in [Notes -> EngineDoc] /\ engine'[n] = e /\ e.ahead \in Nat
      /\ \A m \in Notes \ {n} : engine'[m] = engine[m]
  BY <1>1 DEF EngineInv, EngineDoc
<1>4. Fits(n) /\ Queue(n)' = Queue(n) /\ \A i : OpAt(n, i)' = OpAt(n, i)
  BY <1>1, <1>2 DEF EngineInv, Queue, OpAt
<1>5. Chained(n)'
  <2>1. CASE e.ahead = 0
    BY <1>3, <1>4, <2>1 DEF Fits, Chained
  <2>2. CASE e.ahead > 0
    <3>1. Hooked(engine[n].at)' = Hooked(engine[n].at)
      BY <1>3, <2>2 DEF Hooked
    <3> QED BY <1>3, <1>4, <2>2, <3>1 DEF Fits, Chained
  <2> QED BY <1>3, <2>1, <2>2
<1>6. EngineHolds(n)'
  BY <1>2, <1>3, <1>4 DEF Fits, EngineHolds
<1>7. Fits(n)'
  BY <1>2, <1>4, <1>5, <1>6 DEF Fits, InScope
<1>8. ASSUME NEW m \in Notes \ {n}
      PROVE  Fits(m)'
  BY <1>1, <1>2, <1>3, UntouchedFits DEF EngineInv
<1>9. Told'
  BY <1>1, <1>2 DEF EngineInv, Told
<1> QED BY <1>1, <1>3, <1>7, <1>8, <1>9 DEF CollabInv, EngineInv

\* The engine lets a client in.
LEMMA OpenKept ==
  ASSUME CollabInv, NEW n \in Notes, HookDue(n), engine[n].conns > 0, docs[n] # NoDoc,
         Goes(n, "open"), UNCHANGED vars
  PROVE  CollabInv'
<1> DEFINE e == [[engine[n] EXCEPT !.at = "open"] EXCEPT !.ahead = 0]
<1>1. engine[n] \in EngineDoc /\ engine[n].ahead = 0
  BY DEF CollabInv, EngineInv, HookDue
<1>2. engine' = [engine EXCEPT ![n] = e]
  BY DEF Goes, CollabInv, EngineInv
<1>3. e \in EngineDoc /\ e.at = "open" /\ e.conns = engine[n].conns /\ e.ahead = 0
  BY <1>1 DEF EngineDoc, EngineStates
<1> HIDE DEF e
<1>4. UNCHANGED vars
  OBVIOUS
<1>5. ~(e.ahead > 0) /\ e.ahead = engine[n].ahead /\ e.conns > 0
  BY <1>1, <1>3
<1> QED BY <1>2, <1>3, <1>4, <1>5, EngineMoves

\* The Y.Doc that the engine destroys is one that nobody tracks.
LEMMA DestroyedKept ==
  ASSUME CollabInv, NEW n \in Notes, HookDue(n), docs[n] = NoDoc, Destroyed(n)
  PROVE  CollabInv'
<1>1. TypeOK /\ IInv /\ Lineage /\ Places /\ EngineInv /\ engine[n].ahead = 0
  BY DEF CollabInv, IInv, Descent, HookDue
<1>2. /\ UNCHANGED <<commits, scope, stray, conn, chan, live, drops, phase, docs, ops, run, store,
                     nextEdit, crashes, dropped>>
      /\ loose' = [loose EXCEPT ![n] = NoDoc] /\ engine' = [engine EXCEPT ![n] = Absent]
  BY DEF Destroyed, vaultVars, streamVars, countVars
<1>3. loose' \in [Notes -> Content \cup {NoDoc}]
      /\ \A m \in Notes : loose'[m] = loose[m] \/ loose'[m] = NoDoc
  BY <1>1, <1>2 DEF TypeOK
<1>4. TypeOK'
  BY <1>1, <1>2, <1>3 DEF TypeOK
<1>5. Lineage'
  BY <1>1, <1>2, <1>3 DEF Lineage, SoundNote, SoundLoose
<1>12. Present'
  BY <1>1, <1>2 DEF IInv, Present, Told, Stays
<1>6. Places'
  BY <1>1, <1>2, <1>3 DEF Places, Placed
<1>7. /\ Absent \in EngineDoc
      /\ Absent.at = "absent" /\ Absent.ahead = 0
  BY EngineAssumption DEF Absent, EngineDoc, EngineStates
<1>8. engine' \in [Notes -> EngineDoc] /\ engine'[n] = Absent
      /\ \A m \in Notes \ {n} : engine'[m] = engine[m]
  BY <1>1, <1>2, <1>7 DEF EngineInv
<1>9. Fits(n)'
  <2>1. Fits(n) /\ Queue(n)' = Queue(n) /\ \A i : OpAt(n, i)' = OpAt(n, i)
    BY <1>1, <1>2 DEF EngineInv, Queue, OpAt
  <2>2. Chained(n)'
    BY <1>1, <1>7, <1>8, <2>1 DEF Fits, Chained
  <2>3. EngineHolds(n)'
    BY <1>2, <1>7, <1>8 DEF EngineHolds
  <2> QED BY <1>2, <2>1, <2>2, <2>3 DEF Fits, InScope
<1>10. ASSUME NEW m \in Notes \ {n}
       PROVE  Fits(m)'
  BY <1>1, <1>2, <1>8, UntouchedFits DEF EngineInv
<1>11. Told'
  BY <1>1, <1>2 DEF EngineInv, Told
<1> QED BY <1>4, <1>5, <1>6, <1>8, <1>9, <1>10, <1>11, <1>12 DEF CollabInv, IInv, Descent, EngineInv

\* A hook goes on after what it awaited.
LEMMA HookGoesOn ==
  ASSUME CollabInv, Collaborative, NEW n \in Notes, HookDue(n),
         Opened(n) \/ Stored(n) \/ Unloaded(n) \/ Readopted(n)
  PROVE  CollabInv'
<1>1. /\ EngineHolds(n) /\ engine[n].ahead = 0 /\ engine[n] \in EngineDoc
      /\ Tracked(n) <=> docs[n] # NoDoc
  BY DEF CollabInv, EngineInv, Fits, EngineHolds, HookDue, Tracked
<1>2. engine[n].conns \in 0..MaxConns /\ 0 \in 0..MaxConns
  BY <1>1, EngineAssumption DEF EngineDoc
<1>3. CASE Opened(n)
  BY <1>1, <1>3, OpenKept, DestroyedKept DEF Opened, EngineHolds
<1>4. CASE Stored(n)
  <2>1. docs[n] # NoDoc /\ engine[n].at = "storing"
    BY <1>1, <1>4 DEF Stored, EngineHolds
  <2>2. CASE engine[n].conns > 0 /\ Goes(n, "open") /\ UNCHANGED vars
    BY <2>1, <2>2, OpenKept
  <2>3. CASE Unload(n) /\ Hook(n, "unloading", 0)
    BY <1>1, <1>2, <2>3, HookKept DEF Collaborative
  <2> QED BY <1>1, <1>4, <2>1, <2>2, <2>3 DEF Stored
<1>5. CASE Unloaded(n)
  <2>1. docs[n] = NoDoc /\ store[n] # NoEntry /\ engine[n].at = "unloading"
    BY <1>1, <1>5 DEF Unloaded, EngineHolds
  <2>2. CASE engine[n].conns > 0 /\ Load(n, "adopt") /\ Hook(n, "readopting", engine[n].conns)
    <3>1. run[n] = Idle
      <4>1. SUFFICES ASSUME run[n] # Idle
                     PROVE  FALSE
        OBVIOUS
      <4>2. run[n].op \in {"load", "adopt"}
        BY <2>1, <4>1, OnlyLoadsWithoutDoc DEF CollabInv, Places
      <4>3. 1 \in 1..Queue(n) /\ OpAt(n, 1) = run[n].op
        BY <4>1 DEF CollabInv, IInv, Descent, TypeOK, Queue, OpAt
      <4>4. OpAt(n, 1) \in Plain
        BY <1>1, <4>3 DEF CollabInv, EngineInv, Fits, Chained
      <4> QED BY <4>2, <4>3, <4>4 DEF Plain
    <3> QED BY <1>1, <1>2, <2>1, <2>2, <3>1, HookKept DEF Collaborative
  <2>3. CASE Destroyed(n)
    BY <2>1, <2>3, DestroyedKept
  <2> QED BY <1>2, <1>5, <2>2, <2>3 DEF Unloaded
<1>6. CASE Readopted(n)
  BY <1>1, <1>6, OpenKept DEF Readopted, EngineHolds
<1> QED BY <1>3, <1>4, <1>5, <1>6

\* A client comes.
LEMMA JoinKept ==
  ASSUME CollabInv, Collaborative, NEW n \in Notes, Join(n)
  PROVE  CollabInv'
<1>1. /\ EngineHolds(n) /\ engine[n] \in EngineDoc /\ engine \in [Notes -> EngineDoc]
  BY DEF CollabInv, EngineInv, Fits
<1>2. CASE engine[n].at = "absent" /\ Load(n, "adopt") /\ Hook(n, "opening", 1)
  <2>1. 1 \in 0..MaxConns /\ 1 > 0
    BY EngineAssumption
  <2> QED BY <1>1, <1>2, <2>1, HookKept DEF EngineHolds, Collaborative
<1>3. CASE engine[n].at # "absent" /\ engine' = [engine EXCEPT ![n].conns = @ + 1]
           /\ UNCHANGED vars /\ engine[n].conns < MaxConns
  <2> DEFINE e == [engine[n] EXCEPT !.conns = engine[n].conns + 1]
  <2>1. engine' = [engine EXCEPT ![n] = e]
    BY <1>1, <1>3
  <2>2. /\ e \in EngineDoc /\ e.at = engine[n].at /\ e.ahead = engine[n].ahead /\ e.conns > 0
    BY <1>1, <1>3, EngineAssumption DEF EngineDoc
  <2> HIDE DEF e
  <2> QED BY <1>3, <2>1, <2>2, EngineMoves
<1> QED BY <1>2, <1>3 DEF Join

\* A client goes.
LEMMA LeaveKept ==
  ASSUME CollabInv, Collaborative, NEW n \in Notes, Leave(n)
  PROVE  CollabInv'
<1>1. /\ EngineHolds(n) /\ engine[n] \in EngineDoc /\ engine \in [Notes -> EngineDoc]
      /\ Tracked(n) <=> docs[n] # NoDoc
  BY DEF CollabInv, EngineInv, Fits, EngineHolds, Tracked
<1>2. CASE engine[n].at = "open" /\ engine[n].conns = 1
  <2>1. Flush(n) /\ Hook(n, "storing", 0) /\ engine[n].ahead = 0
    BY <1>1, <1>2 DEF EngineHolds, Leave
  <2>2. 0 \in 0..MaxConns
    BY EngineAssumption
  <2> QED BY <2>1, <2>2, HookKept DEF Collaborative
<1>3. CASE ~(engine[n].at = "open" /\ engine[n].conns = 1)
  <2> DEFINE e == [engine[n] EXCEPT !.conns = engine[n].conns - 1]
  <2>1. /\ engine' = [engine EXCEPT ![n] = e] /\ UNCHANGED vars
        /\ engine[n].at \in {"open", "storing", "unloading"} /\ engine[n].conns > 0
    BY <1>1, <1>3 DEF Leave
  <2>2. /\ e \in EngineDoc /\ e.at = engine[n].at /\ e.ahead = engine[n].ahead
        /\ e.conns = engine[n].conns - 1
    BY <1>1, <2>1, EngineAssumption DEF EngineDoc
  <2> HIDE DEF e
  <2>3. e.conns > 0 \/ e.at \in {"storing", "unloading"}
    BY <1>1, <1>3, <2>1, <2>2 DEF EngineDoc
  <2> QED BY <2>1, <2>2, <2>3, EngineMoves
<1> QED BY <1>2, <1>3

-----------------------------------------------------------------------------
(* Every step, and the property.                                           *)

\* Nothing is open at first.
LEMMA CollabInitInv ==
  ASSUME CollabInit
  PROVE  CollabInv
<1>1. IInv /\ Places /\ TypeOK
  BY InitInv, PlacesInit DEF CollabInit, IInv, Descent
<1>2. /\ Absent \in EngineDoc /\ Absent.at = "absent" /\ Absent.ahead = 0
  BY EngineAssumption DEF Absent, EngineDoc, EngineStates
<1>3. engine \in [Notes -> EngineDoc] /\ \A n \in Notes : engine[n] = Absent
  BY <1>2 DEF CollabInit
<1>4. ASSUME NEW n \in Notes
      PROVE  Fits(n)
  <2>1. docs[n] = NoDoc /\ run[n] = Idle /\ ops[n] = <<>> /\ scope[n] = "tagged"
    BY DEF CollabInit, Init
  <2>2. Queue(n) = 0
    BY <2>1 DEF Queue
  <2>3. Chained(n)
    BY <1>2, <1>3, <2>2 DEF Chained
  <2>4. InScope(n)
    BY <2>1 DEF InScope, Idle
  <2>5. EngineHolds(n)
    BY <1>2, <1>3, <2>1 DEF EngineHolds
  <2> QED BY <2>3, <2>4, <2>5 DEF Fits
<1>5. Told
  BY DEF CollabInit, Init, Told
<1> QED BY <1>1, <1>3, <1>4, <1>5 DEF CollabInv, EngineInv

\* No step disturbs it.
LEMMA CollabKept ==
  ASSUME CollabInv, Collaborative, [CollabNext]_collabVars
  PROVE  CollabInv'
<1>1. CASE UNCHANGED collabVars
  <2>1. UNCHANGED vars /\ UNCHANGED engine
    BY <1>1 DEF collabVars
  <2>2. UNCHANGED <<commits, scope, stray, chan, docs, ops, run, store>>
    BY <2>1 DEF vars, vaultVars, streamVars, machineVars
  <2>3. IInv' /\ Places'
    BY <2>1, NextInv, PlacesKept DEF CollabInv
  <2>4. ASSUME NEW m \in Notes
        PROVE  Fits(m)'
    BY <2>1, <2>2, UntouchedFits DEF CollabInv, EngineInv
  <2> QED BY <2>1, <2>2, <2>3, <2>4 DEF CollabInv, EngineInv, Told
<1>2. ASSUME NEW n \in Notes, Microtask(n)
      PROVE  CollabInv'
  BY <1>2, HookGoesOn, StretchKept DEF Microtask, Collaborative
<1>3. ASSUME NEW n \in Notes, Join(n) \/ Leave(n)
      PROVE  CollabInv'
  BY <1>3, JoinKept, LeaveKept
<1>4. ASSUME NEW n \in Notes, StoreMoment(n)
      PROVE  CollabInv'
  BY <1>4, EditKept DEF StoreMoment
<1>5. ASSUME NEW n \in Notes, Environment(n) \/ Reply(n) \/ TimerFires(n), EngineKept
      PROVE  CollabInv'
  BY <1>5, NetworkKept, StretchKept, TimerKept DEF Collaborative
<1>6. CASE (Start \/ Connect \/ Disconnect \/ EventComes) /\ EngineKept
  BY <1>6, StreamKept, DeliverKept DEF EventComes
<1>7. ASSUME AtRest, NEW n \in Notes, ClientEdit(n)
      PROVE  CollabInv'
  <2>1. Tracked(n)
    <3>1. EngineHolds(n) /\ Served(n) /\ ~HookDue(n)
      BY <1>7 DEF CollabInv, EngineInv, Fits, AtRest, ClientEdit
    <3>2. engine[n] \in EngineDoc
      BY DEF CollabInv, EngineInv
    <3> QED BY <3>1, <3>2 DEF EngineHolds, Served, HookDue, Tracked, EngineDoc
  <2> QED BY <1>7, <2>1, EditKept DEF ClientEdit
<1> QED BY <1>1, <1>2, <1>3, <1>4, <1>5, <1>6, <1>7 DEF CollabNext

\* When no hook and no operation is due, who has the document?
LEMMA AdoptedAtRest ==
  ASSUME CollabInv
  PROVE  ServedDocsAreAdopted
<1> SUFFICES ASSUME AtRest, NEW n \in Notes
             PROVE  /\ Served(n) => Tracked(n)
                    /\ engine[n].at = "absent" => ~Tracked(n)
  BY DEF ServedDocsAreAdopted
<1>1. EngineHolds(n) /\ ~HookDue(n) /\ engine[n] \in EngineDoc
  BY DEF CollabInv, EngineInv, Fits, AtRest
<1> QED BY <1>1 DEF EngineHolds, Served, HookDue, Tracked, EngineDoc

\* Type correctness of the collaboration, for documents that are adopted and a state
\* store that works.
THEOREM CollabTypeCorrect ==
  ASSUME Collaborative
  PROVE  CollabSpec => []CollabTypeOK
<1>1. CollabInit => CollabInv
  BY CollabInitInv
<1>2. CollabInv /\ [CollabNext]_collabVars => CollabInv'
  BY CollabKept
<1>3. CollabInv => CollabTypeOK
  BY DEF CollabInv, IInv, Descent, EngineInv, CollabTypeOK
<1> QED BY <1>1, <1>2, <1>3, PTL DEF CollabSpec

\* Whoever comes back while a document is stored and unloaded, and whatever the vault,
\* the network, the hooks and the stream do meanwhile: no client ever edits a document
\* that the reconciler has let go of, and none is tracked that the engine has
\* forgotten (server/collab.ts, for documents that are adopted and a store that works).
THEOREM ServedAreAdopted ==
  ASSUME Collaborative
  PROVE  CollabSpec => []ServedDocsAreAdopted
<1>1. CollabInit => CollabInv
  BY CollabInitInv
<1>2. CollabInv /\ [CollabNext]_collabVars => CollabInv'
  BY CollabKept
<1>3. CollabInv => ServedDocsAreAdopted
  BY AdoptedAtRest
<1> QED BY <1>1, <1>2, <1>3, PTL DEF CollabSpec

-----------------------------------------------------------------------------
(* The promise of SharedNote: where the edits of a note are.                *)

\* Notes that stay, in documents that are adopted, over a store that works.
Faithful == Collaborative /\ Scopes = {"tagged"}

\* What the reconciler has of a note: its document, or the snapshot of one.
CopyOf(d, e) ==
  IF d # NoDoc THEN [edits |-> d.content.edits, base |-> d.tracked, dirty |-> d.dirty]
    ELSE IF e # NoEntry
      THEN [edits |-> e.blob.edits, base |-> e.sourceVersion, dirty |-> e.dirty]
      ELSE [edits |-> {}, base |-> 0, dirty |-> FALSE]

Copy(n) == CopyOf(docs[n], store[n])

\* Edits that were typed on versions up to v of n; and what of them the note has had
\* before, it still has in v.
Typed(n, edits, v) ==
  \A x \in edits : x \in Edits /\ x <= nextEdit /\ basis[x].note = n /\ basis[x].version <= v

Novel(n, edits, v) ==
  \A u \in 1..v : edits \cap commits[n][u].edits \subseteq commits[n][v].edits

Rooted(n, edits, v) == Typed(n, edits, v) /\ Novel(n, edits, v)

\* A write that nobody waits for holds nothing that has been given up, if it can land.
Latent(n, w) ==
  /\ Rooted(n, w.body.edits, w.ver) /\ w.ver <= Copy(n).base
  /\ w.ver = Version(n) => w.body.edits \subseteq Copy(n).edits \cup InVault(n)

\* An acknowledged version is the next one, made on top of the baseline.
Follows(n) ==
  run[n].at = "writing" /\ run[n].net = "note" =>
    /\ run[n].ver = docs[n].tracked + 1
    /\ commits[n][docs[n].tracked].edits \subseteq commits[n][run[n].ver].edits

Traced(n) ==
  /\ Rooted(n, Copy(n).edits, Copy(n).base)
  /\ ~Copy(n).dirty => Copy(n).edits \subseteq InVault(n)
  /\ InStore(n) \subseteq Copy(n).edits \cup InVault(n)
  /\ \A v \in 1..Version(n) : Typed(n, commits[n][v].edits, v)
  /\ \A w \in stray[n] : Latent(n, w)
  /\ Follows(n)

BasisOK == basis \in [Edits -> [note : Notes, version : Nat]]

PromiseInv == BasisOK /\ \A n \in Notes : Traced(n)

-----------------------------------------------------------------------------
(* What a stretch makes of the copy of a note.                             *)

\* It stays, an acknowledgement moves its baseline, or it is read anew.
Moves(n) ==
  \/ Copy(n)' = Copy(n)
  \/ /\ run[n].at = "writing" /\ run[n].net = "note" /\ docs[n] # NoDoc
     /\ Copy(n)'.edits = Copy(n).edits /\ Copy(n)'.base = run[n].ver
     /\ ~Copy(n)'.dirty => Copy(n).edits = commits[n][run[n].ver].edits
  \/ \E v \in 1..Version(n) :
       /\ Copy(n).base < v /\ Copy(n)'.base = v /\ ~Copy(n)'.dirty
       /\ Copy(n)'.edits = commits[n][v].edits

\* A new snapshot is the copy.
Saves(n) == InStore(n)' = Copy(n)'.edits \/ (InStore(n)' = InStore(n) /\ Copy(n)' = Copy(n))

\* The snapshot of a document is as good as the document.
LEMMA SnapshotIsCopy ==
  ASSUME NEW d \in TrackedDoc, NEW e
  PROVE  /\ CopyOf(d, e) = [edits |-> d.content.edits, base |-> d.tracked, dirty |-> d.dirty]
         /\ CopyOf(NoDoc, Snapshot(d)) = CopyOf(d, e)
         /\ StoreEdits(Snapshot(d)) = d.content.edits
<1>1. d # NoDoc /\ Snapshot(d) # NoEntry
  BY DocsAreReal, SnapshotIsReal
<1> QED BY <1>1 DEF CopyOf, Snapshot, StoreEdits

\* An operation that ends on a document leaves its copy.
LEMMA SettleCopies ==
  ASSUME TypeOK, NEW n \in Notes, NEW STATE op, NEW STATE d, d \in TrackedDoc, d.mapped,
         NEW STATE e, Settle(n, op, d, e), ~Fault("store")
  PROVE  /\ Copy(n)' = [edits |-> d.content.edits, base |-> d.tracked, dirty |-> d.dirty]
         /\ StoreEdits(store'[n]) \in {StoreEdits(e), d.content.edits}
<1>1. \/ docs'[n] = NoDoc /\ store'[n] \in Persisted(e, d)
      \/ docs'[n] = d /\ store'[n] = e
  BY SettleCells, DocsAreReal
<1>2. Copy(n)' = CopyOf(docs'[n], store'[n])
  BY DEF Copy
<1>3. Persisted(e, d) = {Snapshot(d)}
  BY DEF Persisted
<1>4. CASE docs'[n] = d /\ store'[n] = e
  BY <1>2, <1>4, SnapshotIsCopy
<1>5. CASE docs'[n] = NoDoc /\ store'[n] \in Persisted(e, d)
  <2>1. store'[n] = Snapshot(d)
    BY <1>3, <1>5
  <2>2. Copy(n)' = CopyOf(NoDoc, Snapshot(d))
    BY <1>2, <1>5, <2>1
  <2> QED BY <2>1, <2>2, SnapshotIsCopy
<1> QED BY <1>1, <1>4, <1>5

\* The edits of the snapshot, before and after.
LEMMA SnapshotsOfNote ==
  ASSUME NEW n \in Notes
  PROVE  InStore(n) = StoreEdits(store[n]) /\ InStore(n)' = StoreEdits(store'[n])
BY DEF InStore, StoreEdits

\* Every way a stretch can end is such a move.
LEMMA KindMoves ==
  ASSUME IInv, Faithful, NEW n \in Notes, docs[n] # NoDoc => docs[n].mapped,
         run[n].net # "missing", NEW STATE op, op # "removed", NEW STATE begun, Kind(n, op, begun)
  PROVE  Moves(n) /\ Saves(n)
<1> DEFINE Of(d) == [edits |-> d.content.edits, base |-> d.tracked, dirty |-> d.dirty]
<1>0. /\ TypeOK /\ ~Fault("store") /\ Traceable
      /\ docs[n] \in Docs /\ store[n] \in Entries
      /\ SoundLoose(docs[n], store[n], loose[n]) /\ run[n].loose = NoDoc
  BY NoteFacts DEF Faithful, Collaborative, Traceable, SoundNote
<1>1. InStore(n) = StoreEdits(store[n]) /\ InStore(n)' = StoreEdits(store'[n])
  BY SnapshotsOfNote
<1>2. docs[n] # NoDoc => docs[n] \in TrackedDoc /\ Copy(n) = Of(docs[n])
  BY <1>0, DocsAreReal, SnapshotIsCopy DEF Copy
<1>3. ASSUME NEW d \in TrackedDoc, d.mapped, NEW e, Settle(n, op, d, e)
      PROVE  Copy(n)' = Of(d) /\ StoreEdits(store'[n]) \in {StoreEdits(e), d.content.edits}
  BY <1>0, <1>3, SettleCopies
<1> HIDE DEF Of
<1>4. \A d : Of(d).edits = d.content.edits /\ Of(d).base = d.tracked /\ Of(d).dirty = d.dirty
  BY DEF Of
<1>5. ASSUME NEW d \in TrackedDoc
      PROVE  Persisted(store[n], d) = {Snapshot(d)} /\ StoreEdits(Snapshot(d)) = d.content.edits
  BY <1>0, SnapshotIsCopy DEF Persisted
<1>6. ASSUME NEW e, Copies(n, e), NEW d \in TrackedDoc, Alike(docs[n], d)
      PROVE  /\ Of(d) = Copy(n) /\ d.content.edits = Copy(n).edits
             /\ StoreEdits(e) \in {InStore(n), Copy(n).edits}
  <2>1. docs[n] # NoDoc
    BY <1>6, DocsAreReal DEF Alike
  <2>2. Of(d) = Of(docs[n])
    BY <1>6 DEF Alike, Of
  <2>3. e = store[n] \/ e = Snapshot(docs[n])
    BY <1>6 DEF Copies
  <2>4. StoreEdits(Snapshot(docs[n])) = docs[n].content.edits
    BY <1>2, <2>1, SnapshotIsCopy
  <2> QED BY <1>1, <1>2, <1>4, <2>1, <2>2, <2>3, <2>4
<1>7. CASE Quiet(n, op)
  <2>1. PICK d \in Docs, e \in Entries : Settle(n, op, d, e) /\ Keeps(n, d) /\ Copies(n, e)
    BY <1>7 DEF Quiet
  <2>2. CASE d = NoDoc /\ docs[n] = NoDoc
    <3>1. e = store[n] /\ docs'[n] = docs[n] /\ store'[n] = store[n]
      BY <1>0, <2>1, <2>2, SettleCells DEF Copies
    <3> QED BY <3>1 DEF Copy, Moves, Saves, InStore
  <2>3. CASE Alike(docs[n], d) /\ d.mapped = docs[n].mapped
    <3>1. d \in TrackedDoc /\ d.mapped
      BY <2>3, DocsAreReal DEF Alike
    <3>2. Copy(n)' = Of(d) /\ StoreEdits(store'[n]) \in {StoreEdits(e), d.content.edits}
      BY <1>3, <2>1, <3>1
    <3>3. /\ Of(d) = Copy(n) /\ d.content.edits = Copy(n).edits
          /\ StoreEdits(e) \in {InStore(n), Copy(n).edits}
      BY <1>6, <2>1, <2>3, <3>1
    <3> QED BY <1>1, <3>2, <3>3 DEF Moves, Saves
  <2> QED BY <2>1, <2>2, <2>3 DEF Keeps
<1>8. CASE Written(n, op)
  <2>1. PICK d \in TrackedDoc, e \in Entries :
          /\ Settle(n, op, d, e) /\ docs[n] # NoDoc
          /\ d.content = docs[n].content /\ d.mapped = docs[n].mapped
          /\ e \in Persisted(store[n], d)
          /\ run[n].at = "writing" /\ run[n].net = "note" /\ d.tracked = run[n].ver
          /\ ~d.dirty => d.content = commits[n][d.tracked]
    BY <1>8 DEF Written
  <2>2. Copy(n)' = Of(d) /\ InStore(n)' = d.content.edits
    BY <1>1, <1>3, <1>5, <2>1
  <2>3. Copy(n).edits = d.content.edits
    BY <1>2, <1>4, <2>1
  <2> QED BY <1>4, <2>1, <2>2, <2>3 DEF Moves, Saves
<1>9. CASE Reseeded(n, op)
  <2>1. PICK d \in TrackedDoc, e \in Entries, v \in 1..Version(n) :
          /\ Settle(n, op, d, e) /\ docs[n] # NoDoc /\ docs[n].tracked < v
          /\ d.content = commits[n][v] /\ d.tracked = v /\ ~d.dirty /\ d.mapped = docs[n].mapped
          /\ e \in Persisted(store[n], d)
    BY <1>9 DEF Reseeded
  <2>2. Copy(n)' = Of(d) /\ InStore(n)' = d.content.edits
    BY <1>1, <1>3, <1>5, <2>1
  <2>3. Copy(n).base < v
    BY <1>2, <1>4, <2>1
  <2> QED BY <1>4, <2>1, <2>2, <2>3 DEF Moves, Saves
<1>10. CASE Torn(n, op)
  <2>1. PICK d \in TrackedDoc :
          /\ Settle(n, op, d, store[n]) /\ docs[n] # NoDoc
          /\ d.content.edits = docs[n].content.edits /\ d.tracked = docs[n].tracked
          /\ d.mapped = docs[n].mapped /\ d.dirty = docs[n].dirty
    BY <1>10 DEF Torn
  <2>2. Copy(n)' = Of(d) /\ StoreEdits(store'[n]) \in {StoreEdits(store[n]), d.content.edits}
    BY <1>3, <2>1
  <2>3. Of(d) = Copy(n) /\ d.content.edits = Copy(n).edits
    BY <1>2, <2>1 DEF Of
  <2> QED BY <1>1, <2>2, <2>3 DEF Moves, Saves
<1>11. CASE Waits(n, op, begun)
  <2>1. PICK at \in Awaits, d \in Docs, e \in Entries, provided \in Content \cup {NoDoc} :
          Await(n, op, at, d, e, provided) /\ Keeps(n, d) /\ Copies(n, e)
    BY <1>11 DEF Waits
  <2>2. docs'[n] = d /\ store'[n] = e
    BY <1>0, <2>1, AwaitCells
  <2>3. CASE d = NoDoc /\ docs[n] = NoDoc
    <3>1. docs'[n] = docs[n] /\ store'[n] = store[n]
      BY <2>1, <2>2, <2>3 DEF Copies
    <3> QED BY <3>1 DEF Copy, Moves, Saves, InStore
  <2>4. CASE Alike(docs[n], d)
    <3>1. d \in TrackedDoc
      BY <2>4 DEF Alike
    <3>2. Copy(n)' = CopyOf(d, e)
      BY <2>2 DEF Copy
    <3>3. Copy(n)' = Of(d)
      BY <3>1, <3>2, SnapshotIsCopy DEF Of
    <3>4. Of(d) = Copy(n) /\ StoreEdits(e) \in {InStore(n), Copy(n).edits}
      BY <1>6, <2>1, <2>4, <3>1
    <3> QED BY <1>1, <2>2, <3>3, <3>4 DEF Moves, Saves
  <2> QED BY <2>1, <2>3, <2>4 DEF Keeps
<1>12. CASE Registered(n, op)
  <2>1. PICK content \in Content, tracked \in Nat \ {0}, dirty \in BOOLEAN :
          /\ Register(n, op, content, tracked, dirty) /\ docs[n] = NoDoc
          /\ \/ /\ store[n] = NoEntry /\ tracked \in 1..Version(n) /\ ~dirty
                /\ content = commits[n][tracked] \/ run[n].loose # NoDoc
             \/ /\ store[n] # NoEntry /\ tracked = store[n].sourceVersion /\ dirty = store[n].dirty
                /\ content = store[n].blob \/ (loose[n] # NoDoc /\ content = loose[n])
    BY <1>12 DEF Registered
  <2>2. /\ docs'[n] \in TrackedDoc /\ store'[n] = Snapshot(docs'[n])
        /\ docs'[n].content = content /\ docs'[n].dirty = dirty /\ docs'[n].tracked = tracked
    BY <1>0, <2>1, RegisterIsReal, RegisterCells
  <2>3. /\ Copy(n)' = [edits |-> content.edits, base |-> tracked, dirty |-> dirty]
        /\ InStore(n)' = content.edits
    <3>1. /\ CopyOf(docs'[n], store'[n])
               = [edits |-> docs'[n].content.edits, base |-> docs'[n].tracked,
                  dirty |-> docs'[n].dirty]
          /\ StoreEdits(store'[n]) = docs'[n].content.edits
      BY <2>2, SnapshotIsCopy
    <3> QED BY <1>1, <2>2, <3>1 DEF Copy
  <2>4. CASE store[n] = NoEntry
    <3>1. Copy(n).base = 0 /\ tracked \in 1..Version(n) /\ ~dirty /\ content = commits[n][tracked]
      BY <1>0, <2>1, <2>4 DEF Copy, CopyOf
    <3>2. Copy(n).base < tracked
      BY <3>1
    <3> QED BY <2>3, <3>1, <3>2 DEF Moves, Saves
  <2>5. CASE store[n] # NoEntry
    <3>1. content = store[n].blob /\ tracked = store[n].sourceVersion /\ dirty = store[n].dirty
      BY <1>0, <2>1, <2>5 DEF SoundLoose
    <3>2. Copy(n) = [edits |-> store[n].blob.edits, base |-> store[n].sourceVersion,
                     dirty |-> store[n].dirty]
      BY <2>1, <2>5 DEF Copy, CopyOf
    <3> QED BY <2>3, <3>1, <3>2 DEF Moves, Saves
  <2> QED BY <2>4, <2>5
<1>13. CASE Removed(n, op)
  BY <1>13 DEF Removed
<1> QED BY <1>7, <1>8, <1>9, <1>10, <1>11, <1>12, <1>13 DEF Kind

\* The types of a copy, and its baseline.
LEMMA CopyFacts ==
  ASSUME IInv, NEW n \in Notes
  PROVE  /\ Version(n) \in Nat \ {0} /\ Copy(n).base \in 0..Version(n)
         /\ Copy(n).edits \subseteq Edits /\ nextEdit \in Nat
         /\ docs[n] # NoDoc => /\ Copy(n).edits = docs[n].content.edits
                               /\ Copy(n).base = docs[n].tracked
         /\ \A v \in 1..Version(n) : commits[n][v] \in Content /\ commits[n][v].edits \subseteq InVault(n)
<1>1. /\ commits[n] \in History /\ docs[n] \in Docs /\ store[n] \in Entries /\ TypeOK
      /\ SoundDoc(commits[n], docs[n]) /\ SoundEntry(commits[n], store[n])
  BY NoteFacts DEF SoundNote
<1>2. Version(n) \in Nat \ {0} /\ \A v \in 1..Version(n) : commits[n][v] \in Content
  BY <1>1 DEF Version, History
<1>3. docs[n] # NoDoc => docs[n].tracked \in 1..Version(n) /\ docs[n].content.edits \subseteq Edits
  BY <1>1, DocsAreReal DEF SoundDoc, Sound, Version, TrackedDoc, Content
<1>4. store[n] # NoEntry =>
        store[n].sourceVersion \in 1..Version(n) /\ store[n].blob.edits \subseteq Edits
  BY <1>1 DEF SoundEntry, Sound, Version, Entries, Entry, Content
<1>5. nextEdit \in Nat
  BY <1>1, BoundsAssumption DEF TypeOK
<1>6. \A v \in 1..Version(n) : commits[n][v].edits \subseteq InVault(n)
  BY DEF InVault
<1>7. 0 \in 0..Version(n) /\ 1..Version(n) \subseteq 0..Version(n)
  BY <1>2
<1> QED BY <1>2, <1>3, <1>4, <1>5, <1>6, <1>7 DEF Copy, CopyOf

\* What the note has, while nobody commits.
LEMMA VaultStays ==
  ASSUME commits' = commits, NEW m \in Notes
  PROVE  InVault(m)' = InVault(m) /\ Version(m)' = Version(m)
BY DEF InVault, Version

\* A move never brings back an edit that was given up, and gives one up only for a
\* version that is newer than the baseline.
LEMMA MovesShed ==
  ASSUME IInv, NEW n \in Notes, Moves(n)
  PROVE  /\ Copy(n)'.edits \subseteq Copy(n).edits \cup InVault(n)
         /\ \/ Copy(n).edits \subseteq Copy(n)'.edits
            \/ Copy(n).base < Version(n)
<1>1. /\ Version(n) \in Nat /\ Copy(n).base \in Nat
      /\ \A v \in 1..Version(n) : commits[n][v].edits \subseteq InVault(n)
  BY CopyFacts
<1> QED BY <1>1 DEF Moves

\* After a move the copy is traced again.
LEMMA MovesTraced ==
  ASSUME IInv, PromiseInv, NEW n \in Notes, Moves(n), Saves(n),
         UNCHANGED <<commits, stray, nextEdit, basis>>,
         ~(run'[n].at = "writing" /\ run'[n].net = "note")
  PROVE  Traced(n)'
<1>0. /\ InVault(n)' = InVault(n) /\ Version(n)' = Version(n)
      /\ Version(n) \in Nat \ {0} /\ Copy(n).base \in 0..Version(n) /\ Copy(n).base \in Nat
      /\ docs[n] # NoDoc => Copy(n).base = docs[n].tracked
      /\ \A v \in 1..Version(n) : commits[n][v].edits \subseteq InVault(n)
  BY VaultStays, CopyFacts
<1>1. /\ Follows(n) /\ Typed(n, Copy(n).edits, Copy(n).base) /\ Novel(n, Copy(n).edits, Copy(n).base)
      /\ ~Copy(n).dirty => Copy(n).edits \subseteq InVault(n)
      /\ InStore(n) \subseteq Copy(n).edits \cup InVault(n)
      /\ \A v \in 1..Version(n) : Typed(n, commits[n][v].edits, v)
      /\ \A w \in stray[n] : Latent(n, w)
  BY DEF PromiseInv, Traced, Rooted
<1>2. /\ Typed(n, Copy(n)'.edits, Copy(n)'.base) /\ Novel(n, Copy(n)'.edits, Copy(n)'.base)
      /\ ~Copy(n)'.dirty => Copy(n)'.edits \subseteq InVault(n)
      /\ Copy(n).base <= Copy(n)'.base /\ Copy(n)'.base \in Nat
      /\ Copy(n).edits \subseteq Copy(n)'.edits \/ Copy(n).base < Version(n)
  <2>1. CASE Copy(n)' = Copy(n)
    BY <1>0, <1>1, <2>1
  <2>2. CASE /\ run[n].at = "writing" /\ run[n].net = "note" /\ docs[n] # NoDoc
             /\ Copy(n)'.edits = Copy(n).edits /\ Copy(n)'.base = run[n].ver
             /\ ~Copy(n)'.dirty => Copy(n).edits = commits[n][run[n].ver].edits
    <3> DEFINE es == Copy(n).edits
               b  == Copy(n).base
    <3>1. /\ run[n].ver = b + 1 /\ commits[n][b].edits \subseteq commits[n][b + 1].edits
          /\ b + 1 \in 1..Version(n)
      <4>1. run[n].ver \in 1..Version(n)
        BY <2>2, NoteFacts DEF SoundNote, SoundRead, Version
      <4> QED BY <1>0, <1>1, <2>2, <4>1 DEF Follows
    <3>2. Typed(n, es, b + 1)
      <4>1. ASSUME NEW x \in es
            PROVE  x \in Edits /\ x <= nextEdit /\ basis[x].note = n /\ basis[x].version <= b + 1
        <5>1. x \in Edits /\ x <= nextEdit /\ basis[x].note = n /\ basis[x].version <= b
          BY <1>1 DEF Typed
        <5>2. basis[x].version \in Nat
          BY <5>1 DEF PromiseInv, BasisOK
        <5> QED BY <1>0, <5>1, <5>2
      <4> QED BY <4>1 DEF Typed
    <3>3. Novel(n, es, b + 1)
      <4>1. ASSUME NEW u \in 1..(b + 1)
            PROVE  es \cap commits[n][u].edits \subseteq commits[n][b + 1].edits
        <5>1. u = b + 1 \/ u \in 1..b
          BY <1>0
        <5> QED BY <1>1, <3>1, <5>1 DEF Novel
      <4> QED BY <4>1 DEF Novel
    <3> QED BY <1>0, <2>2, <3>1, <3>2, <3>3
  <2>3. ASSUME NEW v \in 1..Version(n), Copy(n).base < v, Copy(n)'.base = v, ~Copy(n)'.dirty,
               Copy(n)'.edits = commits[n][v].edits
        PROVE  /\ Typed(n, Copy(n)'.edits, Copy(n)'.base) /\ Novel(n, Copy(n)'.edits, Copy(n)'.base)
               /\ ~Copy(n)'.dirty => Copy(n)'.edits \subseteq InVault(n)
               /\ Copy(n).base <= Copy(n)'.base /\ Copy(n)'.base \in Nat
               /\ Copy(n).edits \subseteq Copy(n)'.edits \/ Copy(n).base < Version(n)
    BY <1>0, <1>1, <2>3 DEF Novel
  <2> QED BY <2>1, <2>2, <2>3 DEF Moves
<1>3. Rooted(n, Copy(n).edits, Copy(n).base)'
  BY <1>2 DEF Rooted, Typed, Novel
<1>4. (~Copy(n).dirty => Copy(n).edits \subseteq InVault(n))'
  BY <1>0, <1>2
<1>5. (InStore(n) \subseteq Copy(n).edits \cup InVault(n))'
  BY <1>0, <1>1 DEF Saves
<1>6. (\A v \in 1..Version(n) : Typed(n, commits[n][v].edits, v))'
  BY <1>0, <1>1 DEF Typed
<1>7. (\A w \in stray[n] : Latent(n, w))'
  <2> SUFFICES ASSUME NEW w \in stray[n]
               PROVE  Latent(n, w)'
    OBVIOUS
  <2>1. /\ Rooted(n, w.body.edits, w.ver) /\ w.ver <= Copy(n).base /\ w.ver \in Nat
        /\ w.ver = Version(n) => w.body.edits \subseteq Copy(n).edits \cup InVault(n)
    BY <1>1, NoteFacts DEF Latent, TypeOK, Stray, SoundNote, SoundStray, Sound
  <2>2. Rooted(n, w.body.edits, w.ver)'
    BY <2>1 DEF Rooted, Typed, Novel
  <2>4. w.ver <= Copy(n)'.base
    BY <1>0, <1>2, <2>1
  <2>5. w.ver = Version(n) => w.body.edits \subseteq Copy(n)'.edits \cup InVault(n)
    BY <1>0, <1>2, <2>1
  <2> QED BY <1>0, <2>2, <2>4, <2>5 DEF Latent
<1>8. Follows(n)'
  BY DEF Follows
<1> QED BY <1>3, <1>4, <1>5, <1>6, <1>7, <1>8 DEF Traced

-----------------------------------------------------------------------------
(* The fate of an edit, and the steps of the promise.                      *)

\* Where an edit is, in terms of the copies.
Whereabouts(x) ==
  IF x > nextEdit THEN "unmade"
    ELSE IF \E n \in Notes : x \in InVault(n) THEN "kept"
    ELSE IF \E n \in Notes : x \in Copy(n).edits THEN "pending" ELSE "superseded"

FatesKnown == \A x \in Edits : Fate(x) = Whereabouts(x)

\* A snapshot that is to be written is as good as a document.
LEMMA FateIs ==
  IInv /\ PromiseInv => FatesKnown
<1> SUFFICES ASSUME IInv, PromiseInv, NEW x \in Edits
             PROVE  Fate(x) = Whereabouts(x)
  BY DEF FatesKnown
<1> DEFINE Kept == \E n \in Notes : x \in InVault(n)
           Waiting == \E n \in Notes : x \in InDoc(n) \/ (x \in InStore(n) /\ store[n].dirty)
           Copied == \E n \in Notes : x \in Copy(n).edits
<1>1. nextEdit \in Nat /\ x \in Nat
  BY BoundsAssumption DEF IInv, Descent, TypeOK, Edits
<1>2. Fate(x) = IF x > nextEdit THEN "unmade" ELSE IF Kept THEN "kept"
                  ELSE IF Waiting THEN "pending" ELSE "superseded"
  <2>1. (x > nextEdit) <=> ~(x <= nextEdit)
    BY <1>1
  <2> QED BY <2>1 DEF Fate
<1>3. ASSUME ~Kept
      PROVE  Waiting <=> Copied
  <2>1. ASSUME NEW n \in Notes
        PROVE  x \in InDoc(n) \/ (x \in InStore(n) /\ store[n].dirty) <=> x \in Copy(n).edits
    <3>1. /\ ~Copy(n).dirty => Copy(n).edits \subseteq InVault(n)
          /\ InStore(n) \subseteq Copy(n).edits \cup InVault(n)
          /\ x \notin InVault(n)
      BY <1>3 DEF PromiseInv, Traced
    <3>2. CASE docs[n] # NoDoc
      <4>1. InDoc(n) = Copy(n).edits
        BY <3>2 DEF InDoc, Copy, CopyOf
      <4> QED BY <3>1, <4>1
    <3>3. CASE docs[n] = NoDoc /\ store[n] # NoEntry
      <4>1. InDoc(n) = {} /\ InStore(n) = Copy(n).edits /\ store[n].dirty = Copy(n).dirty
        BY <3>3 DEF InDoc, InStore, Copy, CopyOf
      <4> QED BY <3>1, <4>1
    <3>4. CASE docs[n] = NoDoc /\ store[n] = NoEntry
      BY <3>4 DEF InDoc, InStore, Copy, CopyOf
    <3> QED BY <3>2, <3>3, <3>4
  <2> QED BY <2>1
<1> QED BY <1>2, <1>3 DEF Whereabouts

\* So it is after a step.
LEMMA FateNext ==
  IInv' /\ PromiseInv' => FatesKnown'
BY FateIs, PTL

-----------------------------------------------------------------------------
(* The steps of SharedNote, in terms of the history and of the fates.      *)

\* The history and the fates that the promise is about.
Histories == [n \in Notes |-> [v \in 1..Version(n) |->
                [ext |-> commits[n][v].ext, edits |-> commits[n][v].edits]]]
Fates == [e \in Edits |-> Fate(e)]

\* The edits of a note that are still to be written.
Awaited(n) == {x \in Edits : Fate(x) = "pending" /\ basis[x].note = n}

\* What leaves history and fates alone is none of the promise's business.
LEMMA PromiseStands ==
  ASSUME Histories' = Histories, Fates' = Fates, basis' = basis
  PROVE  UNCHANGED Promise!shared
BY DEF Promise!shared, Histories, Fates

\* Edits on older versions are given up.
LEMMA PromiseGivesUp ==
  ASSUME NEW n \in Notes, Histories' = Histories, basis' = basis,
         NEW es, es \subseteq {x \in Awaited(n) : basis[x].version < Len(Histories[n])},
         Fates' = [x \in Edits |-> IF x \in es THEN "superseded" ELSE Fates[x]]
  PROVE  Promise!Next
<1>1. Promise!Becomes(es, "superseded")
  BY DEF Promise!Becomes, Fates
<1>2. es \in SUBSET {x \in Promise!Pending(n) : basis[x].version < Len(Histories[n])}
  BY DEF Promise!Pending, Awaited
<1>3. Promise!GiveUp(n)
  BY <1>1, <1>2 DEF Promise!GiveUp, Histories
<1> QED BY <1>3 DEF Promise!Next

\* Edits are written on top of the last version.
LEMMA PromiseWritten ==
  ASSUME NEW n \in Notes, basis' = basis, NEW es, es \subseteq Awaited(n),
         Histories' = [Histories EXCEPT ![n] =
           Append(@, [Histories[n][Len(Histories[n])] EXCEPT !.edits = @ \cup es])],
         Fates' = [x \in Edits |-> IF x \in es THEN "kept" ELSE Fates[x]]
  PROVE  Promise!Next
<1>1. Promise!Becomes(es, "kept")
  BY DEF Promise!Becomes, Fates
<1>2. es \in SUBSET Promise!Pending(n)
  BY DEF Promise!Pending, Awaited
<1>3. Promise!Grows(n, [Promise!Last(n) EXCEPT !.edits = @ \cup es])
  BY DEF Promise!Grows, Promise!Last, Histories
<1>4. Promise!WriteBack(n)
  BY <1>1, <1>2, <1>3 DEF Promise!WriteBack
<1> QED BY <1>4 DEF Promise!Next

\* Somebody else writes.
LEMMA PromiseOverwritten ==
  ASSUME NEW n \in Notes, basis' = basis, Fates' = Fates,
         Histories' = [Histories EXCEPT ![n] =
           Append(@, [ext |-> Len(Histories[n]) + 1, edits |-> {}])]
  PROVE  Promise!Next
<1>1. Promise!Grows(n, [ext |-> Len(Histories[n]) + 1, edits |-> {}])
  BY DEF Promise!Grows, Histories
<1>2. Promise!Overwrite(n)
  BY <1>1 DEF Promise!Overwrite, Histories, Fates
<1> QED BY <1>2 DEF Promise!Next

\* An edit is made on a version that the note has had.
LEMMA PromiseTyped ==
  ASSUME NEW n \in Notes, NEW x \in Edits, Fates[x] = "unmade", Histories' = Histories,
         Fates' = [y \in Edits |-> IF y \in {x} THEN "pending" ELSE Fates[y]],
         NEW v \in 1..Len(Histories[n]), basis' = [basis EXCEPT ![x] = [note |-> n, version |-> v]]
  PROVE  Promise!Next
<1>1. Promise!Becomes({x}, "pending")
  BY DEF Promise!Becomes, Fates
<1>2. Promise!Type(n, x)
  BY <1>1 DEF Promise!Type, Histories, Fates
<1> QED BY <1>2 DEF Promise!Next

\* The promise is about notes that nobody has edited yet.
LEMMA PromiseBegins ==
  ASSUME CollabInit, Notes # {}
  PROVE  Promise!Init
<1>1. \A n \in Notes : commits[n] = <<[ext |-> 1, edits |-> {}, torn |-> FALSE]>>
  BY DEF CollabInit, Init
<1>2. ASSUME NEW n \in Notes
      PROVE  [v \in 1..Version(n) |-> [ext |-> commits[n][v].ext, edits |-> commits[n][v].edits]]
               = <<[ext |-> 1, edits |-> {}]>>
  <2> DEFINE f == [v \in 1..Version(n) |->
                    [ext |-> commits[n][v].ext, edits |-> commits[n][v].edits]]
  <2>1. Version(n) = 1 /\ commits[n][1] = [ext |-> 1, edits |-> {}, torn |-> FALSE]
    BY <1>1 DEF Version
  <2>2. f = [v \in 1..1 |-> [ext |-> 1, edits |-> {}]]
    BY <2>1
  <2>3. <<[ext |-> 1, edits |-> {}]>> = [v \in 1..1 |-> [ext |-> 1, edits |-> {}]]
    OBVIOUS
  <2> QED BY <2>2, <2>3
<1>3. \A x \in Edits : Fate(x) = "unmade"
  BY DEF CollabInit, Init, Edits, Fate
<1>4. basis \in [Edits -> [note : Notes, version : {0}]]
  BY DEF CollabInit
<1> QED BY <1>2, <1>3, <1>4 DEF Promise!Init

-----------------------------------------------------------------------------
(* What an operation, the engine, the timers and the stream do.            *)

\* The fates, as the promise has them.
LEMMA FatesAre ==
  ASSUME IInv, PromiseInv, IInv', PromiseInv'
  PROVE  /\ \A x \in Edits : Fate(x) = Whereabouts(x) /\ Fates[x] = Whereabouts(x)
         /\ Fates' = [x \in Edits |-> Whereabouts(x)']
<1>1. FatesKnown /\ FatesKnown'
  BY FateIs, FateNext
<1>2. \A x \in Edits : Fate(x) = Whereabouts(x)
  BY <1>1 DEF FatesKnown
<1>3. \A x \in Edits : Fate(x)' = Whereabouts(x)'
  BY <1>1 DEF FatesKnown
<1>4. Fates' = [x \in Edits |-> Fate(x)']
  BY DEF Fates
<1> QED BY <1>2, <1>3, <1>4 DEF Fates

\* Nobody commits: the history stands.
LEMMA HistoryStands ==
  ASSUME commits' = commits
  PROVE  Histories' = Histories
BY DEF Histories, Version

\* What is in the copy of a note was typed on it, and is pending unless it is kept.
LEMMA CopiesWait ==
  ASSUME IInv, PromiseInv, NEW n \in Notes, NEW x \in Copy(n).edits
  PROVE  /\ x \in Edits /\ x <= nextEdit /\ basis[x].note = n /\ basis[x].version \in Nat
         /\ basis[x].version <= Copy(n).base
         /\ ~(x > nextEdit)
         /\ Whereabouts(x) = IF \E m \in Notes : x \in InVault(m) THEN "kept" ELSE "pending"
<1>1. x \in Edits /\ x <= nextEdit /\ basis[x].note = n /\ basis[x].version <= Copy(n).base
  BY DEF PromiseInv, Traced, Rooted, Typed
<1>2. basis[x].version \in Nat
  BY <1>1 DEF PromiseInv, BasisOK
<1>3. nextEdit \in Nat /\ x \in Nat
  BY <1>1, CopyFacts, BoundsAssumption DEF Edits
<1>4. ~(x > nextEdit)
  BY <1>1, <1>3
<1> QED BY <1>1, <1>2, <1>4 DEF Whereabouts

\* No copy changes: neither does a fate.
LEMMA FatesStand ==
  ASSUME IInv, PromiseInv, IInv', PromiseInv', UNCHANGED <<commits, nextEdit, basis>>,
         \A m \in Notes : Copy(m)' = Copy(m)
  PROVE  UNCHANGED Promise!shared
<1>1. ASSUME NEW x \in Edits
      PROVE  Whereabouts(x)' = Whereabouts(x)
  BY VaultStays DEF Whereabouts
<1>2. Fates' = Fates
  BY <1>1, FatesAre DEF Fates
<1> QED BY <1>2, HistoryStands, PromiseStands

\* The copy of one note sheds edits for a newer version: they are given up.
LEMMA FatesShed ==
  ASSUME IInv, PromiseInv, IInv', PromiseInv', UNCHANGED <<commits, nextEdit, basis>>,
         NEW n \in Notes, \A m \in Notes \ {n} : Copy(m)' = Copy(m),
         Copy(n)'.edits \subseteq Copy(n).edits \cup InVault(n),
         Copy(n).edits \subseteq Copy(n)'.edits \/ Copy(n).base < Version(n)
  PROVE  Promise!Next
<1> DEFINE Kept(x) == \E m \in Notes : x \in InVault(m)
           es == {x \in Copy(n).edits \ Copy(n)'.edits : ~Kept(x)}
<1>1. \A x \in Edits : Kept(x)' <=> Kept(x)
  BY VaultStays
<1>2. ASSUME NEW x \in es
      PROVE  x \in Awaited(n) /\ basis[x].version < Len(Histories[n])
  <2>1. x \in Copy(n).edits /\ ~Kept(x) /\ Copy(n).base < Version(n)
    OBVIOUS
  <2>2. /\ x \in Edits /\ basis[x].note = n /\ basis[x].version \in Nat
        /\ basis[x].version <= Copy(n).base /\ Whereabouts(x) = "pending"
    BY <2>1, CopiesWait
  <2>3. Fate(x) = "pending"
    BY <2>2, FatesAre
  <2>4. Version(n) \in Nat /\ Copy(n).base \in Nat
    BY CopyFacts
  <2>5. Len(Histories[n]) = Version(n)
    BY <2>4 DEF Histories
  <2> QED BY <2>1, <2>2, <2>3, <2>4, <2>5 DEF Awaited
<1>3. ASSUME NEW x \in Edits
      PROVE  Whereabouts(x)' = IF x \in es THEN "superseded" ELSE Whereabouts(x)
  <2>1. CASE x > nextEdit
    <3>1. x \notin es
      BY <2>1, CopiesWait
    <3> QED BY <2>1, <3>1 DEF Whereabouts
  <2>2. CASE ~(x > nextEdit) /\ Kept(x)
    <3>1. x \notin es
      BY <2>2
    <3>2. Whereabouts(x)' = "kept" /\ Whereabouts(x) = "kept"
      BY <1>1, <2>2 DEF Whereabouts
    <3> QED BY <3>1, <3>2
  <2>3. CASE ~(x > nextEdit) /\ ~Kept(x)
    <3>1. /\ Whereabouts(x)' = IF \E m \in Notes : x \in Copy(m)'.edits
                                 THEN "pending" ELSE "superseded"
          /\ Whereabouts(x) = IF \E m \in Notes : x \in Copy(m).edits
                                 THEN "pending" ELSE "superseded"
      BY <1>1, <2>3 DEF Whereabouts
    <3>2. CASE x \in es
      <4>1. x \notin Copy(n)'.edits /\ basis[x].note = n
        BY <3>2, CopiesWait
      <4>2. ASSUME NEW m \in Notes \ {n}
            PROVE  x \notin Copy(m)'.edits
        BY <4>1, CopiesWait
      <4> QED BY <3>1, <3>2, <4>1, <4>2
    <3>3. CASE x \notin es
      <4>1. x \in Copy(n).edits <=> x \in Copy(n)'.edits
        BY <2>3, <3>3
      <4>2. \A m \in Notes : x \in Copy(m).edits <=> x \in Copy(m)'.edits
        BY <4>1
      <4> QED BY <3>1, <3>3, <4>2
    <3> QED BY <3>2, <3>3
  <2> QED BY <2>1, <2>2, <2>3
<1> HIDE DEF es
<1>4. Fates' = [x \in Edits |-> IF x \in es THEN "superseded" ELSE Fates[x]]
  BY <1>3, FatesAre
<1>5. es \subseteq {x \in Awaited(n) : basis[x].version < Len(Histories[n])}
  BY <1>2
<1> QED BY <1>4, <1>5, HistoryStands, PromiseGivesUp

\* What stays traced: a note whose copy and history a step leaves alone.
LEMMA UntouchedTraced ==
  ASSUME IInv, PromiseInv, NEW m \in Notes, commits'[m] = commits[m],
         \A w \in stray'[m] : Latent(m, w),
         Copy(m)' = Copy(m), InStore(m)' = InStore(m), docs'[m].tracked = docs[m].tracked,
         run'[m].at = "writing" /\ run'[m].net = "note" => run'[m] = run[m],
         nextEdit' \in Nat, nextEdit <= nextEdit',
         \A x \in Edits : x <= nextEdit => basis'[x] = basis[x]
  PROVE  Traced(m)'
<1>0. /\ Follows(m) /\ Typed(m, Copy(m).edits, Copy(m).base) /\ Novel(m, Copy(m).edits, Copy(m).base)
      /\ ~Copy(m).dirty => Copy(m).edits \subseteq InVault(m)
      /\ InStore(m) \subseteq Copy(m).edits \cup InVault(m)
      /\ \A v \in 1..Version(m) : Typed(m, commits[m][v].edits, v)
  BY DEF PromiseInv, Traced, Rooted
<1>1. InVault(m)' = InVault(m) /\ Version(m)' = Version(m)
  BY DEF InVault, Version
<1>2. ASSUME NEW es, NEW v, Typed(m, es, v)
      PROVE  \A x \in es : x \in Edits /\ x <= nextEdit' /\ basis'[x].note = m /\ basis'[x].version <= v
  <2> SUFFICES ASSUME NEW x \in es
               PROVE  /\ x \in Edits /\ x <= nextEdit' /\ basis'[x].note = m
                      /\ basis'[x].version <= v
    OBVIOUS
  <2>1. nextEdit \in Nat /\ Edits \subseteq Nat
    BY CopyFacts, BoundsAssumption DEF Edits
  <2>2. x \in Edits /\ x <= nextEdit /\ basis[x].note = m /\ basis[x].version <= v
    BY <1>2 DEF Typed
  <2>3. x \in Nat /\ basis'[x] = basis[x]
    BY <2>1, <2>2
  <2>4. x <= nextEdit'
    BY <2>1, <2>2, <2>3
  <2> QED BY <2>2, <2>3, <2>4
<1>3. Rooted(m, Copy(m).edits, Copy(m).base)'
  <2>1. Typed(m, Copy(m).edits, Copy(m).base)'
    BY <1>0, <1>2 DEF Typed
  <2>2. Novel(m, Copy(m).edits, Copy(m).base)'
    BY <1>0 DEF Novel
  <2> QED BY <2>1, <2>2 DEF Rooted
<1>4. (\A v \in 1..Version(m) : Typed(m, commits[m][v].edits, v))'
  <2>1. \A v \in 1..Version(m) : \A x \in commits[m][v].edits :
          x \in Edits /\ x <= nextEdit' /\ basis'[x].note = m /\ basis'[x].version <= v
    BY <1>0, <1>2
  <2> QED BY <1>1, <2>1 DEF Typed
<1>5. (\A w \in stray[m] : Latent(m, w))'
  <2> SUFFICES ASSUME NEW w \in stray'[m]
               PROVE  Latent(m, w)'
    OBVIOUS
  <2>1. /\ Typed(m, w.body.edits, w.ver) /\ Novel(m, w.body.edits, w.ver) /\ w.ver <= Copy(m).base
        /\ w.ver = Version(m) => w.body.edits \subseteq Copy(m).edits \cup InVault(m)
    BY DEF Latent, Rooted
  <2>2. Typed(m, w.body.edits, w.ver)'
    <3>1. \A x \in w.body.edits :
            x \in Edits /\ x <= nextEdit' /\ basis'[x].note = m /\ basis'[x].version <= w.ver
      BY <1>2, <2>1
    <3> QED BY <3>1 DEF Typed
  <2>3. Novel(m, w.body.edits, w.ver)'
    BY <2>1 DEF Novel
  <2> QED BY <1>1, <2>1, <2>2, <2>3 DEF Latent, Rooted
<1>6. Follows(m)'
  BY <1>0 DEF Follows
<1> QED BY <1>0, <1>1, <1>3, <1>4, <1>5, <1>6 DEF Traced

\* A stretch of an operation keeps the promise.
LEMMA StretchPromised ==
  ASSUME CollabInv, Faithful, PromiseInv, NEW n \in Notes, Begin(n) \/ Reply(n), basis' = basis
  PROVE  PromiseInv' /\ [Promise!Next]_(Promise!shared)
<1> DEFINE op == IF run[n] = Idle THEN Head(ops[n]) ELSE run[n].op
<1>1. IInv /\ IInv' /\ TypeOK /\ Placed(n) /\ EngineInv /\ Fits(n)
      /\ (docs[n] # NoDoc => docs[n].mapped) /\ run[n].net # "missing"
  BY NextInv DEF CollabInv, Places, EngineInv, Fits, InScope, EngineHolds, IInv, Descent, Next
<1>2. /\ UNCHANGED <<commits, stray, nextEdit>>
      /\ \/ run[n] = Idle /\ ops[n] # <<>> /\ op = Head(ops[n]) /\ ops' = [ops EXCEPT ![n] = Tail(@)]
         \/ run[n] # Idle /\ op = run[n].op /\ ops' = ops
      /\ Sends(n, op) /\ \E begun : Kind(n, op, begun)
  <2>1. CASE Begin(n)
    <3>1. run[n] = Idle /\ ops[n] # <<>> /\ op = Head(ops[n]) /\ Head(ops[n]) \in OpKinds
      BY <1>1, <2>1, NoteFacts DEF Begin
    <3>2. Sends(n, op)
      BY <2>1, <3>1, BeginSends
    <3>3. Kind(n, op, TRUE)
      BY <1>1, <2>1, <3>1, BeginKind
    <3> HIDE DEF op
    <3> QED BY <2>1, <3>1, <3>2, <3>3 DEF Begin, vaultVars, countVars
  <2>2. CASE Reply(n)
    <3>1. run[n] # Idle /\ UNCHANGED Elsewhere
      BY <2>2, IdleRun DEF Reply, LoadReply, CheckReply, RevalidateReply, WriteReply, WinnerReply,
                           Answered
    <3>2. Sends(n, op) /\ Kind(n, op, FALSE)
      BY <1>1, <2>2, <3>1, ReplySends, ReplyKind
    <3> HIDE DEF op
    <3> QED BY <3>1, <3>2, <2>2 DEF Elsewhere, vaultVars, countVars, op
  <2> QED BY <2>1, <2>2
<1>3. PICK begun : Kind(n, op, begun)
  BY <1>2
<1>4. op # "removed"
  <2>1. OpAt(n, 1) = op /\ 1 \in 1..Queue(n)
    BY <1>1, <1>2, ChainMoves
  <2> QED BY <1>1, <2>1 DEF Fits, Chained, Hooked, Plain
<1> HIDE DEF op
<1>5. Moves(n) /\ Saves(n) /\ Others(n)
  BY <1>1, <1>3, <1>4, KindMoves, KindPlaced
<1>6. ~(run'[n].at = "writing" /\ run'[n].net = "note")
  <2>1. PICK r : run' = [run EXCEPT ![n] = r] /\ (r = Idle \/ (r.net = "sent" /\ r.op = op))
    BY <1>2 DEF Sends
  <2> QED BY <1>1, <2>1, IdleRun DEF TypeOK
<1>7. Traced(n)'
  BY <1>1, <1>2, <1>5, <1>6, MovesTraced
<1>8. ASSUME NEW m \in Notes \ {n}
      PROVE  Copy(m)' = Copy(m) /\ Traced(m)'
  <2>1. docs'[m] = docs[m] /\ store'[m] = store[m] /\ run'[m] = run[m]
    BY <1>5 DEF Others
  <2>2. Copy(m)' = Copy(m) /\ InStore(m)' = InStore(m)
    BY <2>1 DEF Copy, InStore
  <2>3. /\ nextEdit' \in Nat /\ nextEdit <= nextEdit' /\ commits'[m] = commits[m]
        /\ \A w \in stray'[m] : Latent(m, w)
    BY <1>1, <1>2, CopyFacts DEF PromiseInv, Traced
  <2> QED BY <1>1, <2>1, <2>2, <2>3, UntouchedTraced
<1>9. PromiseInv'
  BY <1>7, <1>8 DEF PromiseInv, BasisOK
<1>10. /\ Copy(n)'.edits \subseteq Copy(n).edits \cup InVault(n)
       /\ Copy(n).edits \subseteq Copy(n)'.edits \/ Copy(n).base < Version(n)
  BY <1>1, <1>5, MovesShed
<1>11. Promise!Next
  <2>1. \A m \in Notes \ {n} : Copy(m)' = Copy(m)
    BY <1>8
  <2> QED BY <1>1, <1>2, <1>9, <1>10, <2>1, FatesShed
<1> QED BY <1>9, <1>11

\* The engine, the timers and the stream leave the copies alone.
LEMMA StillPromised ==
  ASSUME IInv, PromiseInv, IInv', UNCHANGED <<commits, nextEdit, basis, store>>,
         \A m \in Notes : /\ docs'[m] = docs[m] \/ Alike(docs[m], docs'[m])
                          /\ \A w \in stray'[m] : Latent(m, w)
                          /\ run'[m].at = "writing" /\ run'[m].net = "note" => run'[m] = run[m]
  PROVE  PromiseInv' /\ UNCHANGED Promise!shared
<1>1. ASSUME NEW m \in Notes
      PROVE  Copy(m)' = Copy(m) /\ Traced(m)'
  <2>1. Copy(m)' = Copy(m) /\ docs'[m].tracked = docs[m].tracked
    <3>1. CASE docs'[m] = docs[m]
      BY <3>1 DEF Copy
    <3>2. CASE Alike(docs[m], docs'[m])
      <4>1. docs[m] # NoDoc /\ docs'[m] # NoDoc
        BY <3>2, DocsAreReal DEF Alike
      <4> QED BY <3>2, <4>1 DEF Copy, CopyOf, Alike
    <3> QED BY <3>1, <3>2
  <2>2. InStore(m)' = InStore(m)
    BY DEF InStore
  <2>3. nextEdit' \in Nat /\ nextEdit <= nextEdit' /\ commits'[m] = commits[m]
    BY CopyFacts
  <2> QED BY <2>1, <2>2, <2>3, UntouchedTraced
<1>2. PromiseInv'
  BY <1>1 DEF PromiseInv, BasisOK
<1> QED BY <1>1, <1>2, FatesStand

-----------------------------------------------------------------------------
(* What a commit does.                                                     *)

\* What a commit adds to the vault.
LEMMA VaultAppends ==
  ASSUME IInv, NEW n \in Notes, NEW x \in Content, commits' = [commits EXCEPT ![n] = Append(@, x)]
  PROVE  /\ Version(n) \in Nat \ {0} /\ Version(n)' = Version(n) + 1
         /\ commits'[n] = Append(commits[n], x)
         /\ commits'[n][Version(n) + 1] = x
         /\ \A v \in 1..Version(n) : commits'[n][v] = commits[n][v]
         /\ InVault(n)' = InVault(n) \cup x.edits
         /\ \A m \in Notes \ {n} : commits'[m] = commits[m] /\ InVault(m)' = InVault(m)
<1> DEFINE as == Append(commits[n], x)
           len == Len(commits[n])
<1>1. /\ commits[n] \in History /\ len \in Nat \ {0} /\ TypeOK
      /\ Len(as) = len + 1 /\ as[len + 1] = x
      /\ \A v \in 1..len : as[v] = commits[n][v]
  BY NoteFacts, HistoryGrows
<1>2. commits'[n] = as /\ \A m \in Notes \ {n} : commits'[m] = commits[m]
  BY <1>1 DEF TypeOK
<1>3. InVault(n)' = InVault(n) \cup x.edits
  <2>1. \A y : y \in InVault(n)' <=> \E v \in 1..Len(as) : y \in as[v].edits
    BY <1>2 DEF InVault, Version
  <2>2. \A y : y \in InVault(n) <=> \E v \in 1..len : y \in commits[n][v].edits
    BY DEF InVault, Version
  <2>3. ASSUME NEW v
        PROVE  v \in 1..(len + 1) <=> v \in 1..len \/ v = len + 1
    BY <1>1
  <2> HIDE DEF as, len
  <2>4. ASSUME NEW y
        PROVE  y \in InVault(n)' <=> y \in InVault(n) \/ y \in x.edits
    BY <1>1, <2>1, <2>2, <2>3
  <2> QED BY <2>4
<1>4. \A m \in Notes \ {n} : InVault(m)' = InVault(m)
  BY <1>2 DEF InVault, Version
<1> QED BY <1>1, <1>2, <1>3, <1>4 DEF Version

\* A version and a history, as the promise has them.
Text(c) == [ext |-> c.ext, edits |-> c.edits]
Texts(cs) == [v \in 1..Len(cs) |-> Text(cs[v])]

\* More edits on top of the same text.
LEMMA TextGrows ==
  ASSUME NEW c \in Content, NEW es \in SUBSET Edits
  PROVE  [Text(c) EXCEPT !.edits = @ \cup es] = [ext |-> c.ext, edits |-> c.edits \cup es]
<1> DEFINE r == Text(c)
<1>1. r \in [ext : Nat, edits : SUBSET Edits] /\ r.ext = c.ext /\ r.edits = c.edits
  BY DEF Text, Content
<1> HIDE DEF r
<1>2. [r EXCEPT !.edits = r.edits \cup es] = [ext |-> r.ext, edits |-> r.edits \cup es]
  BY <1>1
<1> QED BY <1>1, <1>2 DEF r

\* What it adds to the history.
LEMMA HistoryAppends ==
  ASSUME IInv, NEW n \in Notes, NEW x \in Content, commits' = [commits EXCEPT ![n] = Append(@, x)]
  PROVE  /\ Len(Histories[n]) = Version(n)
         /\ Histories[n][Version(n)] = Text(commits[n][Version(n)])
         /\ Histories' = [Histories EXCEPT ![n] = Append(Histories[n], Text(x))]
<1> DEFINE as == Append(commits[n], x)
           len == Len(commits[n])
<1>1. /\ len \in Nat \ {0} /\ Len(as) = len + 1 /\ as[len + 1] = x
      /\ \A v \in 1..len : as[v] = commits[n][v]
  BY NoteFacts, HistoryGrows
<1>2. commits'[n] = as /\ \A m \in Notes \ {n} : commits'[m] = commits[m]
  BY VaultAppends
<1>3. Histories = [m \in Notes |-> Texts(commits[m])]
  BY DEF Histories, Version, Texts, Text
<1>4. Histories' = [m \in Notes |-> Texts(commits'[m])]
  BY DEF Histories, Version, Texts, Text
<1>5. Texts(as) = Append(Texts(commits[n]), Text(x))
  <2>1. /\ Texts(commits[n]) = [v \in 1..len |-> Text(commits[n][v])]
        /\ Texts(as) = [v \in 1..(len + 1) |-> Text(as[v])]
    BY <1>1 DEF Texts
  <2>2. /\ Texts(commits[n]) \in Seq({Text(commits[n][v]) : v \in 1..len})
        /\ Len(Texts(commits[n])) = len
    BY <1>1, <2>1
  <2> HIDE DEF as, len
  <2>3. Append(Texts(commits[n]), Text(x))
          = [v \in 1..(len + 1) |-> IF v = len + 1 THEN Text(x) ELSE Texts(commits[n])[v]]
    BY <1>1, <2>2
  <2>4. ASSUME NEW v \in 1..(len + 1)
        PROVE  Text(as[v]) = IF v = len + 1 THEN Text(x) ELSE Texts(commits[n])[v]
    <3>1. v = len + 1 \/ v \in 1..len
      BY <1>1
    <3>2. v \in 1..len => Texts(commits[n])[v] = Text(commits[n][v])
      BY <2>1
    <3> QED BY <1>1, <3>1, <3>2
  <2> QED BY <2>1, <2>3, <2>4
<1> HIDE DEF as
<1>6. \A m \in Notes : Texts(commits'[m]) = IF m = n THEN Append(Texts(commits[n]), Text(x))
                                                     ELSE Texts(commits[m])
  <2> SUFFICES ASSUME NEW m \in Notes
               PROVE  Texts(commits'[m]) = IF m = n THEN Append(Texts(commits[n]), Text(x))
                                                    ELSE Texts(commits[m])
    OBVIOUS
  <2>1. CASE m = n
    BY <1>2, <1>5, <2>1
  <2>2. CASE m # n
    BY <1>2, <2>2
  <2> QED BY <2>1, <2>2
<1>7. Histories' = [Histories EXCEPT ![n] = Append(Histories[n], Text(x))]
  BY <1>3, <1>4, <1>6
<1>8. /\ Len(Histories[n]) = len /\ Histories[n][len] = Text(commits[n][len])
  BY <1>1, <1>3 DEF Texts
<1> QED BY <1>7, <1>8 DEF Version

\* After a commit of edits that were typed on the versions before it, the note is traced.
LEMMA CommitTraced ==
  ASSUME IInv, PromiseInv, NEW n \in Notes, NEW x \in Content,
         commits' = [commits EXCEPT ![n] = Append(@, x)], Typed(n, x.edits, Version(n)),
         Copy(n)' = Copy(n), InStore(n)' = InStore(n), stray'[n] \subseteq stray[n],
         UNCHANGED <<nextEdit, basis>>, Follows(n)'
  PROVE  Traced(n)'
<1>0. /\ Typed(n, Copy(n).edits, Copy(n).base) /\ Novel(n, Copy(n).edits, Copy(n).base)
      /\ ~Copy(n).dirty => Copy(n).edits \subseteq InVault(n)
      /\ InStore(n) \subseteq Copy(n).edits \cup InVault(n)
      /\ \A v \in 1..Version(n) : Typed(n, commits[n][v].edits, v)
      /\ \A w \in stray[n] : Latent(n, w)
  BY DEF PromiseInv, Traced, Rooted
<1>1. /\ Version(n) \in Nat \ {0} /\ Version(n)' = Version(n) + 1
      /\ commits'[n][Version(n) + 1] = x
      /\ \A v \in 1..Version(n) : commits'[n][v] = commits[n][v]
      /\ InVault(n)' = InVault(n) \cup x.edits
      /\ Copy(n).base \in 0..Version(n)
  BY VaultAppends, CopyFacts
<1>2. ASSUME NEW es, NEW v \in 0..Version(n), Typed(n, es, v), Novel(n, es, v)
      PROVE  /\ \A y \in es : y \in Edits /\ y <= nextEdit' /\ basis'[y].note = n
                                /\ basis'[y].version <= v
             /\ \A u \in 1..v : es \cap commits'[n][u].edits \subseteq commits'[n][v].edits
  <2>1. \A u \in 1..v : u \in 1..Version(n) /\ v \in 1..Version(n)
    BY <1>1
  <2> QED BY <1>1, <1>2, <2>1 DEF Typed, Novel
<1>3. Rooted(n, Copy(n).edits, Copy(n).base)'
  <2>1. Typed(n, Copy(n).edits, Copy(n).base)'
    BY <1>0, <1>1, <1>2 DEF Typed
  <2>2. \A u \in 1..Copy(n).base :
          Copy(n).edits \cap commits'[n][u].edits \subseteq commits'[n][Copy(n).base].edits
    <3> DEFINE es == Copy(n).edits
               v == Copy(n).base
    <3>1. v \in 0..Version(n) /\ Typed(n, es, v) /\ Novel(n, es, v)
      BY <1>0, <1>1
    <3> HIDE DEF es, v
    <3>2. \A u \in 1..v : es \cap commits'[n][u].edits \subseteq commits'[n][v].edits
      BY <1>2, <3>1
    <3> QED BY <3>2 DEF es, v
  <2>3. Novel(n, Copy(n).edits, Copy(n).base)'
    BY <2>2 DEF Novel
  <2> QED BY <2>1, <2>3 DEF Rooted
<1>4. (\A v \in 1..Version(n) : Typed(n, commits[n][v].edits, v))'
  <2> SUFFICES ASSUME NEW v \in 1..(Version(n) + 1)
               PROVE  Typed(n, commits[n][v].edits, v)'
    BY <1>1
  <2>1. CASE v = Version(n) + 1
    <3>1. ASSUME NEW y \in x.edits
          PROVE  y \in Edits /\ y <= nextEdit /\ basis[y].note = n /\ basis[y].version <= v
      <4>1. /\ y \in Edits /\ y <= nextEdit /\ basis[y].note = n
            /\ basis[y].version <= Version(n)
        BY DEF Typed
      <4>2. basis[y].version \in Nat
        BY <4>1 DEF PromiseInv, BasisOK
      <4> QED BY <1>1, <2>1, <4>1, <4>2
    <3> QED BY <1>1, <2>1, <3>1 DEF Typed
  <2>2. CASE v \in 1..Version(n)
    <3>1. Typed(n, commits[n][v].edits, v) /\ commits'[n][v] = commits[n][v]
      BY <1>0, <1>1, <2>2
    <3> QED BY <3>1 DEF Typed
  <2>3. v = Version(n) + 1 \/ v \in 1..Version(n)
    BY <1>1
  <2> QED BY <2>1, <2>2, <2>3
<1>5. (\A w \in stray[n] : Latent(n, w))'
  <2> SUFFICES ASSUME NEW w \in stray'[n]
               PROVE  Latent(n, w)'
    OBVIOUS
  <2>1. /\ Typed(n, w.body.edits, w.ver) /\ Novel(n, w.body.edits, w.ver) /\ w.ver <= Copy(n).base
        /\ w \in stray[n]
    BY <1>0 DEF Latent, Rooted
  <2>2. w.ver \in Nat
    BY <2>1, NoteFacts DEF TypeOK, Stray
  <2>3. w.ver \in 0..Version(n) /\ w.ver # Version(n)'
    BY <1>1, <2>1, <2>2
  <2>4. /\ \A y \in w.body.edits : y \in Edits /\ y <= nextEdit' /\ basis'[y].note = n
                                     /\ basis'[y].version <= w.ver
        /\ \A u \in 1..w.ver :
             w.body.edits \cap commits'[n][u].edits \subseteq commits'[n][w.ver].edits
    <3> DEFINE es == w.body.edits
               v == w.ver
    <3>1. v \in 0..Version(n) /\ Typed(n, es, v) /\ Novel(n, es, v)
      BY <2>1, <2>3
    <3> HIDE DEF es, v
    <3>2. /\ \A y \in es : y \in Edits /\ y <= nextEdit' /\ basis'[y].note = n
                             /\ basis'[y].version <= v
          /\ \A u \in 1..v : es \cap commits'[n][u].edits \subseteq commits'[n][v].edits
      BY <1>2, <3>1
    <3> QED BY <3>2 DEF es, v
  <2>5. Rooted(n, w.body.edits, w.ver)'
    BY <2>4 DEF Rooted, Typed, Novel
  <2> QED BY <2>1, <2>3, <2>5 DEF Latent
<1>6. (~Copy(n).dirty => Copy(n).edits \subseteq InVault(n))'
  BY <1>0, <1>1
<1>7. (InStore(n) \subseteq Copy(n).edits \cup InVault(n))'
  BY <1>0, <1>1
<1> QED BY <1>3, <1>4, <1>5, <1>6, <1>7 DEF Traced

\* Somebody else's version holds none of the edits.
LEMMA FatesOverwritten ==
  ASSUME IInv, PromiseInv, IInv', PromiseInv', NEW n \in Notes, NEW x \in Content,
         commits' = [commits EXCEPT ![n] = Append(@, x)], x.ext = Version(n) + 1, x.edits = {},
         \A m \in Notes : Copy(m)' = Copy(m), UNCHANGED <<nextEdit, basis>>
  PROVE  Promise!Next
<1>1. /\ \A m \in Notes : InVault(m)' = InVault(m)
      /\ Len(Histories[n]) = Version(n)
      /\ Histories' = [Histories EXCEPT ![n] =
           Append(@, [ext |-> Len(Histories[n]) + 1, edits |-> {}])]
  <2>1. \A m \in Notes : InVault(m)' = InVault(m)
    BY VaultAppends
  <2>2. /\ Len(Histories[n]) = Version(n)
        /\ Histories' = [Histories EXCEPT ![n] = Append(Histories[n], Text(x))]
    BY HistoryAppends
  <2>3. Text(x) = [ext |-> Version(n) + 1, edits |-> {}]
    BY DEF Text
  <2> QED BY <2>1, <2>2, <2>3
<1>2. \A y \in Edits : Whereabouts(y)' = Whereabouts(y)
  BY <1>1 DEF Whereabouts
<1>3. Fates' = Fates
  BY <1>2, FatesAre DEF Fates
<1> QED BY <1>1, <1>3, PromiseOverwritten

\* A writeback on top of the last version makes what is new in it kept, all of which
\* was pending.
LEMMA FatesWritten ==
  ASSUME IInv, PromiseInv, IInv', PromiseInv', NEW n \in Notes, NEW x \in Content,
         commits' = [commits EXCEPT ![n] = Append(@, x)], Extends(x, commits[n][Version(n)]),
         Rooted(n, x.edits, Version(n)), x.edits \subseteq Copy(n).edits \cup InVault(n),
         \A m \in Notes : Copy(m)' = Copy(m), UNCHANGED <<nextEdit, basis>>
  PROVE  Promise!Next
<1> DEFINE last == commits[n][Version(n)]
           es == x.edits \ last.edits
<1>0. /\ Len(Histories[n]) = Version(n) /\ Histories[n][Version(n)] = Text(last)
      /\ Histories' = [Histories EXCEPT ![n] = Append(Histories[n], Text(x))]
  BY HistoryAppends
<1>1. /\ \A m \in Notes : InVault(m)' = IF m = n THEN InVault(n) \cup x.edits ELSE InVault(m)
      /\ Version(n) \in 1..Version(n)
  <2>1. /\ Version(n) \in Nat \ {0} /\ InVault(n)' = InVault(n) \cup x.edits
        /\ \A m \in Notes \ {n} : InVault(m)' = InVault(m)
    BY VaultAppends
  <2> QED BY <2>1
<1>2. x.ext = last.ext /\ x.edits = last.edits \cup es /\ last.edits \subseteq InVault(n)
  BY <1>1, CopyFacts DEF Extends
<1>3. Histories' = [Histories EXCEPT ![n] =
        Append(@, [Histories[n][Len(Histories[n])] EXCEPT !.edits = @ \cup es])]
  <2> HIDE DEF last, es
  <2>1. Text(x) = [Text(last) EXCEPT !.edits = @ \cup es]
    <3>1. last \in Content /\ es \in SUBSET Edits
      <4>1. last \in Content
        BY <1>1, CopyFacts DEF last
      <4>2. x.edits \subseteq Edits
        BY DEF Content
      <4> QED BY <4>1, <4>2 DEF es
    <3>2. [Text(last) EXCEPT !.edits = @ \cup es] = [ext |-> last.ext, edits |-> last.edits \cup es]
      BY <3>1, TextGrows, Zenon
    <3>3. Text(x) = [ext |-> last.ext, edits |-> last.edits \cup es]
      BY <1>2 DEF Text
    <3> QED BY <3>2, <3>3, Zenon
  <2>2. Text(x) = [Histories[n][Len(Histories[n])] EXCEPT !.edits = @ \cup es]
    BY <1>0, <2>1
  <2> QED BY <1>0, <2>2
<1>4. ASSUME NEW y \in es
      PROVE  /\ y \in Edits /\ ~(y > nextEdit) /\ basis[y].note = n /\ y \in Copy(n).edits
             /\ \A m \in Notes : y \notin InVault(m)
  <2>1. y \in Edits /\ basis[y].note = n /\ y <= nextEdit
    BY DEF Rooted, Typed
  <2>2. ASSUME NEW m \in Notes, NEW u \in 1..Version(m), y \in commits[m][u].edits
        PROVE  FALSE
    <3>1. m = n
      BY <2>1, <2>2 DEF PromiseInv, Traced, Typed
    <3>2. y \in last.edits
      BY <2>2, <3>1 DEF Rooted, Novel
    <3> QED BY <3>2
  <2>3. \A m \in Notes : y \notin InVault(m)
    BY <2>2 DEF InVault
  <2>4. y \in Nat /\ nextEdit \in Nat
    BY <2>1, CopyFacts, BoundsAssumption DEF Edits
  <2>5. ~(y > nextEdit)
    BY <2>1, <2>4
  <2> QED BY <2>1, <2>3, <2>5
<1>5. es \subseteq Awaited(n)
  <2> SUFFICES ASSUME NEW y \in es
               PROVE  y \in Awaited(n)
    OBVIOUS
  <2>1. Whereabouts(y) = "pending"
    BY <1>4 DEF Whereabouts
  <2> QED BY <1>4, <2>1, FatesAre DEF Awaited
<1> HIDE DEF es
<1>6. \A y \in Edits : Whereabouts(y)' = IF y \in es THEN "kept" ELSE Whereabouts(y)
  BY <1>1, <1>2, <1>4 DEF Whereabouts
<1>7. Fates' = [y \in Edits |-> IF y \in es THEN "kept" ELSE Fates[y]]
  BY <1>6, FatesAre
<1> QED BY <1>3, <1>5, <1>7, PromiseWritten

\* An acknowledgement on its way stays what it is when somebody commits.
LEMMA FollowsStands ==
  ASSUME IInv, PromiseInv, NEW n \in Notes, run'[n] = run[n], docs'[n] = docs[n],
         \A v \in 1..Version(n) : commits'[n][v] = commits[n][v]
  PROVE  Follows(n)'
<1> SUFFICES ASSUME run[n].at = "writing", run[n].net = "note"
             PROVE  /\ run[n].ver = docs[n].tracked + 1
                    /\ commits'[n][docs[n].tracked].edits \subseteq commits'[n][run[n].ver].edits
  BY DEF Follows
<1>1. /\ run[n].ver = docs[n].tracked + 1
      /\ commits[n][docs[n].tracked].edits \subseteq commits[n][run[n].ver].edits
  BY DEF PromiseInv, Traced, Follows
<1>2. run[n].ver \in 1..Version(n) /\ docs[n].tracked \in 1..Version(n)
  BY NoteFacts DEF SoundNote, SoundRead, SoundDoc, Sound, Awaits, Version
<1> QED BY <1>1, <1>2

\* What a writeback carries while it is on the wire.
LEMMA BodyRooted ==
  ASSUME IInv, PromiseInv, Faithful, NEW n \in Notes, run[n].at = "writing", run[n].net = "sent"
  PROVE  /\ run[n].body \in Content /\ run[n].ver = Copy(n).base /\ run[n].ver = docs[n].tracked
         /\ Rooted(n, run[n].body.edits, run[n].ver) /\ run[n].body.edits \subseteq Copy(n).edits
         /\ run[n].ver = Version(n) => Extends(run[n].body, commits[n][Version(n)])
         /\ run[n].ver \in 1..Version(n)
<1>1. /\ docs[n] # NoDoc /\ run[n].body \in Content /\ run[n].ver = docs[n].tracked
      /\ Sound(commits[n], run[n].body, run[n].ver, TRUE) /\ Extends(docs[n].content, run[n].body)
  BY NoteFacts DEF SoundNote, SoundRead, SoundWrite, Awaits, Running
<1>2. Copy(n).edits = docs[n].content.edits /\ Copy(n).base = docs[n].tracked
  BY <1>1, CopyFacts
<1>3. run[n].body.edits \subseteq Copy(n).edits
  BY <1>1, <1>2 DEF Extends
<1>4. Rooted(n, Copy(n).edits, run[n].ver)
  BY <1>1, <1>2 DEF PromiseInv, Traced
<1>5. Rooted(n, run[n].body.edits, run[n].ver)
  BY <1>3, <1>4 DEF Rooted, Typed, Novel
<1>6. run[n].ver = Version(n) => Extends(run[n].body, commits[n][Version(n)])
  BY <1>1 DEF Sound, Faithful, Traceable, Collaborative, Version
<1>7. run[n].ver \in 1..Version(n)
  BY <1>1 DEF Sound, Version
<1> QED BY <1>1, <1>2, <1>3, <1>5, <1>6, <1>7

\* A commit at one note leaves the others traced.
LEMMA OthersTraced ==
  ASSUME IInv, PromiseInv, NEW n \in Notes, Traced(n)', UNCHANGED <<docs, store, nextEdit, basis>>,
         \A m \in Notes \ {n} : /\ commits'[m] = commits[m] /\ stray'[m] = stray[m]
                                /\ run'[m] = run[m]
  PROVE  PromiseInv'
<1>1. ASSUME NEW m \in Notes \ {n}
      PROVE  Traced(m)'
  <2>1. Copy(m)' = Copy(m) /\ InStore(m)' = InStore(m) /\ docs'[m].tracked = docs[m].tracked
    BY DEF Copy, InStore
  <2>2. /\ nextEdit' \in Nat /\ nextEdit <= nextEdit' /\ commits'[m] = commits[m]
        /\ \A w \in stray'[m] : Latent(m, w)
    BY CopyFacts DEF PromiseInv, Traced
  <2> QED BY <2>1, <2>2, UntouchedTraced
<1> QED BY <1>1 DEF PromiseInv, BasisOK

\* Somebody else writes the note.
LEMMA OverwritePromised ==
  ASSUME IInv, IInv', PromiseInv, NEW n \in Notes, ExternalEdit(n), basis' = basis
  PROVE  PromiseInv' /\ [Promise!Next]_(Promise!shared)
<1> DEFINE x == [ext |-> Version(n) + 1, edits |-> {}, torn |-> FALSE]
<1>1. /\ commits' = [commits EXCEPT ![n] = Append(@, x)]
      /\ UNCHANGED <<stray, run, docs, store, nextEdit>>
  BY DEF ExternalEdit, Commit, machineVars, countVars
<1>2. x \in Content /\ x.ext = Version(n) + 1 /\ x.edits = {}
  <2>1. Version(n) \in Nat
    BY CopyFacts
  <2> QED BY <2>1 DEF Content
<1> HIDE DEF x
<1>3. /\ \A v \in 1..Version(n) : commits'[n][v] = commits[n][v]
      /\ \A m \in Notes \ {n} : commits'[m] = commits[m]
  BY <1>1, <1>2, VaultAppends
<1>4. \A m \in Notes : Copy(m)' = Copy(m) /\ InStore(m)' = InStore(m)
  BY <1>1 DEF Copy, InStore
<1>5. Follows(n)' /\ Typed(n, x.edits, Version(n))
  BY <1>1, <1>2, <1>3, FollowsStands DEF Typed
<1>6. Traced(n)'
  BY <1>1, <1>2, <1>4, <1>5, CommitTraced
<1>7. PromiseInv'
  BY <1>1, <1>3, <1>6, OthersTraced
<1> QED BY <1>1, <1>2, <1>4, <1>7, FatesOverwritten

\* A writeback lands.
LEMMA WritebackPromised ==
  ASSUME IInv, IInv', PromiseInv, NEW n \in Notes, NEW x \in Content, Commit(n, x),
         Extends(x, commits[n][Version(n)]), Rooted(n, x.edits, Version(n)),
         x.edits \subseteq Copy(n).edits \cup InVault(n), Follows(n)',
         stray'[n] \subseteq stray[n], \A m \in Notes \ {n} : stray'[m] = stray[m] /\ run'[m] = run[m],
         UNCHANGED <<docs, store, nextEdit, basis>>
  PROVE  PromiseInv' /\ [Promise!Next]_(Promise!shared)
<1>1. commits' = [commits EXCEPT ![n] = Append(@, x)]
  BY DEF Commit
<1>2. \A m \in Notes \ {n} : commits'[m] = commits[m]
  BY <1>1, VaultAppends
<1>3. \A m \in Notes : Copy(m)' = Copy(m) /\ InStore(m)' = InStore(m)
  BY DEF Copy, InStore
<1>4. Traced(n)'
  BY <1>1, <1>3, CommitTraced DEF Rooted
<1>5. PromiseInv'
  BY <1>2, <1>4, OthersTraced
<1> QED BY <1>1, <1>3, <1>5, FatesWritten

\* An answer that commits nothing.
LEMMA AnswerPromised ==
  ASSUME IInv, IInv', PromiseInv, NEW n \in Notes, UNCHANGED <<commits, Untouched, basis>>,
         \A m \in Notes \ {n} : stray'[m] = stray[m] /\ run'[m] = run[m],
         \A w \in stray'[n] : Latent(n, w),
         run'[n].at = "writing" /\ run'[n].net = "note" => run'[n] = run[n]
  PROVE  PromiseInv' /\ [Promise!Next]_(Promise!shared)
<1>1. UNCHANGED <<commits, nextEdit, basis, store, docs>>
  BY DEF Untouched, countVars
<1>2. ASSUME NEW m \in Notes
      PROVE  /\ docs'[m] = docs[m] /\ \A w \in stray'[m] : Latent(m, w)
             /\ run'[m].at = "writing" /\ run'[m].net = "note" => run'[m] = run[m]
  BY <1>1 DEF PromiseInv, Traced
<1> QED BY <1>1, <1>2, StillPromised

\* What an answer changes.
LEMMA AnswerCells ==
  ASSUME IInv, NEW n \in Notes, NEW STATE net, NEW STATE ver, Answer(n, net, ver)
  PROVE  /\ run'[n].net = net /\ run'[n].ver = ver /\ run'[n].at = run[n].at
         /\ run'[n].body = run[n].body
         /\ \A m \in Notes \ {n} : run'[m] = run[m]
<1> DEFINE q == [run[n] EXCEPT !.net = net, !.ver = ver]
<1>1. TypeOK /\ run[n] \in Running
  BY NoteFacts
<1>2. run'[n] = q /\ \A m \in Notes \ {n} : run'[m] = run[m]
  BY <1>1 DEF Answer, TypeOK
<1>3. q.net = net /\ q.ver = ver /\ q.at = run[n].at /\ q.body = run[n].body
  BY <1>1 DEF Running
<1> QED BY <1>2, <1>3

\* The vault answers a read.
LEMMA GetPromised ==
  ASSUME IInv, IInv', PromiseInv, NEW n \in Notes, ServeGet(n), basis' = basis
  PROVE  PromiseInv' /\ [Promise!Next]_(Promise!shared)
<1>1. /\ run[n].at # "writing" /\ UNCHANGED <<commits, stray, Untouched>>
      /\ Answer(n, "missing", 0) \/ Answer(n, "note", Version(n))
  BY DEF ServeGet
<1>2. run'[n].at # "writing" /\ \A m \in Notes \ {n} : run'[m] = run[m]
  BY <1>1, AnswerCells
<1>3. \A w \in stray'[n] : Latent(n, w)
  BY <1>1 DEF PromiseInv, Traced
<1> QED BY <1>1, <1>2, <1>3, AnswerPromised

\* The vault answers a writeback.
LEMMA PutPromised ==
  ASSUME IInv, IInv', PromiseInv, Faithful, NEW n \in Notes, ServePut(n), basis' = basis
  PROVE  PromiseInv' /\ [Promise!Next]_(Promise!shared)
<1> DEFINE x == run[n].body
<1>1. /\ run[n].net = "sent" /\ run[n].at = "writing" /\ UNCHANGED <<stray, Untouched>>
      /\ \/ run[n].ver = Version(n) /\ Commit(n, x) /\ Answer(n, "note", Version(n) + 1)
         \/ Answer(n, "conflict", 0) /\ UNCHANGED commits
         \/ Answer(n, "error", 0) /\ UNCHANGED commits
  BY DEF ServePut, Requested
<1>2. \A w \in stray'[n] : Latent(n, w)
  BY <1>1 DEF PromiseInv, Traced
<1>3. ASSUME NEW net \in {"conflict", "error"}, Answer(n, net, 0), UNCHANGED commits
      PROVE  PromiseInv' /\ [Promise!Next]_(Promise!shared)
  <2>1. run'[n].net # "note" /\ \A m \in Notes \ {n} : run'[m] = run[m]
    BY <1>3, AnswerCells
  <2> QED BY <1>1, <1>2, <1>3, <2>1, AnswerPromised
<1>4. CASE run[n].ver = Version(n) /\ Commit(n, x) /\ Answer(n, "note", Version(n) + 1)
  <2>1. /\ x \in Content /\ Extends(x, commits[n][Version(n)]) /\ Rooted(n, x.edits, Version(n))
        /\ x.edits \subseteq Copy(n).edits \cup InVault(n) /\ docs[n].tracked = Version(n)
    BY <1>1, <1>4, BodyRooted
  <2>2. commits' = [commits EXCEPT ![n] = Append(@, x)]
    BY <1>4 DEF Commit
  <2> HIDE DEF x
  <2>3. /\ Version(n) \in Nat \ {0} /\ commits'[n][Version(n) + 1] = x
        /\ \A v \in 1..Version(n) : commits'[n][v] = commits[n][v]
    BY <2>1, <2>2, VaultAppends
  <2>4. run'[n].ver = Version(n) + 1 /\ \A m \in Notes \ {n} : run'[m] = run[m]
    BY <1>4, AnswerCells
  <2>5. UNCHANGED <<docs, store, nextEdit, basis, stray>>
    BY <1>1 DEF Untouched, countVars
  <2>6. Follows(n)'
    <3>1. commits'[n][Version(n)] = commits[n][Version(n)]
      BY <2>3
    <3> QED BY <2>1, <2>3, <2>4, <2>5, <3>1 DEF Follows, Extends
  <2> QED BY <1>4, <2>1, <2>4, <2>5, <2>6, WritebackPromised DEF x
<1> QED BY <1>1, <1>3, <1>4

\* A request or its answer is lost.
LEMMA LossPromised ==
  ASSUME IInv, IInv', PromiseInv, Faithful, NEW n \in Notes, LoseRequest(n), basis' = basis
  PROVE  PromiseInv' /\ [Promise!Next]_(Promise!shared)
<1> DEFINE w == [ver |-> run[n].ver, body |-> run[n].body]
<1>1. /\ run[n].net = "sent" /\ Answer(n, "error", 0) /\ UNCHANGED <<commits, Untouched>>
      /\ \/ stray' = stray
         \/ run[n].at = "writing" /\ stray' = [stray EXCEPT ![n] = @ \cup {w}]
  BY DEF LoseRequest, Requested
<1>2. run'[n].net # "note" /\ \A m \in Notes \ {n} : run'[m] = run[m]
  BY <1>1, AnswerCells
<1>3. stray \in [Notes -> SUBSET Stray]
  BY NoteFacts DEF TypeOK
<1>4. /\ \A m \in Notes \ {n} : stray'[m] = stray[m]
      /\ stray'[n] = stray[n] \/ (run[n].at = "writing" /\ stray'[n] = stray[n] \cup {w})
  BY <1>1, <1>3
<1>5. run[n].at = "writing" => Latent(n, w)
  <2> SUFFICES ASSUME run[n].at = "writing"
               PROVE  Latent(n, w)
    OBVIOUS
  <2>1. /\ run[n].ver = Copy(n).base /\ Rooted(n, run[n].body.edits, run[n].ver)
        /\ run[n].body.edits \subseteq Copy(n).edits
    BY <1>1, BodyRooted
  <2>2. w.ver = run[n].ver /\ w.body = run[n].body
    OBVIOUS
  <2>3. w.ver <= Copy(n).base
    <3>1. Copy(n).base \in Int
      BY CopyFacts
    <3> QED BY <2>1, <2>2, <3>1
  <2> HIDE DEF w
  <2> QED BY <2>1, <2>2, <2>3 DEF Latent
<1> HIDE DEF w
<1>6. \A s \in stray'[n] : Latent(n, s)
  BY <1>4, <1>5 DEF PromiseInv, Traced
<1> QED BY <1>1, <1>2, <1>4, <1>6, AnswerPromised

\* A write that nobody waits for reaches the vault.
LEMMA StrayPromised ==
  ASSUME IInv, IInv', PromiseInv, Faithful, NEW n \in Notes, LandStray(n), basis' = basis
  PROVE  PromiseInv' /\ [Promise!Next]_(Promise!shared)
<1>1. PICK w \in stray[n] :
        /\ stray' = [stray EXCEPT ![n] = @ \ {w}]
        /\ \/ w.ver = Version(n) /\ Commit(n, w.body)
           \/ UNCHANGED commits
        /\ UNCHANGED <<run, Untouched>>
  BY DEF LandStray
<1>2. stray \in [Notes -> SUBSET Stray]
  BY NoteFacts DEF TypeOK
<1>3. /\ \A m \in Notes \ {n} : stray'[m] = stray[m] /\ run'[m] = run[m]
      /\ stray'[n] \subseteq stray[n] /\ run'[n] = run[n]
  BY <1>1, <1>2
<1>4. CASE UNCHANGED commits
  <2>1. \A s \in stray'[n] : Latent(n, s)
    BY <1>3 DEF PromiseInv, Traced
  <2> QED BY <1>1, <1>3, <1>4, <2>1, AnswerPromised
<1>5. CASE w.ver = Version(n) /\ Commit(n, w.body)
  <2> DEFINE x == w.body
  <2>1. x \in Content /\ SoundStray(commits[n], w)
    BY <1>1, <1>2, NoteFacts DEF SoundNote, Stray
  <2>2. Extends(x, commits[n][Version(n)])
    BY <1>5, <2>1 DEF SoundStray, Sound, Version, Faithful, Collaborative, Traceable
  <2>3. Rooted(n, x.edits, Version(n)) /\ x.edits \subseteq Copy(n).edits \cup InVault(n)
    BY <1>5 DEF PromiseInv, Traced, Latent
  <2>4. commits' = [commits EXCEPT ![n] = Append(@, x)] /\ Commit(n, x)
    BY <1>5 DEF Commit
  <2> HIDE DEF x
  <2>5. \A v \in 1..Version(n) : commits'[n][v] = commits[n][v]
    BY <2>1, <2>4, VaultAppends
  <2>6. UNCHANGED <<docs, store, nextEdit, basis>>
    BY <1>1 DEF Untouched, countVars
  <2>7. Follows(n)'
    BY <1>3, <2>5, <2>6, FollowsStands
  <2> QED BY <1>3, <2>1, <2>2, <2>3, <2>4, <2>6, <2>7, WritebackPromised
<1> QED BY <1>1, <1>4, <1>5

\* Whatever the vault and the network do keeps the promise.
LEMMA NetworkPromised ==
  ASSUME IInv, IInv', PromiseInv, Faithful, NEW n \in Notes, Environment(n), basis' = basis
  PROVE  PromiseInv' /\ [Promise!Next]_(Promise!shared)
BY OverwritePromised, GetPromised, PutPromised, LossPromised, StrayPromised DEF Environment

-----------------------------------------------------------------------------
(* What clients and hooks do.                                              *)

\* The engine, the timers and the stream keep the promise.
LEMMA NearbyPromised ==
  ASSUME IInv, IInv', PromiseInv, Nearby, UNCHANGED <<stray, basis>>
  PROVE  PromiseInv' /\ [Promise!Next]_(Promise!shared)
<1>1. UNCHANGED <<commits, nextEdit, basis, store>> /\ run' = run
  BY DEF Nearby
<1>2. ASSUME NEW m \in Notes
      PROVE  /\ docs'[m] = docs[m] \/ Alike(docs[m], docs'[m])
             /\ \A w \in stray'[m] : Latent(m, w)
             /\ run'[m].at = "writing" /\ run'[m].net = "note" => run'[m] = run[m]
  BY <1>1 DEF Nearby, PromiseInv, Traced
<1> QED BY <1>1, <1>2, StillPromised

\* As does all that leaves the documents as they are.
LEMMA IdlePromised ==
  ASSUME IInv, IInv', PromiseInv, UNCHANGED <<commits, stray, nextEdit, basis, store, docs, run>>
  PROVE  PromiseInv' /\ [Promise!Next]_(Promise!shared)
<1>1. ASSUME NEW m \in Notes
      PROVE  /\ docs'[m] = docs[m] \/ Alike(docs[m], docs'[m])
             /\ \A w \in stray'[m] : Latent(m, w)
             /\ run'[m].at = "writing" /\ run'[m].net = "note" => run'[m] = run[m]
  BY DEF PromiseInv, Traced
<1> QED BY <1>1, StillPromised

\* A flush, a load or an event that is queued.
LEMMA QueuedPromised ==
  ASSUME IInv, IInv', PromiseInv, basis' = basis, NEW n \in Notes,
         \/ Load(n, "adopt") /\ "adopt" \in LoadKinds
         \/ Flush(n) \/ Unload(n) \/ TimerFires(n)
         \/ Start \/ Connect \/ Disconnect \/ Deliver
  PROVE  PromiseInv' /\ [Promise!Next]_(Promise!shared)
<1>1. CASE Load(n, "adopt") /\ "adopt" \in LoadKinds
  <2>1. Nearby /\ stray' = stray
    BY <1>1, LoadIsNearby DEF Load, vaultVars
  <2> QED BY <2>1, NearbyPromised
<1>2. CASE Flush(n) \/ Unload(n) \/ TimerFires(n)
  <2>1. PICK op \in FlushOps : QueueFlush(n, op)
    BY <1>2 DEF Flush, Unload, TimerFires, FlushOps
  <2>2. Nearby /\ stray' = stray
    BY <2>1, QueueFlushIsNearby DEF QueueFlush, vaultVars
  <2> QED BY <2>2, NearbyPromised
<1>3. CASE Start \/ Connect \/ Disconnect
  <2>1. Nearby /\ stray' = stray
    BY <1>3, StreamIsNearby DEF Start, Connect, Disconnect, vaultVars
  <2> QED BY <2>1, NearbyPromised
<1>4. CASE Deliver
  <2>1. Nearby /\ stray' = stray
    BY <1>4, DeliverIsNearby DEF Deliver, vaultVars
  <2> QED BY <2>1, NearbyPromised
<1> QED BY <1>1, <1>2, <1>3, <1>4

\* The hooks, and the clients that come and go.
LEMMA EnginePromised ==
  ASSUME IInv, IInv', PromiseInv, Faithful, basis' = basis, NEW n \in Notes,
         Opened(n) \/ Stored(n) \/ Unloaded(n) \/ Readopted(n) \/ Join(n) \/ Leave(n)
         \/ StoreMoment(n)
  PROVE  PromiseInv' /\ [Promise!Next]_(Promise!shared)
<1>1. \/ UNCHANGED vars \/ Destroyed(n)
      \/ Load(n, "adopt") \/ Flush(n) \/ Unload(n)
  BY DEF Opened, Stored, Unloaded, Readopted, Join, Leave, StoreMoment
<1>2. CASE UNCHANGED vars \/ Destroyed(n)
  <2>1. UNCHANGED <<commits, stray, nextEdit, store, docs, run>>
    BY <1>2 DEF Destroyed, vars, vaultVars, machineVars, countVars
  <2> QED BY <2>1, IdlePromised
<1>3. CASE Load(n, "adopt") \/ Flush(n) \/ Unload(n)
  <2>1. "adopt" \in LoadKinds
    BY DEF Faithful, Collaborative
  <2> QED BY <1>3, <2>1, QueuedPromised
<1> QED BY <1>1, <1>2, <1>3

\* A client types.
LEMMA TypingPromised ==
  ASSUME IInv, IInv', PromiseInv, NEW n \in Notes, LocalEdit(n), stray' = stray,
         basis' = [basis EXCEPT ![nextEdit + 1] = [note |-> n, version |-> docs[n].tracked]]
  PROVE  PromiseInv' /\ [Promise!Next]_(Promise!shared)
<1> DEFINE x == nextEdit + 1
           b == docs[n].tracked
<1>1. /\ UNCHANGED <<commits, run, store>> /\ nextEdit' = x /\ nextEdit < MaxEdits
      /\ \A m \in Notes \ {n} : docs'[m] = docs[m]
      /\ docs[n] \in TrackedDoc /\ docs'[n] \in TrackedDoc
      /\ docs'[n].content.edits = docs[n].content.edits \cup {x}
      /\ docs'[n].tracked = b /\ docs'[n].dirty
  BY LocalEditCells
<1>2. /\ nextEdit \in Nat /\ x \in Edits /\ Edits \subseteq Nat /\ nextEdit <= nextEdit'
      /\ nextEdit' \in Nat
  BY <1>1, CopyFacts, BoundsAssumption DEF Edits
<1>3. docs[n] # NoDoc /\ docs'[n] # NoDoc
  BY <1>1, DocsAreReal
<1>4. /\ Copy(n).edits = docs[n].content.edits /\ Copy(n).base = b
      /\ b \in 1..Version(n) /\ Version(n) \in Nat
  <2>1. b \in 1..Version(n)
    BY <1>3, NoteFacts DEF SoundNote, SoundDoc, Sound, Version
  <2> QED BY <1>3, <2>1, CopyFacts
<1>5. /\ Copy(n)'.edits = Copy(n).edits \cup {x} /\ Copy(n)'.base = b /\ Copy(n)'.dirty
      /\ InStore(n)' = InStore(n)
  BY <1>1, <1>3, <1>4 DEF Copy, CopyOf, InStore
<1>6. /\ basis \in [Edits -> [note : Notes, version : Nat]]
      /\ basis'[x] = [note |-> n, version |-> b] /\ basis' \in [Edits -> [note : Notes, version : Nat]]
      /\ \A y \in Edits : y # x => basis'[y] = basis[y]
  BY <1>2, <1>4 DEF PromiseInv, BasisOK
<1>7. \A y \in Edits : y <= nextEdit => y # x /\ basis'[y] = basis[y]
  BY <1>2, <1>6
<1>8. ASSUME NEW m \in Notes \ {n}
      PROVE  Copy(m)' = Copy(m) /\ Traced(m)'
  <2>1. Copy(m)' = Copy(m) /\ InStore(m)' = InStore(m) /\ docs'[m].tracked = docs[m].tracked
    BY <1>1 DEF Copy, InStore
  <2>2. commits'[m] = commits[m] /\ run'[m] = run[m] /\ \A w \in stray'[m] : Latent(m, w)
    BY <1>1 DEF PromiseInv, Traced
  <2> QED BY <1>2, <1>7, <2>1, <2>2, UntouchedTraced
<1>9. \A m \in Notes : InVault(m)' = InVault(m) /\ Version(m)' = Version(m)
  BY <1>1, VaultStays
<1> HIDE DEF x
<1>10. ASSUME NEW es, NEW v, Typed(n, es, v)
       PROVE  \A y \in es : y \in Edits /\ y <= nextEdit' /\ basis'[y].note = n /\ basis'[y].version <= v
  <2> SUFFICES ASSUME NEW y \in es
               PROVE  /\ y \in Edits /\ y <= nextEdit' /\ basis'[y].note = n
                      /\ basis'[y].version <= v
    OBVIOUS
  <2>1. y \in Edits /\ y <= nextEdit /\ basis[y].note = n /\ basis[y].version <= v
    BY <1>10 DEF Typed
  <2>2. y \in Nat /\ basis'[y] = basis[y]
    BY <1>2, <1>7, <2>1
  <2>3. y <= nextEdit'
    BY <1>2, <2>1, <2>2
  <2> QED BY <2>1, <2>2, <2>3
<1>11. /\ Typed(n, Copy(n).edits, b) /\ Novel(n, Copy(n).edits, b)
       /\ InStore(n) \subseteq Copy(n).edits \cup InVault(n)
       /\ \A v \in 1..Version(n) : Typed(n, commits[n][v].edits, v)
       /\ \A w \in stray[n] : Latent(n, w)
       /\ Follows(n)
  BY <1>4 DEF PromiseInv, Traced, Rooted
<1>12. \A m \in Notes : x \notin InVault(m) /\ x \notin Copy(m).edits
  <2> SUFFICES ASSUME NEW m \in Notes
               PROVE  x \notin InVault(m) /\ x \notin Copy(m).edits
    OBVIOUS
  <2>1. ~(x <= nextEdit)
    BY <1>2 DEF x
  <2>2. x \notin Copy(m).edits
    BY <2>1 DEF PromiseInv, Traced, Rooted, Typed
  <2>3. \A v \in 1..Version(m) : x \notin commits[m][v].edits
    BY <2>1 DEF PromiseInv, Traced, Typed
  <2> QED BY <2>2, <2>3 DEF InVault
<1>13. Rooted(n, Copy(n).edits, Copy(n).base)'
  <2>1. \A y \in Copy(n)'.edits :
          y \in Edits /\ y <= nextEdit' /\ basis'[y].note = n /\ basis'[y].version <= b
    <3>1. \A y \in Copy(n).edits :
            y \in Edits /\ y <= nextEdit' /\ basis'[y].note = n /\ basis'[y].version <= b
      BY <1>10, <1>11
    <3>2. x \in Edits /\ x <= nextEdit' /\ basis'[x].note = n /\ basis'[x].version <= b
      BY <1>1, <1>2, <1>4, <1>6
    <3> QED BY <1>5, <3>1, <3>2
  <2>2. \A u \in 1..b : Copy(n)'.edits \cap commits[n][u].edits \subseteq commits[n][b].edits
    <3> SUFFICES ASSUME NEW u \in 1..b
                 PROVE  Copy(n)'.edits \cap commits[n][u].edits \subseteq commits[n][b].edits
      OBVIOUS
    <3>1. u \in 1..Version(n)
      BY <1>4
    <3>2. x \notin commits[n][u].edits
      BY <1>12, <3>1, CopyFacts
    <3> QED BY <1>5, <1>11, <3>2 DEF Novel
  <2>3. Typed(n, Copy(n).edits, Copy(n).base)'
    BY <1>5, <2>1 DEF Typed
  <2>4. Novel(n, Copy(n).edits, Copy(n).base)'
    BY <1>1, <1>5, <2>2 DEF Novel
  <2> QED BY <2>3, <2>4 DEF Rooted
<1>14. (\A v \in 1..Version(n) : Typed(n, commits[n][v].edits, v))'
  <2>1. \A v \in 1..Version(n) : \A y \in commits[n][v].edits :
          y \in Edits /\ y <= nextEdit' /\ basis'[y].note = n /\ basis'[y].version <= v
    BY <1>10, <1>11
  <2> QED BY <1>1, <1>9, <2>1 DEF Typed
<1>15. (\A w \in stray[n] : Latent(n, w))'
  <2> SUFFICES ASSUME NEW w \in stray[n]
               PROVE  Latent(n, w)'
    OBVIOUS
  <2>1. /\ Typed(n, w.body.edits, w.ver) /\ Novel(n, w.body.edits, w.ver) /\ w.ver <= Copy(n).base
        /\ w.ver = Version(n) => w.body.edits \subseteq Copy(n).edits \cup InVault(n)
    BY <1>11 DEF Latent, Rooted
  <2>2. Typed(n, w.body.edits, w.ver)'
    <3>1. \A y \in w.body.edits :
            y \in Edits /\ y <= nextEdit' /\ basis'[y].note = n /\ basis'[y].version <= w.ver
      BY <1>10, <2>1
    <3> QED BY <3>1 DEF Typed
  <2>3. Novel(n, w.body.edits, w.ver)'
    BY <1>1, <2>1 DEF Novel
  <2>4. w.ver <= Copy(n)'.base
    BY <1>4, <1>5, <2>1
  <2> QED BY <1>5, <1>9, <2>1, <2>2, <2>3, <2>4 DEF Latent, Rooted
<1>16. Follows(n)'
  BY <1>1, <1>11 DEF Follows
<1>17. Traced(n)'
  BY <1>5, <1>9, <1>11, <1>13, <1>14, <1>15, <1>16 DEF Traced
<1>18. PromiseInv'
  BY <1>6, <1>8, <1>17 DEF PromiseInv, BasisOK
<1>19. ASSUME NEW y \in Edits
       PROVE  Whereabouts(y)' = IF y \in {x} THEN "pending" ELSE Whereabouts(y)
  <2>0. y \in Nat /\ x = nextEdit + 1 /\ nextEdit' = x
    BY <1>1, <1>2 DEF x
  <2>1. CASE y = x
    <3>1. ~(y > nextEdit') /\ ~\E m \in Notes : y \in InVault(m)'
      BY <1>9, <1>12, <2>0, <2>1
    <3>2. y \in Copy(n)'.edits
      BY <1>5, <2>1
    <3> QED BY <2>1, <3>1, <3>2 DEF Whereabouts
  <2>2. CASE y # x
    <3>1. y > nextEdit' <=> y > nextEdit
      BY <1>2, <2>0, <2>2
    <3>2. \A m \in Notes : y \in Copy(m)'.edits <=> y \in Copy(m).edits
      BY <1>5, <1>8, <2>2
    <3> QED BY <1>9, <2>2, <3>1, <3>2 DEF Whereabouts
  <2> QED BY <2>1, <2>2
<1>20. Fates' = [y \in Edits |-> IF y \in {x} THEN "pending" ELSE Fates[y]]
  BY <1>18, <1>19, FatesAre
<1>21. Fates[x] = "unmade"
  <2>1. x > nextEdit
    BY <1>2 DEF x
  <2>2. Whereabouts(x) = "unmade"
    BY <2>1 DEF Whereabouts
  <2> QED BY <1>2, <1>18, <2>2, FatesAre
<1>22. b \in 1..Len(Histories[n])
  <2>1. Len(Histories[n]) = Version(n)
    BY <1>4 DEF Histories
  <2> QED BY <1>4, <2>1
<1>23. Histories' = Histories /\ basis' = [basis EXCEPT ![x] = [note |-> n, version |-> b]]
  BY <1>1, HistoryStands DEF x
<1> HIDE DEF b
<1>24. Promise!Next
  BY <1>2, <1>20, <1>21, <1>22, <1>23, PromiseTyped
<1> QED BY <1>18, <1>24

-----------------------------------------------------------------------------
(* Every step, and the refinement.                                         *)

\* Nothing is typed yet, so nothing has to be traced.
LEMMA PromiseStarts ==
  ASSUME CollabInit, Notes # {}
  PROVE  PromiseInv
<1>1. IInv
  BY CollabInitInv DEF CollabInv
<1>2. BasisOK
  BY DEF CollabInit, BasisOK
<1>3. ASSUME NEW n \in Notes
      PROVE  Traced(n)
  <2>1. /\ commits[n] = <<[ext |-> 1, edits |-> {}, torn |-> FALSE]>>
        /\ docs[n] = NoDoc /\ store[n] = NoEntry /\ run[n] = Idle /\ stray[n] = {}
    BY DEF CollabInit, Init
  <2>2. Copy(n) = [edits |-> {}, base |-> 0, dirty |-> FALSE] /\ InStore(n) = {}
    BY <2>1 DEF Copy, CopyOf, InStore
  <2>3. \A v \in 1..Version(n) : commits[n][v].edits = {}
    BY <2>1 DEF Version
  <2>4. Rooted(n, Copy(n).edits, Copy(n).base)
    BY <2>2 DEF Rooted, Typed, Novel
  <2>5. \A v \in 1..Version(n) : Typed(n, commits[n][v].edits, v)
    BY <2>3 DEF Typed
  <2>6. Follows(n)
    BY <2>1 DEF Follows, Idle
  <2> QED BY <2>1, <2>2, <2>4, <2>5, <2>6 DEF Traced
<1> QED BY <1>2, <1>3 DEF PromiseInv

\* Every step of the documents is a step of the promise, or none.
LEMMA PromiseKept ==
  ASSUME CollabInv, PromiseInv, Faithful, [CollabNext]_collabVars
  PROVE  PromiseInv' /\ [Promise!Next]_(Promise!shared)
<1>1. IInv /\ IInv'
  BY CollabKept DEF CollabInv, Faithful
<1>2. CASE UNCHANGED collabVars
  <2>1. UNCHANGED <<commits, stray, nextEdit, basis, store, docs, run>>
    BY <1>2 DEF collabVars, vars, vaultVars, machineVars, countVars
  <2> QED BY <1>1, <2>1, IdlePromised
<1>3. ASSUME NEW n \in Notes, Microtask(n), basis' = basis
      PROVE  PromiseInv' /\ [Promise!Next]_(Promise!shared)
  BY <1>1, <1>3, EnginePromised, StretchPromised DEF Microtask
<1>4. ASSUME NEW n \in Notes, Join(n) \/ Leave(n) \/ StoreMoment(n), basis' = basis
      PROVE  PromiseInv' /\ [Promise!Next]_(Promise!shared)
  BY <1>1, <1>4, EnginePromised
<1>5. ASSUME NEW n \in Notes, Environment(n), basis' = basis
      PROVE  PromiseInv' /\ [Promise!Next]_(Promise!shared)
  BY <1>1, <1>5, NetworkPromised
<1>6. ASSUME NEW n \in Notes, Reply(n), basis' = basis
      PROVE  PromiseInv' /\ [Promise!Next]_(Promise!shared)
  BY <1>6, StretchPromised
<1>7. ASSUME NEW n \in Notes, TimerFires(n), basis' = basis
      PROVE  PromiseInv' /\ [Promise!Next]_(Promise!shared)
  BY <1>1, <1>7, QueuedPromised
<1>8. ASSUME Start \/ Connect \/ Disconnect \/ EventComes, basis' = basis
      PROVE  PromiseInv' /\ [Promise!Next]_(Promise!shared)
  <2>1. Nearby /\ stray' = stray
    BY <1>1, <1>8, StreamIsNearby, DeliverIsNearby
       DEF EventComes, Start, Connect, Disconnect, Deliver, vaultVars
  <2> QED BY <1>1, <1>8, <2>1, NearbyPromised
<1>9. ASSUME AtRest, NEW n \in Notes, ClientEdit(n)
      PROVE  PromiseInv' /\ [Promise!Next]_(Promise!shared)
  <2>1. Tracked(n)
    <3>1. EngineHolds(n) /\ Served(n) /\ ~HookDue(n)
      BY <1>9 DEF CollabInv, EngineInv, Fits, AtRest, ClientEdit
    <3>2. engine[n] \in EngineDoc
      BY DEF CollabInv, EngineInv
    <3> QED BY <3>1, <3>2 DEF EngineHolds, Served, HookDue, Tracked, EngineDoc
  <2>2. LocalEdit(n) /\ stray' = stray
    BY <1>9, <2>1 DEF ClientEdit, LocalEdit, vaultVars
  <2>3. basis' = [basis EXCEPT ![nextEdit + 1] = [note |-> n, version |-> docs[n].tracked]]
    BY <1>9, <2>1 DEF ClientEdit
  <2> QED BY <1>1, <2>2, <2>3, TypingPromised
<1> QED BY <1>2, <1>3, <1>4, <1>5, <1>6, <1>7, <1>8, <1>9 DEF CollabNext

\* The documents of the docs editor implement SharedNote.  For any notes, connections and
\* bounds, whatever fails but the state store: an edit of a client is in the vault, or
\* still to be written, unless the note has a version that is newer than the one it was
\* typed on; and nothing that was written is overwritten unseen (server/collab.ts over
\* reconciler.ts).
THEOREM PromiseIsKept ==
  ASSUME Faithful, Notes # {}
  PROVE  CollabSpec => KeepsPromise
<1>1. CollabInit => CollabInv /\ PromiseInv /\ Promise!Init
  BY CollabInitInv, PromiseStarts, PromiseBegins
<1>2. CollabInv /\ PromiseInv /\ [CollabNext]_collabVars
        => CollabInv' /\ PromiseInv' /\ [Promise!Next]_(Promise!shared)
  BY CollabKept, PromiseKept DEF Faithful
<1> QED BY <1>1, <1>2, PTL DEF CollabSpec, KeepsPromise, Promise!Spec
=============================================================================
