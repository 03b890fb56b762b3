--------------------------- MODULE DocsAccessProofs ---------------------------
(***************************************************************************)
(* Proofs about GrantStore and DocsAccess, for any set of grants, links,   *)
(* subjects and sockets, any bounds and every set of faults: while the     *)
(* stream is up the cache follows it exactly; a read without it honours    *)
(* nothing older than the loss, or than the answer it rests on; and the    *)
(* sweep leaves every session with the rights that the cached grants give. *)
(***************************************************************************)
EXTENDS DocsAccess, TLAPS, FiniteSetTheorems, SequenceTheorems

AnyLevel == Levels \cup {"none"}

-----------------------------------------------------------------------------
(* Levels.                                                                 *)

\* A nonempty set of numbers up to n has a greatest member.
LEMMA GreatestOf ==
  ASSUME NEW n \in Nat, NEW S, S \subseteq 0..n, S # {}
  PROVE  \E m \in S : \A k \in S : k <= m
<1> DEFINE R == StrictSubsetOrdering(Nat)
           T == {k..n : k \in S}
<1>1. IsWellFoundedOn(R, FiniteSubsetsOf(Nat))
  BY FS_StrictSubsetOrderingWellFounded
<1>2. T \subseteq FiniteSubsetsOf(Nat) /\ T # {}
  <2>1. \A k \in S : IsFiniteSet(k..n) /\ k..n \subseteq Nat
    BY FS_Interval
  <2> QED BY <2>1 DEF FiniteSubsetsOf
<1> HIDE DEF R, T
<1>3. PICK I \in T : \A J \in T : ~ (<<J, I>> \in R)
  BY <1>1, <1>2, WFMin
<1>4. PICK m \in S : I = m..n
  BY <1>3 DEF T
<1>5. ASSUME NEW k \in S PROVE ~ (m < k)
  <2> SUFFICES ASSUME m < k PROVE FALSE
    OBVIOUS
  <2>1. k..n \in T /\ k..n \subseteq m..n /\ m \in m..n /\ m \notin k..n
    BY DEF T
  <2>2. k..n \subseteq Nat /\ m..n \subseteq Nat /\ IsFiniteSet(m..n) /\ IsFiniteSet(k..n)
    <3>1. k \in 0..n /\ m \in 0..n
      OBVIOUS
    <3>2. k \in Int /\ m \in Int
      BY <3>1
    <3>3. k..n \subseteq Nat /\ m..n \subseteq Nat
      BY <3>1
    <3>4. \A a, b \in Int : IsFiniteSet(a..b)
      BY FS_Interval
    <3> QED BY <3>2, <3>3, <3>4
  <2>3. <<k..n, I>> \in R
    BY <2>1, <2>2, <1>4 DEF R, StrictSubsetOrdering, FiniteSubsetsOf
  <2> QED BY <2>1, <2>3, <1>3
<1> QED BY <1>5

\* The ranks of the levels.
LEMMA Ranks ==
  ASSUME NEW l \in AnyLevel
  PROVE  levelRank(l) \in 0..4 /\ (levelRank(l) = 0 <=> l = "none")
<1>1. DOMAIN LEVELS = 1..4
  BY DEF LEVELS
<1>2. CASE l = "none"
  BY <1>2 DEF levelRank
<1>3. CASE l # "none"
  <2>1. PICK i \in 1..4 : LEVELS[i] = l
    BY <1>1, <1>3 DEF AnyLevel, Levels
  <2> DEFINE r == CHOOSE j \in DOMAIN LEVELS : LEVELS[j] = l
  <2>2. r \in 1..4
    BY <2>1, <1>1
  <2>3. levelRank(l) = r
    BY <1>3 DEF levelRank
  <2> HIDE DEF r
  <2> QED BY <2>2, <2>3, <1>3
<1> QED BY <1>2, <1>3

\* levelFor is the strongest of the levels that the grants of the subjects have.
LEMMA LevelForIsStrongest ==
  ASSUME NEW subjects, NEW c \in Cache
  PROVE  LET best == {c[g] : g \in {h \in Grants \ expired : SubjectOf[h] \in subjects}} \cup {"none"}
             l    == levelFor(subjects, c)
         IN l \in best /\ l \in AnyLevel /\ \A m \in best : levelRank(m) <= levelRank(l)
<1> DEFINE best == {c[g] : g \in {h \in Grants \ expired : SubjectOf[h] \in subjects}} \cup {"none"}
           S    == {levelRank(m) : m \in best}
<1>1. best \subseteq AnyLevel /\ "none" \in best
  BY DEF Cache, AnyLevel
<1>2. levelFor(subjects, c) = CHOOSE l \in best : \A m \in best : levelRank(m) <= levelRank(l)
  BY DEF levelFor
<1> HIDE DEF best
<1>3. S \subseteq 0..4 /\ S # {}
  BY <1>1, Ranks
<1>4. \E k \in S : \A j \in S : j <= k
  BY <1>3, GreatestOf, 4 \in Nat
<1>5. \E l \in best : \A m \in best : levelRank(m) <= levelRank(l)
  BY <1>4
<1>6. /\ levelFor(subjects, c) \in best
      /\ \A m \in best : levelRank(m) <= levelRank(levelFor(subjects, c))
  BY <1>2, <1>5
<1> QED BY <1>6, <1>1 DEF best

\* Nobody has a level where nothing is granted.
LEMMA NothingGrantsNothing ==
  ASSUME NEW subjects
  PROVE  levelFor(subjects, [g \in Grants |-> "none"]) = "none"
<1> DEFINE c == [g \in Grants |-> "none"]
<1>1. c \in Cache
  BY DEF Cache
<1>2. {c[g] : g \in {h \in Grants \ expired : SubjectOf[h] \in subjects}} \cup {"none"} = {"none"}
  OBVIOUS
<1> HIDE DEF c
<1>3. levelFor(subjects, c) \in {"none"}
  BY <1>1, <1>2, LevelForIsStrongest
<1> QED BY <1>3 DEF c

LEMMA ParseTypes ==
  ASSUME NEW rows
  PROVE  Parsed(rows) \in Cache /\ \A g \in Grants : Parsed(rows)[g] = parseGrantNote(rows[g])
  BY DEF Parsed, parseGrantNote, Cache

LEMMA LevelTypes ==
  ASSUME NEW actor, NEW c \in Cache
  PROVE  Level(actor, c) \in AnyLevel
<1>1. "edit" \in Levels
  <2>1. 4 \in DOMAIN LEVELS /\ LEVELS[4] = "edit"
    BY DEF LEVELS
  <2> QED BY <2>1 DEF Levels
<1>2. levelFor(SubjectsOf[actor], c) \in AnyLevel
  BY LevelForIsStrongest
<1> QED BY <1>1, <1>2 DEF Level, AnyLevel

-----------------------------------------------------------------------------
(* The steps of the grant store, whoever takes them.                       *)

\* A read that cannot be served starts the query, or waits for the one under way.
Asks ==
  /\ ~Readable /\ Revalidate
  /\ UNCHANGED <<vaultVars, streamVars, cache, live, started, recent, creating, revoking,
                 outdated, displaced>>

OnGrant(g) ==
  \/ CreateGrantReturns(g) \/ RevokeGrant(g) \/ RevokeGrantEnds(g) \/ Expire(g)
  \/ Rewrite(g) \/ ServeCreate(g) \/ ServeDelete(g) \/ CreateGrantThrows(g)
  \/ \E level \in Granted : CreateGrant(g, level)

GrantStep ==
  \/ OnSnapshot \/ OnUpsertOrRemove \/ Revalidated \/ RevalidationFails \/ Asks
  \/ Connect \/ StreamLost \/ LossNoticed \/ Refused \/ ServeQuery \/ FailQuery \/ WindowLapses
  \/ \E g \in Grants : OnGrant(g)
  \/ UNCHANGED grantVars

LEMMA EveryStepIsAGrantStep ==
  ASSUME Next \/ UNCHANGED vars
  PROVE  GrantStep
<1>1. CASE Deliver \/ LocalWrite \/ StoreQuiet
  BY <1>1 DEF Deliver, LocalWrite, StoreQuiet, Quiet, GrantStep, OnGrant
<1>2. CASE RevalidateEnds
  BY <1>2 DEF RevalidateEnds, GrantStep
<1>3. CASE \E g \in Grants : GrantExpires(g) \/ ShareDeleted(g)
  BY <1>3 DEF GrantExpires, ShareDeleted, GrantStep, OnGrant
<1>4. CASE LinkSteps
  BY <1>4 DEF LinkSteps, GrantStep
<1>5. CASE \E l \in Links : Share(l)
  <2>1. PICK l \in Links : Share(l)
    BY <1>5
  <2>2. ShareOf[l] \in Grants
    BY AccessAssumption
  <2> QED BY <2>1, <2>2 DEF Share, GrantStep, OnGrant
<1>6. CASE \E a \in Actors : MintTicket(a) \/ TicketExpires(a)
  BY <1>6 DEF MintTicket, TicketExpires, GrantStep
<1>7. CASE \E s \in Sockets :
             (\E a \in Actors : OnAuthenticate(s, a)) \/ Connected(s) \/ OnDisconnect(s)
  BY <1>7 DEF OnAuthenticate, Connected, OnDisconnect, GrantStep
<1>8. CASE \E s \in Sockets : AuthNote(s)
  BY <1>8 DEF AuthNote, Asks, GrantStep
<1>9. CASE SweepNote
  BY <1>9 DEF SweepNote, Asks, GrantStep
<1>10. CASE UNCHANGED vars
  BY <1>10 DEF vars, GrantStep
<1> QED BY <1>1, <1>2, <1>3, <1>4, <1>5, <1>6, <1>7, <1>8, <1>9, <1>10 DEF Next

LEMMA EventTypes ==
  ASSUME GrantTypeOK, NEW g \in Grants, NEW row \in Rows, SetRow(g, row)
  PROVE  /\ acl' \in [Grants -> Rows] /\ chan' \in Seq(Event) /\ outdated' \subseteq Grants
         /\ unheard' \subseteq Grants
<1> DEFINE ev == [snapshot |-> FALSE, about |-> {g}, rows |-> [acl EXCEPT ![g] = row]]
<1>1. [acl EXCEPT ![g] = row] \in [Grants -> Rows]
  BY DEF GrantTypeOK
<1>2. ev \in Event
  BY <1>1 DEF Event
<1>3. chan' = IF conn = "open" THEN Append(chan, ev) ELSE chan
  BY DEF SetRow, Announce
<1>4. acl' = [acl EXCEPT ![g] = row] /\ outdated' = outdated \cup {g}
  BY DEF SetRow
<1> HIDE DEF ev
<1>5. chan \in Seq(Event) /\ outdated \subseteq Grants
  BY DEF GrantTypeOK
<1>6. unheard' \subseteq Grants
  BY DEF SetRow, Announce, GrantTypeOK
<1> QED BY <1>1, <1>2, <1>3, <1>4, <1>5, <1>6

\* What a snapshot or an event makes of the cache is a cache.
LEMMA AbsorbTypes ==
  ASSUME NEW c \in Cache, NEW ev
  PROVE  Absorb(c, ev) \in Cache
  BY DEF Absorb, Cache, parseGrantNote

LEMMA OutOfStepTypes ==
  ASSUME NEW c
  PROVE  OutOfStep(c) \subseteq Grants
  BY DEF OutOfStep

LEMMA GrantTypesKept ==
  ASSUME GrantTypeOK, GrantStep
  PROVE  GrantTypeOK'
<1> USE DEF vaultVars, streamVars, requestVars
<1>1. CASE OnSnapshot
  <2>1. chan # <<>> /\ chan \in Seq(Event)
    BY <1>1 DEF OnSnapshot, GrantTypeOK
  <2>2. Tail(chan) \in Seq(Event) /\ Head(chan) \in Event
    BY <2>1
  <2>3. cache' \in Cache
    BY <1>1, ParseTypes DEF OnSnapshot
  <2>4. outdated' \subseteq Grants
    BY <1>1, <2>2 DEF OnSnapshot, OvertakenBy, Stale, GrantTypeOK, Event
  <2> QED BY <1>1, <2>2, <2>3, <2>4 DEF OnSnapshot, GrantTypeOK
<1>2. CASE OnUpsertOrRemove
  <2>1. chan # <<>> /\ chan \in Seq(Event)
    BY <1>2 DEF OnUpsertOrRemove, GrantTypeOK
  <2>2. Tail(chan) \in Seq(Event) /\ Head(chan) \in Event
    BY <2>1
  <2>3. cache' \in Cache
    BY <1>2, AbsorbTypes DEF OnUpsertOrRemove, Absorbed, GrantTypeOK
  <2>4. outdated' \subseteq Grants
    BY <1>2, <2>2 DEF OnUpsertOrRemove, OvertakenBy, Stale, GrantTypeOK, Event
  <2> QED BY <1>2, <2>2, <2>3, <2>4 DEF OnUpsertOrRemove, GrantTypeOK
<1>3. CASE Revalidated
  <2>1. cache' \in Cache
    BY <1>3, ParseTypes DEF Revalidated
  <2>2. displaced' \subseteq Grants
    BY <1>3, OutOfStepTypes DEF Revalidated
  <2> QED BY <1>3, <2>1, <2>2 DEF Revalidated, GrantTypeOK, Query, Rows
<1>4. CASE RevalidationFails \/ Asks \/ FailQuery
  BY <1>4 DEF RevalidationFails, Asks, FailQuery, Revalidate, GrantTypeOK, Query, Rows
<1>5. CASE Connect
  <2> DEFINE ev == [snapshot |-> TRUE, about |-> Grants, rows |-> acl]
  <2>1. ev \in Event
    BY DEF Event, GrantTypeOK
  <2>2. chan' = <<ev>>
    BY <1>5 DEF Connect
  <2> HIDE DEF ev
  <2>3. chan' \in Seq(Event)
    BY <2>1, <2>2
  <2> QED BY <1>5, <2>3 DEF Connect, GrantTypeOK
<1>6. CASE StreamLost
  <2>1. <<>> \in Seq(Event)
    OBVIOUS
  <2>2. chan' \in Seq(Event) /\ conn' = "lost"
    BY <1>6, <2>1 DEF StreamLost
  <2>3. drops' \in Nat
    BY <1>6 DEF StreamLost, GrantTypeOK
  <2>4. unheard' \subseteq Grants
    <3>1. \A i \in DOMAIN chan : chan[i].about \subseteq Grants
      <4>1. \A i \in DOMAIN chan : chan[i] \in Event
        BY DEF GrantTypeOK
      <4> QED BY <4>1 DEF Event
    <3> QED BY <1>6, <3>1 DEF StreamLost
  <2>5. UNCHANGED <<vaultVars, cache, live, started, recent, requestVars, outdated, displaced>>
    BY <1>6 DEF StreamLost
  <2> QED BY <2>2, <2>3, <2>4, <2>5 DEF GrantTypeOK
<1>10. CASE LossNoticed \/ Refused
  <2>1. /\ conn' \in {"down", "closed"} /\ drops' \in Nat /\ live' = FALSE
        /\ unheard' \subseteq Grants
    BY <1>10 DEF LossNoticed, Refused, GrantTypeOK
  <2>2. UNCHANGED <<vaultVars, chan, cache, started, recent, requestVars, outdated, displaced>>
    BY <1>10 DEF LossNoticed, Refused
  <2> QED BY <2>1, <2>2 DEF GrantTypeOK
<1>7. CASE ServeQuery \/ WindowLapses
  <2>1. CASE ServeQuery
    BY <2>1 DEF ServeQuery, GrantTypeOK
  <2>2. CASE WindowLapses
    BY <2>2 DEF WindowLapses, GrantTypeOK
  <2> QED BY <1>7, <2>1, <2>2
<1>8. ASSUME NEW g \in Grants, OnGrant(g) PROVE GrantTypeOK'
  <2>1. CASE CreateGrantReturns(g)
    <3>1. creating[g].level \in Levels
      BY DEF GrantTypeOK
    <3>2. creating' \in [Grants -> [at : {"idle", "sent", "answered", "failed", "done"}, level : Levels]]
      <4>1. "view" \in Levels
        BY DEF Levels, LEVELS
      <4> QED BY <2>1, <4>1 DEF CreateGrantReturns, Create, GrantTypeOK
    <3>3. displaced' \subseteq Grants
      BY <2>1, OutOfStepTypes DEF CreateGrantReturns, GrantTypeOK
    <3> QED BY <2>1, <3>1, <3>2, <3>3 DEF CreateGrantReturns, GrantTypeOK, Cache
  <2>2. CASE RevokeGrant(g)
    BY <2>2 DEF RevokeGrant, GrantTypeOK, Cache
  <2>3. CASE RevokeGrantEnds(g)
    <3>1. displaced' \subseteq Grants
      BY <2>3, OutOfStepTypes DEF RevokeGrantEnds, GrantTypeOK
    <3> QED BY <2>3, <3>1 DEF RevokeGrantEnds, GrantTypeOK
  <2>4. CASE Expire(g)
    BY <2>4 DEF Expire, GrantTypeOK
  <2>5. CASE Rewrite(g)
    <3>1. PICK row \in (Granted \cup {"malformed"} \cup (IF acl[g] = "unborn" THEN {} ELSE {"deleted"}))
                       \ {acl[g]} : SetRow(g, row)
      BY <2>5 DEF Rewrite
    <3>2. row \in Rows
      BY GrantsAssumption DEF Rows
    <3>3. /\ acl' \in [Grants -> Rows] /\ chan' \in Seq(Event) /\ outdated' \subseteq Grants
          /\ unheard' \subseteq Grants
      BY <3>1, <3>2, EventTypes
    <3> QED BY <2>5, <3>3 DEF Rewrite, GrantTypeOK
  <2>6. CASE ServeCreate(g)
    <3>1. /\ acl' \in [Grants -> Rows] /\ chan' \in Seq(Event) /\ outdated' \subseteq Grants
          /\ unheard' \subseteq Grants
      <4>1. creating[g].level \in Rows
        BY DEF GrantTypeOK, Rows
      <4>2. CASE SetRow(g, creating[g].level)
        BY <4>1, <4>2, EventTypes
      <4>3. CASE UNCHANGED <<acl, chan, unheard, outdated>>
        BY <4>3 DEF GrantTypeOK
      <4> QED BY <2>6, <4>2, <4>3 DEF ServeCreate
    <3>2. creating' \in [Grants -> [at : {"idle", "sent", "answered", "failed", "done"}, level : Levels]]
      <4>1. "view" \in Levels
        BY DEF Levels, LEVELS
      <4> QED BY <2>6, <4>1 DEF ServeCreate, Create, GrantTypeOK
    <3> QED BY <2>6, <3>1, <3>2 DEF ServeCreate, GrantTypeOK
  <2>7. CASE ServeDelete(g)
    <3>1. /\ acl' \in [Grants -> Rows] /\ chan' \in Seq(Event) /\ outdated' \subseteq Grants
          /\ unheard' \subseteq Grants
      <4>1. "deleted" \in Rows
        BY DEF Rows
      <4>2. CASE SetRow(g, "deleted")
        BY <4>1, <4>2, EventTypes
      <4>3. CASE UNCHANGED <<acl, chan, unheard, outdated>>
        BY <4>3 DEF GrantTypeOK
      <4> QED BY <2>7, <4>2, <4>3 DEF ServeDelete
    <3>2. revoking' \in [Grants -> {"idle", "sent", "answered", "failed"}]
      BY <2>7 DEF ServeDelete, GrantTypeOK
    <3> QED BY <2>7, <3>1, <3>2 DEF ServeDelete, GrantTypeOK
  <2>8. CASE CreateGrantThrows(g) \/ \E level \in Granted : CreateGrant(g, level)
    <3>1. "view" \in Levels /\ Granted \subseteq Levels
      BY GrantsAssumption DEF Levels, LEVELS
    <3> QED BY <2>8, <3>1 DEF CreateGrantThrows, CreateGrant, Create, GrantTypeOK
  <2> QED BY <1>8, <2>1, <2>2, <2>3, <2>4, <2>5, <2>6, <2>7, <2>8 DEF OnGrant
<1>9. CASE UNCHANGED grantVars
  BY <1>9 DEF grantVars, GrantTypeOK
<1> QED BY <1>1, <1>2, <1>3, <1>4, <1>5, <1>6, <1>7, <1>8, <1>9, <1>10 DEF GrantStep

-----------------------------------------------------------------------------
(* The stream and the cache.                                               *)

\* The events on the wire that tell of a grant, and what the last of them says.
Told(ch, g) == {i \in DOMAIN ch : g \in ch[i].about}
LastSays(ch, g, v) ==
  \E k \in Told(ch, g) :
    (\A i \in Told(ch, g) : i <= k) /\ parseGrantNote(ch[k].rows[g]) = v

\* What is on the wire ends with what the vault has; and where nothing is on the
\* wire, the cache has it, or is excused: a row that is being revoked grants nothing.
Follows(g) ==
  /\ Told(chan, g) # {} => LastSays(chan, g, parseGrantNote(acl[g]))
  /\ Told(chan, g) = {} /\ cache[g] # parseGrantNote(acl[g])
       => g \in displaced \/ (revoking[g] # "idle" /\ cache[g] = "none")

SnapshotsAreWhole == \A i \in DOMAIN chan : chan[i].snapshot => chan[i].about = Grants

StreamInv ==
  /\ SnapshotsAreWhole
  /\ conn = "open" => \A g \in Grants : Follows(g)

LEMMA TellOneMore ==
  ASSUME NEW ch \in Seq(Event), NEW ev \in Event, NEW g
  PROVE  /\ g \in ev.about => /\ Told(Append(ch, ev), g) # {}
                              /\ LastSays(Append(ch, ev), g, parseGrantNote(ev.rows[g]))
         /\ g \notin ev.about =>
              /\ Told(Append(ch, ev), g) = Told(ch, g)
              /\ \A v : LastSays(ch, g, v) => LastSays(Append(ch, ev), g, v)
<1> DEFINE n == Len(ch)
           more == Append(ch, ev)
<1>1. /\ n \in Nat /\ DOMAIN ch = 1..n /\ DOMAIN more = 1..(n + 1)
      /\ more[n + 1] = ev /\ \A i \in 1..n : more[i] = ch[i]
  OBVIOUS
<1> HIDE DEF n, more
<1>2. CASE g \in ev.about
  <2>1. n + 1 \in Told(more, g) /\ \A i \in Told(more, g) : i <= n + 1
    BY <1>1, <1>2 DEF Told
  <2> QED BY <1>1, <1>2, <2>1 DEF LastSays, more
<1>3. CASE g \notin ev.about
  <2>1. Told(more, g) = Told(ch, g)
    BY <1>1, <1>3 DEF Told
  <2>2. \A k \in Told(ch, g) : more[k] = ch[k]
    BY <1>1 DEF Told
  <2> QED BY <1>3, <2>1, <2>2 DEF LastSays, more
<1> QED BY <1>2, <1>3

LEMMA TellOneLess ==
  ASSUME NEW ch \in Seq(Event), ch # <<>>, NEW g
  PROVE  /\ g \in Head(ch).about => Told(ch, g) # {}
         /\ Told(Tail(ch), g) # {} =>
              /\ Told(ch, g) # {}
              /\ \A v : LastSays(ch, g, v) => LastSays(Tail(ch), g, v)
         /\ Told(Tail(ch), g) = {} =>
              /\ g \notin Head(ch).about => Told(ch, g) = {}
              /\ g \in Head(ch).about =>
                   \A v : LastSays(ch, g, v) => parseGrantNote(Head(ch).rows[g]) = v
<1> DEFINE n == Len(ch)
           rest == Tail(ch)
<1>1. /\ n \in Nat \ {0} /\ DOMAIN ch = 1..n /\ DOMAIN rest = 1..(n - 1)
      /\ Head(ch) = ch[1] /\ \A i \in 1..(n - 1) : rest[i] = ch[i + 1]
  OBVIOUS
<1> HIDE DEF n, rest
<1>2. \A i \in 1..n : i # 1 => i - 1 \in 1..(n - 1) /\ rest[i - 1] = ch[i]
  BY <1>1
<1>3. \A i \in Told(ch, g) : i \in 1..n /\ (i # 1 => i - 1 \in Told(rest, g))
  BY <1>1, <1>2 DEF Told
<1>4. \A i \in Told(rest, g) : i \in 1..(n - 1) /\ i + 1 \in Told(ch, g)
  BY <1>1 DEF Told
<1>5. g \in Head(ch).about <=> 1 \in Told(ch, g)
  BY <1>1 DEF Told
<1>6. ASSUME Told(rest, g) # {}, NEW v, LastSays(ch, g, v) PROVE LastSays(rest, g, v)
  <2>1. PICK k \in Told(ch, g) : /\ \A i \in Told(ch, g) : i <= k
                                 /\ parseGrantNote(ch[k].rows[g]) = v
    BY <1>6 DEF LastSays
  <2>2. PICK j \in Told(rest, g) : TRUE
    BY <1>6
  <2>3. k # 1 /\ k \in 1..n
    BY <2>1, <2>2, <1>3, <1>4
  <2>4. k - 1 \in Told(rest, g) /\ rest[k - 1] = ch[k]
    BY <2>3, <1>2, <1>3
  <2>5. \A i \in Told(rest, g) : i <= k - 1
    BY <2>1, <2>3, <1>4
  <2> QED BY <2>1, <2>4, <2>5 DEF LastSays
<1>7. ASSUME Told(rest, g) = {}, 1 \in Told(ch, g), NEW v, LastSays(ch, g, v)
      PROVE  parseGrantNote(Head(ch).rows[g]) = v
  BY <1>1, <1>3, <1>7 DEF LastSays
<1> QED BY <1>3, <1>4, <1>5, <1>6, <1>7 DEF rest

\* A row is out of step where nothing on the wire puts the cache right.
LEMMA OutOfStepMeans ==
  ASSUME GrantTypeOK, NEW g \in Grants, NEW c,
         Told(chan, g) # {} => LastSays(chan, g, parseGrantNote(acl[g]))
  PROVE  g \in OutOfStep(c) <=> Told(chan, g) = {} /\ c[g] # parseGrantNote(acl[g])
<1> DEFINE last == CHOOSE i \in Told(chan, g) : \A j \in Told(chan, g) : j <= i
<1>1. Settled(c)[g] = IF Told(chan, g) = {} THEN c[g] ELSE parseGrantNote(chan[last].rows[g])
  BY DEF Settled, Told
<1>2. CASE Told(chan, g) = {}
  BY <1>1, <1>2 DEF OutOfStep
<1>3. CASE Told(chan, g) # {}
  <2>1. PICK k \in Told(chan, g) : /\ \A i \in Told(chan, g) : i <= k
                                   /\ parseGrantNote(chan[k].rows[g]) = parseGrantNote(acl[g])
    BY <1>3 DEF LastSays
  <2>2. last \in Told(chan, g) /\ k <= last
    BY <2>1
  <2>3. Told(chan, g) \subseteq Nat
    BY DEF Told, GrantTypeOK
  <2>4. last = k
    <3>1. last <= k
      BY <2>1, <2>2
    <3> HIDE DEF last
    <3> QED BY <2>2, <2>3, <3>1
  <2> HIDE DEF last
  <2> QED BY <1>1, <1>3, <2>1, <2>4 DEF OutOfStep
<1> QED BY <1>2, <1>3

\* A note that changes is told of, if anybody listens.
LEMMA RowsAreTold ==
  ASSUME GrantTypeOK, StreamInv, NEW g \in Grants, NEW row \in Rows, SetRow(g, row),
         UNCHANGED <<conn, cache, displaced>>,
         \A h \in Grants : revoking[h] # "idle" => revoking'[h] # "idle"
  PROVE  StreamInv'
<1> DEFINE ev == [snapshot |-> FALSE, about |-> {g}, rows |-> [acl EXCEPT ![g] = row]]
<1>1. [acl EXCEPT ![g] = row] \in [Grants -> Rows] /\ chan \in Seq(Event)
  BY DEF GrantTypeOK
<1>2. /\ ev \in Event /\ ev.about = {g} /\ ~ev.snapshot /\ ev.rows[g] = row
      /\ acl'[g] = row /\ \A h \in Grants \ {g} : acl'[h] = acl[h]
  BY <1>1 DEF Event, SetRow, GrantTypeOK
<1>3. chan' = IF conn = "open" THEN Append(chan, ev) ELSE chan
  BY DEF SetRow, Announce
<1> HIDE DEF ev
<1>4. SnapshotsAreWhole'
  <2>1. CASE conn = "open"
    <3>1. /\ DOMAIN Append(chan, ev) = 1..(Len(chan) + 1) /\ DOMAIN chan = 1..Len(chan)
          /\ Append(chan, ev)[Len(chan) + 1] = ev
          /\ \A i \in 1..Len(chan) : Append(chan, ev)[i] = chan[i]
      BY <1>1, <1>2
    <3> QED BY <2>1, <3>1, <1>2, <1>3 DEF SnapshotsAreWhole, StreamInv
  <2>2. CASE conn # "open"
    BY <2>2, <1>3 DEF SnapshotsAreWhole, StreamInv
  <2> QED BY <2>1, <2>2
<1>5. ASSUME conn' = "open", NEW h \in Grants PROVE Follows(h)'
  <2>1. conn = "open" /\ chan' = Append(chan, ev) /\ Follows(h)
    BY <1>5, <1>3 DEF StreamInv
  <2>2. CASE h = g
    <3>1. Told(chan', h) # {} /\ LastSays(chan', h, parseGrantNote(acl'[h]))
      BY <2>1, <2>2, <1>1, <1>2, TellOneMore
    <3> QED BY <3>1 DEF Follows
  <2>3. CASE h # g
    <3>1. /\ Told(chan', h) = Told(chan, h)
          /\ \A v : LastSays(chan, h, v) => LastSays(chan', h, v)
      BY <2>1, <2>3, <1>1, <1>2, TellOneMore
    <3>2. acl'[h] = acl[h]
      BY <2>3, <1>2
    <3> QED BY <2>1, <3>1, <3>2 DEF Follows
  <2> QED BY <2>2, <2>3
<1> QED BY <1>4, <1>5 DEF StreamInv

\* What touches neither note nor wire may change the cache at one row that is excused.
LEMMA OtherRowsFollow ==
  ASSUME StreamInv, UNCHANGED <<acl, conn, chan>>,
         conn = "open" => \A g \in Grants :
           \/ g \in displaced' \/ (revoking'[g] # "idle" /\ cache'[g] = "none")
           \/ cache'[g] = parseGrantNote(acl[g])
           \/ Told(chan, g) # {}
           \/ /\ cache'[g] = cache[g] /\ (g \in displaced => g \in displaced')
              /\ revoking[g] # "idle" => revoking'[g] # "idle"
  PROVE  StreamInv'
<1>1. SnapshotsAreWhole'
  BY DEF SnapshotsAreWhole, StreamInv
<1>2. ASSUME conn = "open", NEW g \in Grants PROVE Follows(g)'
  <2>1. Follows(g)
    BY <1>2 DEF StreamInv
  <2> QED BY <2>1, <1>2 DEF Follows
<1> QED BY <1>1, <1>2 DEF StreamInv

LEMMA StreamInvKept ==
  ASSUME GrantTypeOK, StreamInv, GrantStep
  PROVE  StreamInv'
<1> USE DEF vaultVars, streamVars, requestVars
<1>0. chan \in Seq(Event)
  BY DEF GrantTypeOK
<1>1. ASSUME chan # <<>>, chan' = Tail(chan), UNCHANGED <<acl, conn, revoking>>,
             displaced' = displaced \ Head(chan).about,
             cache' = Absorb(cache, Head(chan))
      PROVE  StreamInv'
  <2>1. SnapshotsAreWhole'
    <3>1. /\ DOMAIN chan' = 1..(Len(chan) - 1) /\ DOMAIN chan = 1..Len(chan)
          /\ Len(chan) \in Nat \ {0}
          /\ \A i \in 1..(Len(chan) - 1) : chan'[i] = chan[i + 1]
      BY <1>0, <1>1
    <3> QED BY <3>1 DEF SnapshotsAreWhole, StreamInv
  <2>2. ASSUME conn' = "open", NEW g \in Grants PROVE Follows(g)'
    <3>1. Follows(g) /\ acl'[g] = acl[g] /\ revoking'[g] = revoking[g]
      BY <1>1, <2>2 DEF StreamInv
    <3>2. cache'[g] = IF g \in Head(chan).about THEN parseGrantNote(Head(chan).rows[g]) ELSE cache[g]
      BY <1>1 DEF Absorb
    <3>3. g \in displaced' <=> g \in displaced /\ g \notin Head(chan).about
      BY <1>1
    <3>4. CASE Told(chan', g) # {}
      <4>1. Told(chan, g) # {} /\ \A v : LastSays(chan, g, v) => LastSays(chan', g, v)
        BY <3>4, <1>0, <1>1, TellOneLess
      <4> QED BY <3>1, <3>4, <4>1 DEF Follows
    <3>5. CASE Told(chan', g) = {} /\ g \in Head(chan).about
      <4>1. /\ Told(chan, g) # {}
            /\ \A v : LastSays(chan, g, v) => parseGrantNote(Head(chan).rows[g]) = v
        BY <3>5, <1>0, <1>1, TellOneLess
      <4> QED BY <3>1, <3>2, <3>5, <4>1 DEF Follows
    <3>6. CASE Told(chan', g) = {} /\ g \notin Head(chan).about
      <4>1. Told(chan, g) = {}
        BY <3>6, <1>0, <1>1, TellOneLess
      <4> QED BY <3>1, <3>2, <3>3, <3>6, <4>1 DEF Follows
    <3> QED BY <3>4, <3>5, <3>6
  <2> QED BY <2>1, <2>2 DEF StreamInv
<1>2. CASE OnSnapshot
  <2>1. chan # <<>> /\ Head(chan).snapshot /\ Head(chan) = chan[1] /\ 1 \in DOMAIN chan
    BY <1>0, <1>2 DEF OnSnapshot
  <2>2. Head(chan).about = Grants
    BY <2>1 DEF StreamInv, SnapshotsAreWhole
  <2>3. Absorb(cache, Head(chan)) = Parsed(Head(chan).rows)
    BY <2>2 DEF Absorb, Parsed
  <2>4. displaced' = displaced \ Head(chan).about
    BY <1>2, <2>2 DEF OnSnapshot, GrantTypeOK
  <2> QED BY <1>1, <1>2, <2>1, <2>3, <2>4 DEF OnSnapshot
<1>3. CASE OnUpsertOrRemove
  BY <1>1, <1>3 DEF OnUpsertOrRemove, Absorbed
<1>4. CASE Connect
  <2> DEFINE ev == [snapshot |-> TRUE, about |-> Grants, rows |-> acl]
  <2>1. chan' = <<ev>> /\ acl' = acl /\ ev.about = Grants /\ ev.rows = acl
    BY <1>4 DEF Connect
  <2> HIDE DEF ev
  <2>2. chan' = <<ev>> /\ DOMAIN chan' = {1} /\ chan'[1] = ev
    BY <2>1
  <2>3. SnapshotsAreWhole'
    BY <2>1, <2>2 DEF SnapshotsAreWhole
  <2>4. ASSUME NEW g \in Grants PROVE Follows(g)'
    <3>1. Told(chan', g) = {1}
      BY <2>1, <2>2 DEF Told
    <3>2. LastSays(chan', g, parseGrantNote(acl'[g]))
      BY <3>1, <2>1, <2>2 DEF LastSays
    <3> QED BY <3>1, <3>2 DEF Follows
  <2> QED BY <2>3, <2>4 DEF StreamInv
<1>5. CASE StreamLost \/ LossNoticed \/ Refused
  <2>1. (chan' = <<>> \/ chan' = chan) /\ conn' # "open"
    BY <1>5 DEF StreamLost, LossNoticed, Refused
  <2>2. CASE chan' = <<>>
    BY <2>1, <2>2 DEF StreamInv, SnapshotsAreWhole
  <2>3. CASE chan' = chan
    BY <2>1, <2>3 DEF StreamInv, SnapshotsAreWhole
  <2> QED BY <2>1, <2>2, <2>3
<1>6. CASE Revalidated
  <2>1. UNCHANGED <<acl, conn, chan>> /\ displaced' = OutOfStep(cache')
    BY <1>6 DEF Revalidated
  <2>2. ASSUME conn = "open", NEW g \in Grants
        PROVE  g \in displaced' \/ cache'[g] = parseGrantNote(acl[g]) \/ Told(chan, g) # {}
    <3>1. Follows(g)
      BY <2>2 DEF StreamInv
    <3>2. Told(chan, g) # {} => LastSays(chan, g, parseGrantNote(acl[g]))
      BY <3>1 DEF Follows
    <3> DEFINE c == cache'
    <3>3. g \in OutOfStep(c) <=> Told(chan, g) = {} /\ c[g] # parseGrantNote(acl[g])
      <4> HIDE DEF c
      <4> QED BY <3>2, OutOfStepMeans
    <3> QED BY <2>1, <3>3
  <2> QED BY <2>1, <2>2, OtherRowsFollow
<1>7. ASSUME NEW g \in Grants, OnGrant(g) PROVE StreamInv'
  <2>1. ASSUME UNCHANGED <<acl, conn, chan>>, displaced' = displaced \cup (OutOfStep(cache') \cap {g}),
               \A h \in Grants \ {g} : cache'[h] = cache[h] /\ revoking'[h] = revoking[h]
        PROVE  StreamInv'
    <3>1. ASSUME conn = "open", NEW h \in Grants
          PROVE  \/ h \in displaced' \/ cache'[h] = parseGrantNote(acl[h]) \/ Told(chan, h) # {}
                 \/ /\ cache'[h] = cache[h] /\ (h \in displaced => h \in displaced')
                    /\ revoking'[h] = revoking[h]
      <4>1. CASE h = g
        <5>1. Follows(h)
          BY <3>1 DEF StreamInv
        <5>2. Told(chan, h) # {} => LastSays(chan, h, parseGrantNote(acl[h]))
          BY <5>1 DEF Follows
        <5> DEFINE c == cache'
        <5>3. h \in OutOfStep(c) <=> Told(chan, h) = {} /\ c[h] # parseGrantNote(acl[h])
          <6> HIDE DEF c
          <6> QED BY <5>2, OutOfStepMeans
        <5> QED BY <2>1, <4>1, <5>3
      <4>2. CASE h # g
        BY <2>1, <4>2
      <4> QED BY <4>1, <4>2
    <3> QED BY <2>1, <3>1, OtherRowsFollow
  <2>2. CASE CreateGrantReturns(g)
    BY <2>1, <2>2 DEF CreateGrantReturns, GrantTypeOK, Cache
  <2>3. CASE RevokeGrantEnds(g)
    BY <2>1, <2>3 DEF RevokeGrantEnds, GrantTypeOK, Cache
  <2>4. CASE RevokeGrant(g)
    <3>1. UNCHANGED <<acl, conn, chan, displaced>> /\ revoking'[g] # "idle" /\ cache'[g] = "none"
      BY <2>4 DEF RevokeGrant, GrantTypeOK, Cache
    <3>2. \A h \in Grants \ {g} : cache'[h] = cache[h] /\ revoking'[h] = revoking[h]
      BY <2>4 DEF RevokeGrant, GrantTypeOK, Cache
    <3> QED BY <3>1, <3>2, OtherRowsFollow
  <2>5. CASE Expire(g) \/ CreateGrantThrows(g) \/ \E level \in Granted : CreateGrant(g, level)
    <3>1. UNCHANGED <<acl, conn, chan, cache, displaced, revoking>>
      BY <2>5 DEF Expire, CreateGrantThrows, CreateGrant
    <3> QED BY <3>1, OtherRowsFollow
  <2>6. CASE Rewrite(g)
    <3>1. PICK row \in (Granted \cup {"malformed"} \cup (IF acl[g] = "unborn" THEN {} ELSE {"deleted"}))
                       \ {acl[g]} : SetRow(g, row)
      BY <2>6 DEF Rewrite
    <3>2. row \in Rows
      BY GrantsAssumption DEF Rows
    <3>3. UNCHANGED <<conn, cache, displaced, revoking>>
      BY <2>6 DEF Rewrite
    <3> QED BY <3>1, <3>2, <3>3, RowsAreTold
  <2>7. CASE ServeCreate(g)
    <3>1. UNCHANGED <<conn, cache, displaced, revoking>>
      BY <2>7 DEF ServeCreate
    <3>2. creating[g].level \in Rows
      BY DEF GrantTypeOK, Rows
    <3>3. CASE SetRow(g, creating[g].level)
      BY <3>1, <3>2, <3>3, RowsAreTold
    <3>4. CASE UNCHANGED <<acl, chan>>
      BY <3>1, <3>4, OtherRowsFollow
    <3> QED BY <2>7, <3>3, <3>4 DEF ServeCreate
  <2>8. CASE ServeDelete(g)
    <3>1. UNCHANGED <<conn, cache, displaced>>
      BY <2>8 DEF ServeDelete
    <3>2. /\ \A h \in Grants \ {g} : revoking'[h] = revoking[h]
          /\ revoking'[g] # "idle"
      BY <2>8 DEF ServeDelete, GrantTypeOK
    <3>3. CASE SetRow(g, "deleted")
      <4>1. "deleted" \in Rows
        BY DEF Rows
      <4> QED BY <3>1, <3>2, <3>3, <4>1, RowsAreTold
    <3>4. CASE UNCHANGED <<acl, chan>>
      BY <3>1, <3>2, <3>4, OtherRowsFollow
    <3> QED BY <2>8, <3>3, <3>4 DEF ServeDelete
  <2> QED BY <1>7, <2>2, <2>3, <2>4, <2>5, <2>6, <2>7, <2>8 DEF OnGrant
<1>8. CASE RevalidationFails \/ Asks \/ ServeQuery \/ FailQuery \/ WindowLapses \/ UNCHANGED grantVars
  <2>1. UNCHANGED <<acl, conn, chan, cache, displaced, revoking>>
    BY <1>8 DEF RevalidationFails, Asks, ServeQuery, FailQuery, WindowLapses, grantVars
  <2> QED BY <2>1, OtherRowsFollow
<1> QED BY <1>2, <1>3, <1>4, <1>5, <1>6, <1>7, <1>8 DEF GrantStep

\* LiveCacheIsExact says of all rows what Follows says of one.
LEMMA FollowingIsExact ==
  ASSUME GrantTypeOK, StreamInv
  PROVE  LiveCacheIsExact
<1> SUFFICES ASSUME conn = "open", NEW g \in OutOfStep(cache)
             PROVE  g \in displaced \/ revoking[g] # "idle"
  BY DEF LiveCacheIsExact
<1>1. g \in Grants
  BY OutOfStepTypes
<1>2. Follows(g)
  BY <1>1 DEF StreamInv
<1>3. Told(chan, g) # {} => LastSays(chan, g, parseGrantNote(acl[g]))
  BY <1>2 DEF Follows
<1>4. Told(chan, g) = {} /\ cache[g] # parseGrantNote(acl[g])
  BY <1>1, <1>3, OutOfStepMeans
<1> QED BY <1>2, <1>4 DEF Follows

-----------------------------------------------------------------------------
(* Reads while the stream is down.                                         *)

\* What the vault answered, and what is read for a while after its answer, differs
\* from what the vault has at most on outdated rows.
DegradedInv ==
  /\ query.at # "idle" => ~recent
  /\ query.at = "answered" => \A g \in Grants : query.rows[g] # acl[g] => g \in outdated
  /\ recent => \A g \in Grants : cache[g] \notin {"none", parseGrantNote(acl[g])} => g \in outdated

LEMMA RowsAreOutdated ==
  ASSUME GrantTypeOK, DegradedInv, NEW g \in Grants, NEW row, SetRow(g, row),
         UNCHANGED <<query, recent, cache>>
  PROVE  DegradedInv'
<1>1. outdated' = outdated \cup {g} /\ \A h \in Grants \ {g} : acl'[h] = acl[h]
  BY DEF SetRow, GrantTypeOK
<1> QED BY <1>1 DEF DegradedInv

LEMMA DegradedInvKept ==
  ASSUME GrantTypeOK, StreamInv, DegradedInv, GrantStep
  PROVE  DegradedInv'
<1> USE DEF vaultVars, streamVars, requestVars
<1>0. chan \in Seq(Event)
  BY DEF GrantTypeOK
<1>1. ASSUME chan # <<>>, cache' = Absorb(cache, Head(chan)), OvertakenBy(Head(chan)),
             UNCHANGED <<acl, query, recent>>
      PROVE  DegradedInv'
  <2>1. outdated \subseteq outdated'
    BY <1>1 DEF OvertakenBy
  <2>2. ASSUME recent, NEW g \in Grants, cache'[g] \notin {"none", parseGrantNote(acl[g])}
        PROVE  g \in outdated'
    <3>1. CASE g \in Head(chan).about
      <4>1. cache'[g] = parseGrantNote(Head(chan).rows[g])
        BY <1>1, <3>1 DEF Absorb
      <4>2. g \in Stale(Head(chan))
        BY <2>2, <3>1, <4>1 DEF Stale
      <4> QED BY <1>1, <2>2, <4>2 DEF OvertakenBy
    <3>2. CASE g \notin Head(chan).about
      <4>1. cache'[g] = cache[g]
        BY <1>1, <3>2 DEF Absorb
      <4> QED BY <2>1, <2>2, <4>1 DEF DegradedInv
    <3> QED BY <3>1, <3>2
  <2> QED BY <1>1, <2>1, <2>2 DEF DegradedInv
<1>2. CASE OnSnapshot
  <2>1. chan # <<>> /\ Head(chan).snapshot /\ Head(chan) = chan[1] /\ 1 \in DOMAIN chan
    BY <1>0, <1>2 DEF OnSnapshot
  <2>2. Head(chan).about = Grants
    BY <2>1 DEF StreamInv, SnapshotsAreWhole
  <2>3. Absorb(cache, Head(chan)) = Parsed(Head(chan).rows)
    BY <2>2 DEF Absorb, Parsed
  <2> QED BY <1>1, <1>2, <2>3 DEF OnSnapshot
<1>3. CASE OnUpsertOrRemove
  BY <1>1, <1>3 DEF OnUpsertOrRemove, Absorbed
<1>4. CASE Revalidated
  <2>1. /\ query.at = "answered" /\ query'.at = "idle" /\ UNCHANGED <<acl, outdated>>
        /\ cache' = Parsed(query.rows)
    BY <1>4 DEF Revalidated, Query
  <2>2. \A g \in Grants : cache'[g] = parseGrantNote(query.rows[g])
    BY <2>1 DEF Parsed
  <2> QED BY <2>1, <2>2 DEF DegradedInv
<1>5. CASE RevalidationFails \/ Asks \/ FailQuery
  <2>1. /\ ~recent /\ (query'.at # "answered" \/ query' = query)
        /\ UNCHANGED <<acl, cache, recent, outdated>>
    BY <1>5 DEF RevalidationFails, Asks, FailQuery, Revalidate, Query, Readable, DegradedInv
  <2> QED BY <2>1 DEF DegradedInv
<1>6. CASE ServeQuery
  <2>1. /\ ~recent /\ query'.rows = acl /\ UNCHANGED <<acl, cache, recent>>
    BY <1>6 DEF ServeQuery, DegradedInv
  <2> QED BY <2>1 DEF DegradedInv
<1>7. CASE WindowLapses
  <2>1. ~recent' /\ UNCHANGED <<acl, query, outdated>>
    BY <1>7 DEF WindowLapses
  <2> QED BY <2>1 DEF DegradedInv
<1>8. CASE Connect \/ StreamLost \/ LossNoticed \/ Refused \/ UNCHANGED grantVars
  <2>1. UNCHANGED <<acl, cache, query, recent, outdated>>
    BY <1>8 DEF Connect, StreamLost, LossNoticed, Refused, grantVars
  <2> QED BY <2>1 DEF DegradedInv
<1>9. ASSUME NEW g \in Grants, OnGrant(g) PROVE DegradedInv'
  <2>1. CASE CreateGrantReturns(g)
    <3>1. /\ cache'[g] = creating[g].level /\ \A h \in Grants \ {g} : cache'[h] = cache[h]
          /\ UNCHANGED <<acl, query, recent>> /\ outdated \subseteq outdated'
          /\ acl[g] # creating[g].level => g \in outdated'
      BY <2>1 DEF CreateGrantReturns, GrantTypeOK, Cache
    <3>2. creating[g].level \in Levels
      BY DEF GrantTypeOK
    <3>3. acl[g] = creating[g].level => cache'[g] = parseGrantNote(acl[g])
      BY <3>1, <3>2 DEF parseGrantNote
    <3> QED BY <3>1, <3>3 DEF DegradedInv
  <2>2. CASE RevokeGrant(g)
    <3>1. /\ cache'[g] = "none" /\ \A h \in Grants \ {g} : cache'[h] = cache[h]
          /\ UNCHANGED <<acl, query, recent, outdated>>
      BY <2>2 DEF RevokeGrant, GrantTypeOK, Cache
    <3> QED BY <3>1 DEF DegradedInv
  <2>3. CASE RevokeGrantEnds(g) \/ Expire(g) \/ CreateGrantThrows(g)
             \/ \E level \in Granted : CreateGrant(g, level)
    <3>1. UNCHANGED <<acl, cache, query, recent, outdated>>
      BY <2>3 DEF RevokeGrantEnds, Expire, CreateGrantThrows, CreateGrant
    <3> QED BY <3>1 DEF DegradedInv
  <2>4. ASSUME UNCHANGED <<query, recent, cache>>, UNCHANGED <<acl, outdated>> \/ \E row : SetRow(g, row)
        PROVE  DegradedInv'
    <3>1. CASE UNCHANGED <<acl, outdated>>
      BY <2>4, <3>1 DEF DegradedInv
    <3>2. CASE \E row : SetRow(g, row)
      BY <2>4, <3>2, RowsAreOutdated
    <3> QED BY <2>4, <3>1, <3>2
  <2>5. CASE Rewrite(g)
    BY <2>4, <2>5 DEF Rewrite
  <2>6. CASE ServeCreate(g)
    BY <2>4, <2>6 DEF ServeCreate
  <2>7. CASE ServeDelete(g)
    BY <2>4, <2>7 DEF ServeDelete
  <2> QED BY <1>9, <2>1, <2>2, <2>3, <2>5, <2>6, <2>7 DEF OnGrant
<1> QED BY <1>2, <1>3, <1>4, <1>5, <1>6, <1>7, <1>8, <1>9 DEF GrantStep

\* While a loss is unnoticed, what the cache has besides the vault's rows is what the
\* loss kept from it, or was out of step before; with the notice the store degrades.
LossInv ==
  /\ conn # "open" => chan = <<>>
  /\ conn \notin {"open", "lost"} => ~live
  /\ conn = "lost" => \A g \in Grants :
       cache[g] \notin {"none", parseGrantNote(acl[g])} => g \in unheard \cup displaced

\* Where nothing is on the wire, a row is out of step if it is not the vault's.
LEMMA OutOfStepOffline ==
  ASSUME GrantTypeOK, chan = <<>>, NEW c, NEW g \in Grants, c[g] # parseGrantNote(acl[g])
  PROVE  g \in OutOfStep(c)
<1>1. Told(chan, g) = {}
  BY DEF Told
<1> QED BY <1>1, OutOfStepMeans

LEMMA LossInvKept ==
  ASSUME GrantTypeOK, StreamInv, LossInv, GrantStep
  PROVE  LossInv'
<1> USE DEF vaultVars, streamVars, requestVars
<1>1. CASE OnSnapshot \/ OnUpsertOrRemove
  <2>1. chan # <<>> /\ conn' = conn
    BY <1>1 DEF OnSnapshot, OnUpsertOrRemove
  <2>2. conn = "open"
    BY <2>1 DEF LossInv
  <2> QED BY <2>1, <2>2 DEF LossInv
<1>2. CASE Connect
  <2>1. conn' = "open"
    BY <1>2 DEF Connect
  <2> QED BY <2>1 DEF LossInv
<1>3. CASE StreamLost
  <2>1. /\ conn = "open" /\ conn' = "lost" /\ chan' = <<>> /\ UNCHANGED <<acl, cache, displaced>>
        /\ unheard' = UNION {chan[i].about : i \in DOMAIN chan}
    BY <1>3 DEF StreamLost
  <2>2. ASSUME NEW g \in Grants, cache[g] \notin {"none", parseGrantNote(acl[g])}
        PROVE  g \in unheard' \cup displaced
    <3>1. Follows(g)
      BY <2>1 DEF StreamInv
    <3>2. CASE Told(chan, g) = {}
      BY <3>1, <3>2, <2>2 DEF Follows
    <3>3. CASE Told(chan, g) # {}
      BY <3>3, <2>1 DEF Told
    <3> QED BY <3>2, <3>3
  <2> QED BY <2>1, <2>2 DEF LossInv
<1>4. CASE LossNoticed \/ Refused
  <2>1. conn' \in {"down", "closed"} /\ ~live' /\ chan' = chan /\ conn # "open"
    BY <1>4 DEF LossNoticed, Refused
  <2> QED BY <2>1 DEF LossInv
<1>5. ASSUME UNCHANGED <<conn, chan, live, acl, unheard>>,
             conn = "lost" => \A g \in Grants :
               \/ cache'[g] = cache[g] /\ (g \in displaced => g \in displaced')
               \/ cache'[g] = "none" \/ cache'[g] = parseGrantNote(acl[g]) \/ g \in displaced'
      PROVE  LossInv'
  BY <1>5 DEF LossInv
<1>6. CASE Revalidated
  <2> DEFINE c == cache'
  <2>1. UNCHANGED <<conn, chan, live, acl, unheard>> /\ displaced' = OutOfStep(c)
    BY <1>6 DEF Revalidated
  <2>2. ASSUME conn = "lost", NEW g \in Grants
        PROVE  c[g] = parseGrantNote(acl[g]) \/ g \in displaced'
    <3>1. chan = <<>>
      BY <2>2 DEF LossInv
    <3> HIDE DEF c
    <3> QED BY <3>1, <2>1, OutOfStepOffline
  <2> QED BY <2>1, <2>2, <1>5
<1>7. CASE RevalidationFails \/ Asks \/ ServeQuery \/ FailQuery \/ WindowLapses \/ UNCHANGED grantVars
  <2>1. UNCHANGED <<conn, chan, live, acl, unheard, cache, displaced>>
    BY <1>7 DEF RevalidationFails, Asks, ServeQuery, FailQuery, WindowLapses, grantVars
  <2> QED BY <2>1, <1>5
<1>8. ASSUME NEW g \in Grants, OnGrant(g) PROVE LossInv'
  <2>1. ASSUME UNCHANGED <<conn, chan, live, acl, unheard>>,
               displaced' = displaced \cup (OutOfStep(cache') \cap {g}),
               \A h \in Grants \ {g} : cache'[h] = cache[h]
        PROVE  LossInv'
    <3> DEFINE c == cache'
    <3>1. ASSUME conn = "lost" PROVE c[g] = parseGrantNote(acl[g]) \/ g \in displaced'
      <4>1. chan = <<>>
        BY <3>1 DEF LossInv
      <4>2. displaced' = displaced \cup (OutOfStep(c) \cap {g})
        BY <2>1
      <4> HIDE DEF c
      <4> QED BY <4>1, <4>2, OutOfStepOffline
    <3> QED BY <2>1, <3>1, <1>5
  <2>2. CASE CreateGrantReturns(g)
    BY <2>1, <2>2 DEF CreateGrantReturns, GrantTypeOK, Cache
  <2>3. CASE RevokeGrantEnds(g)
    BY <2>1, <2>3 DEF RevokeGrantEnds, GrantTypeOK, Cache
  <2>4. CASE RevokeGrant(g)
    <3>1. UNCHANGED <<conn, chan, live, acl, unheard, displaced>> /\ cache'[g] = "none"
          /\ \A h \in Grants \ {g} : cache'[h] = cache[h]
      BY <2>4 DEF RevokeGrant, GrantTypeOK, Cache
    <3> QED BY <3>1, <1>5
  <2>5. CASE Expire(g) \/ CreateGrantThrows(g) \/ \E level \in Granted : CreateGrant(g, level)
    <3>1. UNCHANGED <<conn, chan, live, acl, unheard, cache, displaced>>
      BY <2>5 DEF Expire, CreateGrantThrows, CreateGrant
    <3> QED BY <3>1, <1>5
  <2>6. ASSUME UNCHANGED <<conn, live, cache, displaced>>,
               UNCHANGED <<acl, chan, unheard>> \/ \E row : SetRow(g, row)
        PROVE  LossInv'
    <3>1. CASE UNCHANGED <<acl, chan, unheard>>
      BY <2>6, <3>1, <1>5
    <3>2. ASSUME NEW row, SetRow(g, row) PROVE LossInv'
      <4>1. /\ \A h \in Grants \ {g} : acl'[h] = acl[h]
            /\ conn # "open" => chan' = chan
            /\ conn = "lost" => unheard' = unheard \cup {g}
        BY <3>2 DEF SetRow, Announce, GrantTypeOK
      <4> QED BY <2>6, <4>1 DEF LossInv
    <3> QED BY <2>6, <3>1, <3>2
  <2>7. CASE Rewrite(g)
    BY <2>6, <2>7 DEF Rewrite
  <2>8. CASE ServeCreate(g)
    BY <2>6, <2>8 DEF ServeCreate
  <2>9. CASE ServeDelete(g)
    BY <2>6, <2>9 DEF ServeDelete
  <2> QED BY <1>8, <2>2, <2>3, <2>4, <2>5, <2>7, <2>8, <2>9 DEF OnGrant
<1> QED BY <1>1, <1>2, <1>3, <1>4, <1>6, <1>7, <1>8 DEF GrantStep

LEMMA DegradedInvSuffices ==
  ASSUME DegradedInv, LossInv, GrantTypeOK
  PROVE  DegradedReadsAreRecent
<1> SUFFICES ASSUME Readable, NEW g \in Grants, cache[g] \notin {"none", parseGrantNote(acl[g])}
             PROVE  IF live THEN conn = "open" \/ g \in unheard \cup displaced ELSE g \in outdated
  BY DEF DegradedReadsAreRecent
<1>1. CASE live
  BY <1>1 DEF LossInv
<1>2. CASE ~live
  BY <1>2 DEF Readable, DegradedInv
<1> QED BY <1>1, <1>2

-----------------------------------------------------------------------------
(* The grant store.                                                        *)

GrantInv == GrantTypeOK /\ StreamInv /\ DegradedInv /\ LossInv

LEMMA GrantInvInit ==
  ASSUME GrantInit
  PROVE  GrantInv
<1>1. GrantTypeOK
  <2>1. <<>> \in Seq(Event)
    OBVIOUS
  <2>2. "view" \in Levels
    BY DEF Levels, LEVELS
  <2>3. cache \in Cache
    BY DEF GrantInit, Cache
  <2>4. /\ chan \in Seq(Event) /\ acl \in [Grants -> Rows]
        /\ query \in [at : {"idle", "sent", "answered", "failed"}, rows : [Grants -> Rows]]
    BY <2>1 DEF GrantInit, Query, Rows
  <2>5. creating \in [Grants -> [at : {"idle", "sent", "answered", "failed", "done"}, level : Levels]]
    BY <2>2 DEF GrantInit, Create
  <2> QED BY <2>3, <2>4, <2>5 DEF GrantInit, GrantTypeOK
<1>2. StreamInv
  BY DEF GrantInit, StreamInv, SnapshotsAreWhole
<1>3. DegradedInv
  BY DEF GrantInit, DegradedInv, Query
<1>4. LossInv
  BY DEF GrantInit, LossInv
<1> QED BY <1>1, <1>2, <1>3, <1>4 DEF GrantInv

LEMMA GrantInvariance == Spec => []GrantInv
<1>1. Init => GrantInv
  BY GrantInvInit DEF Init
<1>2. GrantInv /\ [Next]_vars => GrantInv'
  <2> SUFFICES ASSUME GrantInv, Next \/ UNCHANGED vars PROVE GrantInv'
    OBVIOUS
  <2>1. GrantStep
    BY EveryStepIsAGrantStep
  <2>2. GrantTypeOK'
    BY <2>1, GrantTypesKept DEF GrantInv
  <2>3. StreamInv'
    BY <2>1, StreamInvKept DEF GrantInv
  <2>4. DegradedInv'
    BY <2>1, DegradedInvKept DEF GrantInv
  <2>5. LossInv'
    BY <2>1, LossInvKept DEF GrantInv
  <2> QED BY <2>2, <2>3, <2>4, <2>5 DEF GrantInv
<1> QED BY <1>1, <1>2, PTL DEF Spec

(***************************************************************************)
(* While the stream is up, the cache and the events on the wire make up    *)
(* exactly the grants of the vault, whoever writes them and however often  *)
(* the stream was lost; except for the rows on which a late answer of a    *)
(* query or a createGrant, or a revocation that failed, has the last word. *)
(***************************************************************************)
THEOREM LiveCacheFollowsStream == Spec => []LiveCacheIsExact
<1>1. GrantInv => LiveCacheIsExact
  BY FollowingIsExact DEF GrantInv
<1> QED BY <1>1, GrantInvariance, PTL

(***************************************************************************)
(* A read that is served without the stream honours no grant that was gone *)
(* before the answer it rests on, unless the stream came back with it      *)
(* after that answer and was lost again; and as long as the store has not  *)
(* noticed the loss and serves its cache as live, it honours no grant that *)
(* was gone, and told of, before the loss.                                 *)
(***************************************************************************)
THEOREM DegradedReadsRestOnAnswers == Spec => []DegradedReadsAreRecent
<1>1. GrantInv => DegradedReadsAreRecent
  BY DegradedInvSuffices DEF GrantInv
<1> QED BY <1>1, GrantInvariance, PTL

-----------------------------------------------------------------------------
(* The links.                                                              *)

LEMMA LinkTypesKept ==
  ASSUME LinkTypeOK, Next \/ UNCHANGED vars
  PROVE  LinkTypeOK'
<1>1. CASE UNCHANGED linkVars
  BY <1>1 DEF linkVars, LinkTypeOK
<1>2. ASSUME NEW l \in Links, Mint(l) \/ Exchange(l) \/ SessionExpires(l) \/ LinkExpires(l)
      PROVE  LinkTypeOK'
  BY <1>2 DEF Mint, Exchange, SessionExpires, LinkExpires, LinkTypeOK
<1>3. CASE \E g \in Grants : ShareDeleted(g)
  <2>1. \A ls : Revoked(ls) \in [Links -> {"unminted", "usable", "dead"}]
    BY DEF Revoked, LinkTypeOK
  <2> QED BY <1>3, <2>1 DEF ShareDeleted, LinkTypeOK
<1>4. \/ UNCHANGED linkVars
      \/ \E l \in Links : Mint(l) \/ Exchange(l) \/ SessionExpires(l) \/ LinkExpires(l)
      \/ \E g \in Grants : ShareDeleted(g)
  <2>1. CASE Deliver \/ LocalWrite \/ StoreQuiet \/ RevalidateEnds \/ SweepNote \/ UNCHANGED vars
    BY <2>1 DEF Deliver, LocalWrite, Notified, StoreQuiet, RevalidateEnds, SweepNote, vars
  <2>2. CASE \E g \in Grants : GrantExpires(g) \/ ShareDeleted(g)
    BY <2>2 DEF GrantExpires
  <2>3. CASE LinkSteps \/ \E l \in Links : Share(l)
    BY <2>3 DEF LinkSteps, Share
  <2>4. CASE \E a \in Actors : MintTicket(a) \/ TicketExpires(a)
    BY <2>4 DEF MintTicket, TicketExpires
  <2>5. CASE \E s \in Sockets : \/ (\E a \in Actors : OnAuthenticate(s, a)) \/ AuthNote(s)
                               \/ Connected(s) \/ OnDisconnect(s)
    BY <2>5 DEF OnAuthenticate, AuthNote, Connected, OnDisconnect
  <2> QED BY <2>1, <2>2, <2>3, <2>4, <2>5 DEF Next
<1> QED BY <1>1, <1>2, <1>3, <1>4

-----------------------------------------------------------------------------
(* The sessions and their sweep.                                           *)

SockType  == [at : {"free", "noting", "reading", "opening", "open"},
              actor : Actors \cup {Nobody}, level : AnyLevel]
SweepType == [at : {"idle", "noting", "reading"}, cur : Sockets \cup {NoSocket},
              todo : SUBSET Sockets, queued : BOOLEAN]

AccessTypes ==
  /\ tickets \subseteq Actors /\ unswept \subseteq Sockets
  /\ sock \in [Sockets -> SockType] /\ sweep \in SweepType

\* Only who may read is let in.
Reader(k) == k.at \in {"opening", "open"} => can(k.level, "read")

\* The sweep w is still to come to the session s.
Pending(w, s) == w.at # "idle" /\ (s \in w.todo \/ s = w.cur \/ w.queued)

\* The session has the rights that the cache gives its actor.
Entitled(s) == Rights(sock[s].level) = Rights(Level(sock[s].actor, cache))

SessionInv ==
  /\ \A s \in Sockets : Reader(sock[s])
  /\ \A s \in Sessions(sock) \ unswept : Entitled(s) \/ Pending(sweep, s)

\* Where a sweep goes next it passes over no session that it has yet to visit.
LEMMA NextVisitMisses ==
  ASSUME NEW todo \in SUBSET Sockets, NEW queued \in BOOLEAN, NEW sk,
         NEW w \in NextVisit(todo, queued, sk)
  PROVE  /\ w \in SweepType
         /\ \A s \in Sessions(sk) : s \in todo \/ queued => Pending(w, s)
<1> DEFINE left == todo \cap Sessions(sk)
           from(ss, q) == {[at |-> "noting", cur |-> s, todo |-> ss \ {s}, queued |-> q] : s \in ss}
<1>1. Sessions(sk) \subseteq Sockets
  BY DEF Sessions
<1>2. ASSUME NEW ss \in SUBSET Sockets, NEW q \in BOOLEAN, w \in from(ss, q)
      PROVE  w \in SweepType /\ \A s : s \in ss \/ q => Pending(w, s)
  BY <1>2 DEF SweepType, Pending
<1>3. CASE left # {}
  <2>1. w \in from(left, queued)
    BY <1>3 DEF NextVisit
  <2>2. left \in SUBSET Sockets
    OBVIOUS
  <2> HIDE DEF from, left
  <2>3. w \in SweepType /\ \A s : s \in left \/ queued => Pending(w, s)
    BY <1>2, <2>1, <2>2
  <2> QED BY <2>3 DEF left
<1>4. CASE left = {} /\ queued /\ Sessions(sk) # {}
  <2>1. w \in from(Sessions(sk), FALSE)
    BY <1>4 DEF NextVisit
  <2> HIDE DEF from
  <2>2. w \in SweepType /\ \A s : s \in Sessions(sk) => Pending(w, s)
    BY <1>1, <1>2, <2>1
  <2> QED BY <2>2
<1>5. CASE left = {} /\ ~ (queued /\ Sessions(sk) # {})
  <2>1. w = Resting
    BY <1>5 DEF NextVisit
  <2> QED BY <2>1, <1>5 DEF Resting, SweepType
<1> QED BY <1>3, <1>4, <1>5

\* After the listener was called every session is to be visited.
LEMMA NotifyMisses ==
  ASSUME sweep \in SweepType, NEW sk, NEW w \in Notify(sk)
  PROVE  w \in SweepType /\ \A s \in Sessions(sk) : Pending(w, s)
<1>1. CASE sweep.at = "idle"
  <2>1. w \in NextVisit(Sessions(sk), FALSE, sk) /\ Sessions(sk) \in SUBSET Sockets
    BY <1>1 DEF Notify, Sessions
  <2> QED BY <2>1, NextVisitMisses
<1>2. CASE sweep.at # "idle"
  <2>1. w = [sweep EXCEPT !.queued = TRUE]
    BY <1>2 DEF Notify
  <2> QED BY <1>2, <2>1 DEF SweepType, Pending
<1> QED BY <1>1, <1>2

\* A verdict lets in readers only, and nobody is open yet.
LEMMA AdmittedTypes ==
  ASSUME AccessTypes, NEW s \in Sockets, NEW c \in Cache
  PROVE  /\ Admitted(s, c) \in SockType /\ Reader(Admitted(s, c))
         /\ Admitted(s, c).at # "open"
<1> DEFINE l == Level(sock[s].actor, c)
<1>1. l \in AnyLevel
  BY LevelTypes
<1>2. sock[s] \in SockType
  BY DEF AccessTypes
<1>3. Admitted(s, c) = IF can(l, "read") THEN [sock[s] EXCEPT !.at = "opening", !.level = l] ELSE Free
  BY DEF Admitted
<1> HIDE DEF l
<1>4. Free \in SockType /\ Free.at = "free"
  BY DEF Free, SockType, AnyLevel
<1>5. CASE can(l, "read")
  <2> DEFINE k == [sock[s] EXCEPT !.at = "opening", !.level = l]
  <2>1. k \in SockType /\ k.at = "opening" /\ k.level = l
    BY <1>1, <1>2 DEF SockType
  <2> HIDE DEF k
  <2> QED BY <1>3, <1>5, <2>1 DEF Reader, k
<1>6. CASE ~can(l, "read")
  BY <1>3, <1>4, <1>6 DEF Reader
<1> QED BY <1>5, <1>6

\* A session that keeps its connection through a verdict has the rights it would be
\* given now.
LEMMA JudgedKeeps ==
  ASSUME NEW sk \in [Sockets -> SockType], NEW s \in Sockets \cup {NoSocket}, NEW level
  PROVE  LET sk2 == Judged(sk, s, level)
         IN /\ sk2 \in [Sockets -> SockType]
            /\ \A t \in Sockets : sk2[t] = sk[t] \/ sk2[t] = Free
            /\ s \in Sessions(sk2) => Rights(level) = Rights(sock[s].level)
<1>1. Free \in SockType /\ Free.at = "free"
  BY DEF Free, SockType, AnyLevel
<1>2. CASE s # NoSocket /\ Changed(s, level)
  <2>1. Judged(sk, s, level) = [sk EXCEPT ![s] = Free]
    BY <1>2 DEF Judged
  <2> DEFINE sk2 == [sk EXCEPT ![s] = Free]
  <2>2. sk2 \in [Sockets -> SockType] /\ \A t \in Sockets : sk2[t] = sk[t] \/ sk2[t] = Free
    BY <1>1, <1>2
  <2>3. sk2[s].at # "open"
    BY <1>1, <1>2
  <2> HIDE DEF sk2
  <2>4. s \notin Sessions(sk2)
    BY <2>3 DEF Sessions
  <2> QED BY <2>1, <2>2, <2>4 DEF sk2
<1>3. CASE ~ (s # NoSocket /\ Changed(s, level))
  <2>1. Judged(sk, s, level) = sk
    BY <1>3 DEF Judged
  <2>2. s \in Sessions(sk) => s # NoSocket
    BY AccessAssumption DEF Sessions
  <2> QED BY <1>3, <2>1, <2>2 DEF Changed
<1> QED BY <1>2, <1>3

\* The rights that the cache gives do not change unless the cache does, or time passes.
LEMMA SameRights ==
  ASSUME NEW s \in Sockets, UNCHANGED <<cache, expired>>, sock'[s] = sock[s], Entitled(s)
  PROVE  Entitled(s)'
  BY DEF Entitled, Level, levelFor

\* A session about which nothing has changed, and which no sweep was to visit.
LeftAlone(s) == sock'[s] = sock[s] /\ s \notin unswept /\ ~Pending(sweep, s)

LEMMA SessionsSettle ==
  ASSUME SessionInv, UNCHANGED <<cache, expired>>, \A s \in Sockets : Reader(sock'[s]),
         \A s \in Sessions(sock') \ unswept' :
           Entitled(s)' \/ Pending(sweep', s) \/ LeftAlone(s)
  PROVE  SessionInv'
<1> SUFFICES ASSUME NEW s \in Sessions(sock') \ unswept', LeftAlone(s)
             PROVE  Entitled(s)'
  BY DEF SessionInv
<1>1. s \in Sockets /\ s \in Sessions(sock) \ unswept
  BY DEF Sessions, LeftAlone
<1>2. Entitled(s)
  BY <1>1 DEF SessionInv, LeftAlone
<1> QED BY <1>1, <1>2, SameRights DEF LeftAlone

LEMMA AccessStepsAside ==
  ASSUME AccessTypes, SessionInv, UNCHANGED <<cache, expired, sock, sweep, unswept>>,
         tickets' \subseteq Actors
  PROVE  AccessTypes' /\ SessionInv'
<1>1. AccessTypes'
  BY DEF AccessTypes
<1>2. \A s \in Sockets : Reader(sock'[s])
  BY DEF SessionInv
<1>3. \A s \in Sessions(sock') \ unswept' : s \in Sockets /\ s \in Sessions(sock) \ unswept
  BY DEF Sessions
<1>4. \A s \in Sessions(sock') \ unswept' : Pending(sweep', s) \/ LeftAlone(s)
  BY <1>3 DEF LeftAlone
<1> QED BY <1>1, <1>2, <1>4, SessionsSettle

\* One socket goes another way: it is no session now, or its rights are the cached
\* ones, or it is known to be unswept.
LEMMA OneSocketMoves ==
  ASSUME AccessTypes, SessionInv, UNCHANGED <<cache, expired>>, tickets' \subseteq Actors,
         NEW s \in Sockets, NEW k \in SockType, sock' = [sock EXCEPT ![s] = k], Reader(k),
         sweep' \in SweepType, unswept' \subseteq Sockets,
         k.at = "open" => s \in unswept' \/ Entitled(s)',
         \A t \in Sockets \ {s} :
           (t \in unswept => t \in unswept') /\ (Pending(sweep, t) => Pending(sweep', t))
  PROVE  AccessTypes' /\ SessionInv'
<1>1. /\ sock' \in [Sockets -> SockType] /\ sock'[s] = k
      /\ \A t \in Sockets \ {s} : sock'[t] = sock[t]
  BY DEF AccessTypes
<1>2. AccessTypes'
  BY <1>1 DEF AccessTypes
<1>3. \A t \in Sockets : Reader(sock'[t])
  BY <1>1 DEF SessionInv
<1>4. ASSUME NEW t \in Sessions(sock') \ unswept'
      PROVE  Entitled(t)' \/ Pending(sweep', t) \/ LeftAlone(t)
  <2>1. t \in Sockets /\ sock'[t].at = "open"
    BY DEF Sessions
  <2>2. CASE t = s
    BY <1>1, <2>1, <2>2
  <2>3. CASE t # s
    <3>1. t \in Sockets \ {s} /\ t \notin unswept'
      BY <2>1, <2>3
    <3>2. sock'[t] = sock[t] /\ t \notin unswept /\ (Pending(sweep, t) => Pending(sweep', t))
      BY <1>1, <3>1
    <3> QED BY <3>2 DEF LeftAlone
  <2> QED BY <2>2, <2>3
<1> QED BY <1>2, <1>3, <1>4, SessionsSettle

\* The cache changes and the listener is called.
LEMMA ListenersSweep ==
  ASSUME AccessTypes, SessionInv, sock' \in [Sockets -> SockType], tickets' = tickets,
         \A s \in Sockets : Reader(sock'[s]), Sessions(sock') \subseteq Sessions(sock),
         sweep' \in Notify(sock), unswept' = unswept
  PROVE  AccessTypes' /\ SessionInv'
<1>1. sweep' \in SweepType /\ \A s \in Sessions(sock) : Pending(sweep', s)
  BY NotifyMisses DEF AccessTypes
<1> QED BY <1>1 DEF AccessTypes, SessionInv

LEMMA QuietChangesNoCache ==
  ASSUME Quiet \/ \E g \in Grants : RevokeGrantEnds(g) \/ (\E level \in Granted : CreateGrant(g, level))
  PROVE  UNCHANGED <<cache, expired>>
<1> USE DEF vaultVars, streamVars, requestVars
<1>1. CASE \E g \in Grants : Rewrite(g) \/ ServeCreate(g) \/ ServeDelete(g) \/ CreateGrantThrows(g)
  BY <1>1 DEF Rewrite, ServeCreate, ServeDelete, CreateGrantThrows
<1>2. CASE Connect \/ StreamLost \/ LossNoticed \/ Refused
  BY <1>2 DEF Connect, StreamLost, LossNoticed, Refused
<1>4. CASE ServeQuery \/ FailQuery \/ WindowLapses
  BY <1>4 DEF ServeQuery, FailQuery, WindowLapses
<1>3. CASE \E g \in Grants : RevokeGrantEnds(g) \/ (\E level \in Granted : CreateGrant(g, level))
  BY <1>3 DEF RevokeGrantEnds, CreateGrant
<1> QED BY <1>1, <1>2, <1>3, <1>4 DEF Quiet

LEMMA SweepNoteSettles ==
  ASSUME GrantTypeOK, AccessTypes, SessionInv, SweepNote
  PROVE  AccessTypes' /\ SessionInv'
<1>0. PICK s \in Sockets \cup {NoSocket} : s = sweep.cur
  BY DEF AccessTypes, SweepType
<1> DEFINE ended == IF s = NoSocket THEN sock ELSE [sock EXCEPT ![s] = Free]
<1>1. /\ sweep.at = "noting" /\ tickets' = tickets
      /\ sweep.todo \in SUBSET Sockets /\ sweep.queued \in BOOLEAN
  BY DEF SweepNote, AccessTypes, SweepType
<1>2. Free \in SockType /\ Free.at = "free" /\ Reader(Free)
  BY DEF Free, SockType, AnyLevel, Reader
<1>3. NoSocket \notin Sockets
  BY AccessAssumption
\* A visit ends, and the next begins.
<1>4. ASSUME sock' \in [Sockets -> SockType], UNCHANGED <<cache, expired>>,
             sweep' \in NextVisit(sweep.todo, sweep.queued, sock'),
             \A t \in Sockets : sock'[t] = sock[t] \/ sock'[t] = Free,
             unswept' \subseteq Sockets, \A t \in Sockets \ {s} : t \in unswept => t \in unswept',
             s \in Sessions(sock') \ unswept' => Entitled(s)'
      PROVE  AccessTypes' /\ SessionInv'
  <2> DEFINE sk == sock'
             w  == sweep'
  <2>1. w \in SweepType /\ \A t \in Sessions(sk) : t \in sweep.todo \/ sweep.queued => Pending(w, t)
    <3> HIDE DEF sk
    <3>1. w \in NextVisit(sweep.todo, sweep.queued, sk)
      BY <1>4 DEF sk
    <3> HIDE DEF w
    <3> QED BY <3>1, <1>1, NextVisitMisses
  <2>2. AccessTypes'
    BY <1>1, <1>4, <2>1 DEF AccessTypes
  <2>3. \A t \in Sockets : Reader(sock'[t])
    BY <1>2, <1>4 DEF SessionInv
  <2>4. ASSUME NEW t \in Sessions(sock') \ unswept'
        PROVE  Entitled(t)' \/ Pending(sweep', t) \/ LeftAlone(t)
    <3>1. t \in Sockets /\ sock'[t].at = "open"
      BY DEF Sessions
    <3>2. CASE t = s
      BY <1>4, <3>2
    <3>3. CASE t # s
      <4>1. sock'[t] = sock[t] /\ t \notin unswept
        BY <1>2, <1>4, <3>1, <3>3
      <4>2. Pending(sweep, t) => t \in sweep.todo \/ sweep.queued
        BY <1>0, <3>3 DEF Pending
      <4> QED BY <2>1, <4>1, <4>2 DEF LeftAlone
    <3> QED BY <3>2, <3>3
  <2> QED BY <1>4, <2>2, <2>3, <2>4, SessionsSettle
<1>5. PICK answer \in Answers :
        \/ /\ answer = "fetch"
           /\ sweep' \in NextVisit(sweep.todo, sweep.queued, sock)
           /\ unswept' = unswept \cup ({s} \ {NoSocket})
           /\ UNCHANGED <<sock, grantVars>>
        \/ /\ answer = "scope"
           /\ sock' = ended /\ sweep' \in NextVisit(sweep.todo, sweep.queued, ended)
           /\ unswept' = unswept \ {s}
           /\ UNCHANGED grantVars
        \/ /\ answer = "found" /\ Readable
           /\ sock' = IF s = NoSocket THEN sock ELSE Judged(sock, s, Level(sock[s].actor, cache))
           /\ sweep' \in NextVisit(sweep.todo, sweep.queued, sock')
           /\ unswept' = unswept \ {s}
           /\ UNCHANGED grantVars
        \/ /\ answer = "found" /\ ~Readable
           /\ sweep' = [sweep EXCEPT !.at = "reading"]
           /\ UNCHANGED <<sock, unswept, cache, expired>>
  BY <1>0 DEF SweepNote, vaultVars
<1>6. AccessTypes /\ unswept \subseteq Sockets /\ sock \in [Sockets -> SockType]
  BY DEF AccessTypes
<1>7. CASE /\ sweep' \in NextVisit(sweep.todo, sweep.queued, sock)
           /\ unswept' = unswept \cup ({s} \ {NoSocket})
           /\ UNCHANGED <<sock, grantVars>>
  <2>1. s \notin Sessions(sock') \ unswept'
    BY <1>3, <1>7 DEF Sessions
  <2>2. UNCHANGED <<cache, expired, sock>>
    BY <1>7 DEF grantVars, vaultVars
  <2>3. unswept' \subseteq Sockets /\ \A t \in Sockets \ {s} : t \in unswept => t \in unswept'
    BY <1>1, <1>6, <1>7
  <2> QED BY <1>4, <1>6, <1>7, <2>1, <2>2, <2>3
<1>8. CASE /\ sock' = ended /\ sweep' \in NextVisit(sweep.todo, sweep.queued, ended)
           /\ unswept' = unswept \ {s}
           /\ UNCHANGED grantVars
  <2>1. /\ sock' \in [Sockets -> SockType] /\ (s \in Sockets => sock'[s] = Free)
        /\ \A t \in Sockets : sock'[t] = sock[t] \/ sock'[t] = Free
    BY <1>1, <1>2, <1>3, <1>6, <1>8
  <2>2. s \notin Sessions(sock') \ unswept'
    BY <1>2, <2>1 DEF Sessions
  <2>3. UNCHANGED <<cache, expired>>
    BY <1>8 DEF grantVars, vaultVars
  <2>4. sweep' \in NextVisit(sweep.todo, sweep.queued, sock')
    BY <1>8
  <2>5. unswept' \subseteq Sockets /\ \A t \in Sockets \ {s} : t \in unswept => t \in unswept'
    BY <1>6, <1>8
  <2> QED BY <1>4, <2>1, <2>2, <2>3, <2>4, <2>5
<1>9. CASE /\ sock' = IF s = NoSocket THEN sock ELSE Judged(sock, s, Level(sock[s].actor, cache))
           /\ sweep' \in NextVisit(sweep.todo, sweep.queued, sock')
           /\ unswept' = unswept \ {s}
           /\ UNCHANGED grantVars
  <2>1. UNCHANGED <<cache, expired>>
    BY <1>9 DEF grantVars, vaultVars
  <2>2. /\ sock' \in [Sockets -> SockType]
        /\ \A t \in Sockets : sock'[t] = sock[t] \/ sock'[t] = Free
        /\ s \in Sessions(sock') => Rights(Level(sock[s].actor, cache)) = Rights(sock[s].level)
    <3>1. CASE s = NoSocket
      BY <1>3, <1>6, <1>9, <3>1 DEF Sessions
    <3>2. CASE s # NoSocket
      <4> DEFINE l == Level(sock[s].actor, cache)
      <4>1. sock' = Judged(sock, s, l)
        BY <1>9, <3>2
      <4> HIDE DEF l
      <4>2. /\ Judged(sock, s, l) \in [Sockets -> SockType]
            /\ \A t \in Sockets : Judged(sock, s, l)[t] = sock[t] \/ Judged(sock, s, l)[t] = Free
            /\ s \in Sessions(Judged(sock, s, l)) => Rights(l) = Rights(sock[s].level)
        BY <1>1, <1>6, JudgedKeeps
      <4> QED BY <4>1, <4>2 DEF l
    <3> QED BY <3>1, <3>2
  <2>3. s \in Sessions(sock') \ unswept' => Entitled(s)'
    <3> SUFFICES ASSUME s \in Sessions(sock') PROVE Entitled(s)'
      OBVIOUS
    <3>1. s \in Sockets /\ sock'[s] = sock[s]
      BY <1>2, <2>2 DEF Sessions
    <3>2. Entitled(s)
      BY <2>2 DEF Entitled
    <3> QED BY <2>1, <3>1, <3>2, SameRights
  <2>4. unswept' \subseteq Sockets /\ \A t \in Sockets \ {s} : t \in unswept => t \in unswept'
    BY <1>6, <1>9
  <2> QED BY <1>4, <1>9, <2>1, <2>2, <2>3, <2>4
<1>10. CASE /\ sweep' = [sweep EXCEPT !.at = "reading"]
            /\ UNCHANGED <<sock, unswept, cache, expired>>
  <2>1. sweep' \in SweepType /\ \A t : Pending(sweep, t) => Pending(sweep', t)
    BY <1>1, <1>10 DEF AccessTypes, SweepType, Pending
  <2>2. AccessTypes'
    BY <1>1, <1>10, <2>1 DEF AccessTypes
  <2>3. \A t \in Sockets : Reader(sock'[t])
    BY <1>10 DEF SessionInv
  <2>4. \A t \in Sessions(sock') \ unswept' : Pending(sweep', t) \/ LeftAlone(t)
    BY <1>10, <2>1 DEF LeftAlone
  <2> QED BY <1>10, <2>2, <2>3, <2>4, SessionsSettle
<1> QED BY <1>5, <1>7, <1>8, <1>9, <1>10

LEMMA RevalidateEndsSettles ==
  ASSUME GrantTypeOK, GrantTypeOK', AccessTypes, SessionInv, RevalidateEnds
  PROVE  AccessTypes' /\ SessionInv'
<1>0. PICK s \in Sockets \cup {NoSocket} : s = sweep.cur
  BY DEF AccessTypes, SweepType
<1> DEFINE found   == query.at = "answered"
           c       == IF found THEN cache' ELSE [g \in Grants |-> "none"]
           entered == [t \in Sockets |-> IF sock[t].at = "reading" THEN Admitted(t, c) ELSE sock[t]]
           level   == Level(sock[s].actor, c)
           judged  == IF s = NoSocket THEN entered ELSE Judged(entered, s, level)
<1>1. /\ tickets' = tickets /\ (Revalidated \/ RevalidationFails)
      /\ IF sweep.at = "reading"
            THEN /\ sock' = judged
                 /\ sweep' \in NextVisit(sweep.todo, sweep.queued \/ found, judged)
                 /\ unswept' = unswept \ {s}
            ELSE /\ sock' = entered
                 /\ sweep' \in (IF found THEN Notify(sock) ELSE {sweep})
                 /\ unswept' = unswept
  BY <1>0 DEF RevalidateEnds
<1>2. c \in Cache
  BY DEF GrantTypeOK, Cache
<1>3. ~found => UNCHANGED <<cache, expired>> /\ c = [g \in Grants |-> "none"]
  BY <1>1 DEF Revalidated, RevalidationFails, vaultVars
<1>4. found \in BOOLEAN /\ (found \/ ~found)
  OBVIOUS
<1> HIDE DEF found, c
<1>5. NoSocket \notin Sockets
  BY AccessAssumption
<1>6. /\ sweep.todo \in SUBSET Sockets /\ sweep.queued \in BOOLEAN
      /\ unswept \subseteq Sockets /\ sock \in [Sockets -> SockType] /\ sweep \in SweepType
  BY DEF AccessTypes, SweepType
<1>7. /\ entered \in [Sockets -> SockType]
      /\ \A t \in Sockets : Reader(entered[t]) /\ (entered[t] = sock[t] \/ entered[t].at # "open")
  BY <1>2, <1>6, AdmittedTypes DEF SessionInv
<1> HIDE DEF entered
<1>8. CASE sweep.at # "reading"
  <2>1. /\ sock' = entered /\ unswept' = unswept
        /\ sweep' \in (IF found THEN Notify(sock) ELSE {sweep})
    BY <1>1, <1>8
  <2>2. Sessions(sock') \subseteq Sessions(sock)
    BY <1>7, <2>1 DEF Sessions
  <2>3. CASE found
    BY <1>1, <1>7, <2>1, <2>2, <2>3, ListenersSweep
  <2>4. CASE ~found
    <3>1. sweep' = sweep
      BY <2>1, <2>4
    <3>2. AccessTypes'
      BY <1>1, <1>6, <1>7, <2>1, <3>1 DEF AccessTypes
    <3>3. \A t \in Sessions(sock') \ unswept' : Pending(sweep', t) \/ LeftAlone(t)
      BY <1>7, <2>1, <3>1 DEF LeftAlone, Sessions
    <3> QED BY <1>3, <1>7, <2>1, <2>4, <3>2, <3>3, SessionsSettle
  <2> QED BY <2>3, <2>4
<1>9. CASE sweep.at = "reading"
  <2>1. /\ sock' = judged /\ unswept' = unswept \ {s}
        /\ sweep' \in NextVisit(sweep.todo, sweep.queued \/ found, judged)
    BY <1>1, <1>9
  <2>2. /\ judged \in [Sockets -> SockType]
        /\ \A t \in Sockets : judged[t] = entered[t] \/ judged[t] = Free
        /\ s \in Sessions(judged) => Rights(level) = Rights(sock[s].level)
    <3>1. CASE s = NoSocket
      BY <1>5, <1>7, <3>1 DEF Sessions
    <3>2. CASE s # NoSocket
      <4> HIDE DEF level
      <4>1. /\ Judged(entered, s, level) \in [Sockets -> SockType]
            /\ \A t \in Sockets :
                 Judged(entered, s, level)[t] = entered[t] \/ Judged(entered, s, level)[t] = Free
            /\ s \in Sessions(Judged(entered, s, level)) => Rights(level) = Rights(sock[s].level)
        BY <1>6, <1>7, JudgedKeeps
      <4> QED BY <3>2, <4>1
    <3> QED BY <3>1, <3>2
  <2> HIDE DEF judged
  <2>3. Free.at = "free" /\ Reader(Free)
    BY DEF Free, Reader
  <2>4. /\ sweep' \in SweepType
        /\ \A t \in Sessions(judged) : t \in sweep.todo \/ sweep.queued \/ found => Pending(sweep', t)
    <3> DEFINE q == sweep.queued \/ found
               w == sweep'
    <3>1. q \in BOOLEAN
      OBVIOUS
    <3>2. w \in NextVisit(sweep.todo, q, judged)
      BY <2>1
    <3>3. q <=> sweep.queued \/ found
      OBVIOUS
    <3> HIDE DEF q, w
    <3>4. w \in SweepType /\ \A t \in Sessions(judged) : t \in sweep.todo \/ q => Pending(w, t)
      BY <1>6, <3>1, <3>2, NextVisitMisses
    <3> QED BY <3>3, <3>4 DEF w
  <2>5. AccessTypes'
    BY <1>1, <1>6, <2>1, <2>2, <2>4 DEF AccessTypes
  <2>6. \A t \in Sockets : Reader(sock'[t])
    BY <1>7, <2>1, <2>2, <2>3
  <2>7. CASE found
    <3>1. \A t \in Sessions(sock') : Pending(sweep', t)
      BY <2>1, <2>4, <2>7
    <3> QED BY <2>5, <2>6, <3>1 DEF SessionInv
  <2>8. CASE ~found
    <3>1. ASSUME NEW t \in Sessions(sock') \ unswept'
          PROVE  Pending(sweep', t) \/ LeftAlone(t)
      <4>1. /\ t \in Sockets /\ judged[t].at = "open" /\ judged[t].actor \notin Operators
            /\ t \in Sessions(judged)
        BY <2>1 DEF Sessions
      <4>2. judged[t] = entered[t] /\ entered[t] = sock[t]
        BY <1>7, <2>2, <2>3, <4>1
      <4>3. t # s
        <5> SUFFICES ASSUME t = s PROVE FALSE
          OBVIOUS
        <5>1. Rights(level) = Rights(sock[s].level)
          BY <2>2, <4>1
        <5>2. level = "none"
          BY <1>3, <2>8, <4>1, <4>2, NothingGrantsNothing DEF Level
        <5>3. can(sock[s].level, "read")
          BY <4>1, <4>2 DEF SessionInv, Reader
        <5> HIDE DEF level
        <5> QED BY <5>1, <5>2, <5>3 DEF Rights, can
      <4>4. t \notin unswept /\ sock'[t] = sock[t]
        BY <2>1, <4>2, <4>3
      <4>5. Pending(sweep, t) => t \in sweep.todo \/ sweep.queued
        BY <1>0, <4>3 DEF Pending
      <4> QED BY <2>4, <4>1, <4>4, <4>5 DEF LeftAlone
    <3> QED BY <1>3, <2>5, <2>6, <2>8, <3>1, SessionsSettle
  <2> QED BY <1>4, <2>7, <2>8
<1> QED BY <1>8, <1>9

LEMMA SocketStepSettles ==
  ASSUME GrantTypeOK, AccessTypes, SessionInv, NEW s \in Sockets,
         (\E a \in Actors : OnAuthenticate(s, a)) \/ AuthNote(s) \/ Connected(s) \/ OnDisconnect(s)
  PROVE  AccessTypes' /\ SessionInv'
<1>0. /\ tickets \subseteq Actors /\ unswept \subseteq Sockets /\ sweep \in SweepType
      /\ sock \in [Sockets -> SockType] /\ sock[s] \in SockType /\ Reader(sock[s])
  BY DEF AccessTypes, SessionInv
<1>1. Free \in SockType /\ Free.at = "free" /\ Reader(Free)
  BY DEF Free, SockType, AnyLevel, Reader
<1>2. CASE \E a \in Actors : OnAuthenticate(s, a)
  <2>1. PICK a \in Actors : OnAuthenticate(s, a)
    BY <1>2
  <2> DEFINE k == [at |-> "noting", actor |-> a, level |-> "none"]
  <2>2. k \in SockType /\ k.at = "noting" /\ Reader(k)
    BY DEF SockType, AnyLevel, Reader
  <2>3. /\ sock' = [sock EXCEPT ![s] = k] /\ tickets' \subseteq Actors
        /\ UNCHANGED <<cache, expired, sweep, unswept>>
    BY <2>1, <1>0 DEF OnAuthenticate, grantVars, vaultVars
  <2> HIDE DEF k
  <2> QED BY <1>0, <2>2, <2>3, OneSocketMoves
<1>3. CASE AuthNote(s)
  <2>1. /\ tickets' = tickets /\ UNCHANGED <<sweep, unswept, cache, expired>>
        /\ \/ sock' = [sock EXCEPT ![s] = Free]
           \/ sock' = [sock EXCEPT ![s] = Admitted(s, cache)]
           \/ sock[s].at = "noting" /\ sock' = [sock EXCEPT ![s].at = "reading"]
    BY <1>3 DEF AuthNote, grantVars, vaultVars
  <2>2. CASE sock' = [sock EXCEPT ![s] = Free]
    BY <1>0, <1>1, <2>1, <2>2, OneSocketMoves
  <2>3. CASE sock' = [sock EXCEPT ![s] = Admitted(s, cache)]
    <3> DEFINE k == Admitted(s, cache)
    <3>1. k \in SockType /\ Reader(k) /\ k.at # "open" /\ sock' = [sock EXCEPT ![s] = k]
      BY <2>3, AdmittedTypes DEF GrantTypeOK
    <3>2. PICK j \in SockType : j = k
      BY <3>1
    <3> QED BY <1>0, <2>1, <3>1, <3>2, OneSocketMoves
  <2>4. CASE sock[s].at = "noting" /\ sock' = [sock EXCEPT ![s].at = "reading"]
    <3> DEFINE k == [sock[s] EXCEPT !.at = "reading"]
    <3>1. k \in SockType /\ k.at = "reading" /\ Reader(k)
      BY <1>0 DEF SockType, Reader
    <3>2. sock' = [sock EXCEPT ![s] = k]
      BY <2>4
    <3>3. PICK j \in SockType : j = k
      BY <3>1
    <3> QED BY <1>0, <2>1, <3>1, <3>2, <3>3, OneSocketMoves
  <2> QED BY <2>1, <2>2, <2>3, <2>4
<1>4. CASE Connected(s)
  <2> DEFINE k == [sock[s] EXCEPT !.at = "open"]
  <2>1. k \in SockType /\ k.level = sock[s].level /\ k.actor = sock[s].actor
    BY <1>0 DEF SockType
  <2>2. Reader(k)
    BY <1>0, <1>4, <2>1 DEF Connected, Reader
  <2>3. /\ sock' = [sock EXCEPT ![s] = k] /\ tickets' = tickets /\ UNCHANGED <<cache, expired, sweep>>
        /\ unswept' = IF Entitled(s) THEN unswept ELSE unswept \cup {s}
    BY <1>4 DEF Connected, grantVars, vaultVars, Entitled
  <2>4. sock'[s] = k
    BY <1>0, <2>3
  <2>5. Entitled(s) => Entitled(s)'
    BY <2>1, <2>3, <2>4 DEF Entitled, Level, levelFor
  <2>6. unswept' \subseteq Sockets /\ unswept \subseteq unswept' /\ (~Entitled(s) => s \in unswept')
    BY <1>0, <2>3
  <2>7. PICK j \in SockType : j = k
    BY <2>1
  <2> HIDE DEF k
  <2> QED BY <1>0, <2>2, <2>3, <2>5, <2>6, <2>7, OneSocketMoves
<1>5. CASE OnDisconnect(s)
  <2>1. /\ sock' = [sock EXCEPT ![s] = Free] /\ UNCHANGED <<cache, expired, tickets>>
        /\ sweep' = [sweep EXCEPT !.todo = @ \ {s}, !.cur = IF @ = s THEN NoSocket ELSE @]
        /\ unswept' = unswept \ {s}
    BY <1>5 DEF OnDisconnect, grantVars, vaultVars
  <2>2. sweep' \in SweepType /\ \A t \in Sockets \ {s} : Pending(sweep, t) => Pending(sweep', t)
    BY <1>0, <2>1 DEF SweepType, Pending
  <2>3. unswept' \subseteq Sockets /\ \A t \in Sockets \ {s} : t \in unswept => t \in unswept'
    BY <1>0, <2>1
  <2> QED BY <1>0, <1>1, <2>1, <2>2, <2>3, OneSocketMoves
<1> QED BY <1>2, <1>3, <1>4, <1>5

LEMMA SessionInvKept ==
  ASSUME GrantTypeOK, GrantTypeOK', AccessTypes, SessionInv, Next \/ UNCHANGED vars
  PROVE  AccessTypes' /\ SessionInv'
<1>0. tickets \subseteq Actors /\ sock \in [Sockets -> SockType]
  BY DEF AccessTypes
<1>1. CASE Deliver \/ LocalWrite
  <2>1. sweep' \in Notify(sock) /\ UNCHANGED <<tickets, sock, unswept>>
    BY <1>1 DEF Deliver, LocalWrite, Notified
  <2> QED BY <2>1, <1>0, ListenersSweep DEF SessionInv
<1>2. CASE StoreQuiet
  <2>1. UNCHANGED <<cache, expired>>
    BY <1>2, QuietChangesNoCache DEF StoreQuiet
  <2> QED BY <1>0, <1>2, <2>1, AccessStepsAside DEF StoreQuiet, accessVars
<1>3. CASE RevalidateEnds
  BY <1>3, RevalidateEndsSettles
<1>4. ASSUME NEW g \in Grants, GrantExpires(g) PROVE AccessTypes' /\ SessionInv'
  <2>1. /\ UNCHANGED <<cache, tickets, sock, sweep>>
        /\ unswept' = unswept \cup
              {s \in Sessions(sock) : Rights(levelFor(SubjectsOf[sock[s].actor], cache)')
                                        # Rights(levelFor(SubjectsOf[sock[s].actor], cache))}
    BY <1>4 DEF GrantExpires, Expire
  <2>2. AccessTypes'
    BY <2>1 DEF AccessTypes, Sessions
  <2>3. ASSUME NEW s \in Sessions(sock') \ unswept'
        PROVE  Entitled(s)' \/ Pending(sweep', s)
    <3>1. s \in Sessions(sock) \ unswept /\ sock[s].actor \notin Operators
      BY <2>1 DEF Sessions
    <3>2. Rights(levelFor(SubjectsOf[sock[s].actor], cache)') = Rights(levelFor(SubjectsOf[sock[s].actor], cache))
      BY <2>1, <3>1
    <3>3. CASE Entitled(s)
      <4>1. Rights(sock[s].level) = Rights(levelFor(SubjectsOf[sock[s].actor], cache))
        BY <3>1, <3>3 DEF Entitled, Level
      <4>2. Rights(sock[s].level) = Rights(levelFor(SubjectsOf[sock[s].actor], cache)')
        BY <3>2, <4>1
      <4> QED BY <2>1, <3>1, <4>2 DEF Entitled, Level
    <3>4. CASE Pending(sweep, s)
      BY <2>1, <3>4
    <3> QED BY <3>1, <3>3, <3>4 DEF SessionInv
  <2>4. \A s \in Sockets : Reader(sock'[s])
    BY <2>1 DEF SessionInv
  <2> QED BY <2>2, <2>3, <2>4 DEF SessionInv
<1>5. ASSUME NEW g \in Grants, ShareDeleted(g) PROVE AccessTypes' /\ SessionInv'
  <2>1. UNCHANGED <<cache, expired>>
    BY <1>5, QuietChangesNoCache DEF ShareDeleted
  <2> QED BY <1>0, <1>5, <2>1, AccessStepsAside DEF ShareDeleted, accessVars
<1>6. CASE LinkSteps
  BY <1>0, <1>6, AccessStepsAside DEF LinkSteps, accessVars, grantVars, vaultVars
<1>7. ASSUME NEW l \in Links, Share(l) PROVE AccessTypes' /\ SessionInv'
  <2>1. ShareOf[l] \in Grants
    BY AccessAssumption
  <2>2. UNCHANGED <<cache, expired>>
    BY <1>7, <2>1, QuietChangesNoCache DEF Share
  <2> QED BY <1>0, <1>7, <2>2, AccessStepsAside DEF Share, accessVars
<1>8. ASSUME NEW a \in Actors, MintTicket(a) \/ TicketExpires(a) PROVE AccessTypes' /\ SessionInv'
  <2>1. UNCHANGED <<cache, expired, sock, sweep, unswept>> /\ tickets' \subseteq Actors
    BY <1>0, <1>8 DEF MintTicket, TicketExpires, grantVars, vaultVars
  <2> QED BY <2>1, AccessStepsAside
<1>9. ASSUME NEW s \in Sockets,
             (\E a \in Actors : OnAuthenticate(s, a)) \/ AuthNote(s) \/ Connected(s) \/ OnDisconnect(s)
      PROVE  AccessTypes' /\ SessionInv'
  BY <1>9, SocketStepSettles
<1>10. CASE SweepNote
  BY <1>10, SweepNoteSettles
<1>11. CASE UNCHANGED vars
  BY <1>0, <1>11, AccessStepsAside DEF vars, accessVars, grantVars, vaultVars
<1> QED BY <1>1, <1>2, <1>3, <1>4, <1>5, <1>6, <1>7, <1>8, <1>9, <1>10, <1>11 DEF Next

LEMMA AccessInvariance == Spec => [](GrantInv /\ LinkTypeOK /\ AccessTypes /\ SessionInv)
<1> DEFINE Inv == LinkTypeOK /\ AccessTypes /\ SessionInv
<1>1. Init => Inv
  <2> SUFFICES ASSUME Init PROVE Inv
    OBVIOUS
  <2>1. LinkTypeOK
    BY DEF Init, LinkInit, LinkTypeOK
  <2>2. Free \in SockType /\ Free.at = "free" /\ Resting \in SweepType
    BY DEF Free, SockType, AnyLevel, Resting, SweepType
  <2>3. \A s \in Sockets : sock[s] = Free
    BY DEF Init
  <2> QED BY <2>1, <2>2, <2>3 DEF Init, AccessTypes, SessionInv, Sessions, Reader
<1>2. GrantInv /\ GrantInv' /\ Inv /\ [Next]_vars => Inv'
  <2> SUFFICES ASSUME GrantInv, GrantInv', Inv, Next \/ UNCHANGED vars PROVE Inv'
    OBVIOUS
  <2>1. LinkTypeOK'
    BY LinkTypesKept
  <2>2. AccessTypes' /\ SessionInv'
    BY SessionInvKept DEF GrantInv
  <2> QED BY <2>1, <2>2
<1> QED BY <1>1, <1>2, GrantInvariance, PTL DEF Spec

(***************************************************************************)
(* Every variable keeps its range; in particular what a verdict leaves in  *)
(* a session is a level, and a sweep holds sockets only.                   *)
(***************************************************************************)
THEOREM AccessTypesHold == Spec => []TypeOK
<1>1. GrantInv /\ LinkTypeOK /\ AccessTypes => TypeOK
  BY DEF GrantInv, AccessTypes, SockType, SweepType, AnyLevel, TypeOK
<1> QED BY <1>1, AccessInvariance, PTL

(***************************************************************************)
(* When no sweep is under way, every session of the audience has exactly   *)
(* the rights that the cached grants give its actor, for any number of     *)
(* sessions, however changes, sweeps, verdicts and failures overlap; but   *)
(* for those of which no sweep was told.                                   *)
(***************************************************************************)
THEOREM SweepsSettleSessions == Spec => []SettledSessionsAreEntitled
<1>1. SessionInv => SettledSessionsAreEntitled
  BY DEF SessionInv, SettledSessionsAreEntitled, Entitled, Pending
<1> QED BY <1>1, AccessInvariance, PTL
=============================================================================
