------------------------------ MODULE GrantStore ------------------------------
(***************************************************************************)
(* The grants of one surface: notes of the vault, and the cache that       *)
(* enforcement reads, of packages/surface-server/src/authz.                *)
(*                                                                         *)
(* A grant note is its row: the level it grants to its one subject, or     *)
(* something that cannot be parsed.  A live stream feeds the cache; while  *)
(* it is down a read rests on a query, which is reused for a while.  One   *)
(* action is one stretch between two awaits.  The module says which        *)
(* actions notify the change listeners; it is for DocsAccess to compose    *)
(* these with what its listener does.                                      *)
(***************************************************************************)
EXTENDS Naturals, Sequences, FiniteSets

CONSTANTS
  Grants,       \* ids of grant notes
  Subjects,     \* composed subject keys: "public", cap:<id>, subject:<id>
  SubjectOf,    \* grant -> the subject it is for
  Granted,      \* the levels that are granted
  StoreFaults,  \* subset of {"query", "create", "delete"}: requests that may fail
  MaxRewrites,  \* bound: changes of grant notes by other agents
  MaxChan,      \* bound: undelivered events when somebody else writes
  MaxDrops      \* bound: losses of the stream

LEVELS == <<"view", "comment", "suggest", "edit">>
Levels == {LEVELS[i] : i \in DOMAIN LEVELS}

ASSUME GrantsAssumption ==
  /\ SubjectOf \in [Grants -> Subjects] /\ Granted \subseteq Levels
  /\ StoreFaults \subseteq {"query", "create", "delete"}
  /\ MaxRewrites \in Nat /\ MaxChan \in Nat /\ MaxDrops \in Nat

VARIABLES
  \* the vault
  acl,         \* grant note -> its row
  expired,     \* grants whose expires_at has passed
  rewrites,
  \* the stream
  conn,        \* "down", "open", "lost" without notice, or "closed"
  chan,        \* events on the wire, in order
  drops,
  unheard,     \* history: rows whose events a loss not yet noticed keeps from the store
  \* the store
  cache,       \* #cache: grant -> level, or "none" where the map has no key
  live,        \* #live
  started,     \* start() has resolved: the surface serves
  recent,      \* #revalidatedAt is less than revalidateReuseMs ago
  query,       \* #revalidating, and the answer to its query
  creating,    \* grant -> the createGrant under way for it
  revoking,    \* grant -> the revokeGrant under way for it
  \* history
  outdated,    \* rows changed since the vault answered what degraded reads rest on, or
               \* told by the stream after that answer as they were before it
  displaced    \* rows on which an answer that came late has put the cache out of step

vaultVars   == <<acl, expired, rewrites>>
streamVars  == <<conn, chan, drops, unheard>>
requestVars == <<query, creating, revoking>>
grantVars   == <<vaultVars, streamVars, cache, live, started, recent, requestVars,
                 outdated, displaced>>

Rows  == Levels \cup {"malformed", "unborn", "deleted"}
Cache == [Grants -> Levels \cup {"none"}]

\* parseGrantNote: what cannot be parsed grants nothing.
parseGrantNote(row) == IF row \in Levels THEN row ELSE "none"
Parsed(rows) == [g \in Grants |-> parseGrantNote(rows[g])]

levelRank(level) ==
  IF level = "none" THEN 0 ELSE CHOOSE i \in DOMAIN LEVELS : LEVELS[i] = level

\* The first level at which the table allows an action; manage_* has none.
Reach == [read |-> "view", comment |-> "comment", suggest |-> "suggest", edit_content |-> "edit"]
levelAllows(level, action) == levelRank(level) >= levelRank(Reach[action])

\* The strongest unexpired grant that any of the subjects has in c.
levelFor(subjects, c) ==
  LET best == {c[g] : g \in {h \in Grants \ expired : SubjectOf[h] \in subjects}} \cup {"none"}
  IN CHOOSE l \in best : \A m \in best : levelRank(m) <= levelRank(l)

\* Requests without an answer yet, or any more.
Query(at)  == [at |-> at, rows |-> [g \in Grants |-> "unborn"]]
Create(at) == [at |-> at, level |-> "view"]

-----------------------------------------------------------------------------
(* The vault, its other agents, and its stream (external).                 *)

Event == [snapshot : BOOLEAN, about : SUBSET Grants, rows : [Grants -> Rows]]

Announce(g, row) ==
  /\ chan' = IF conn = "open"
              THEN Append(chan, [snapshot |-> FALSE, about |-> {g}, rows |-> [acl EXCEPT ![g] = row]])
              ELSE chan
  /\ unheard' = IF conn = "lost" THEN unheard \cup {g} ELSE unheard

SetRow(g, row) ==
  /\ acl' = [acl EXCEPT ![g] = row]
  /\ Announce(g, row)
  /\ outdated' = outdated \cup {g}

\* An agent or the operator's vault client writes, breaks or deletes a grant note.
Rewrite(g) ==
  /\ acl[g] # "deleted" /\ rewrites < MaxRewrites /\ Len(chan) < MaxChan
  /\ acl[g] = "unborn" => creating[g].at = "idle"
  /\ rewrites' = rewrites + 1
  /\ \E row \in (Granted \cup {"malformed"} \cup (IF acl[g] = "unborn" THEN {} ELSE {"deleted"}))
                  \ {acl[g]} :
       SetRow(g, row)
  /\ UNCHANGED <<expired, conn, drops, cache, live, started, recent, requestVars, displaced>>

Expire(g) ==
  /\ acl[g] \in Levels /\ g \notin expired
  /\ expired' = expired \cup {g}
  /\ UNCHANGED <<acl, rewrites, streamVars, cache, live, started, recent, requestVars,
                 outdated, displaced>>

\* Every (re)connection begins with the complete set of grant notes.
Connect ==
  /\ conn = "down"
  /\ conn' = "open"
  /\ chan' = <<[snapshot |-> TRUE, about |-> Grants, rows |-> acl]>>
  /\ UNCHANGED <<vaultVars, drops, unheard, cache, live, started, recent, requestVars,
                 outdated, displaced>>

\* The stream breaks off, or its socket wedges: nothing comes any more, and nobody has
\* told the store.
StreamLost ==
  /\ conn = "open" /\ drops < MaxDrops
  /\ conn' = "lost" /\ drops' = drops + 1 /\ chan' = <<>>
  /\ unheard' = UNION {chan[i].about : i \in DOMAIN chan}
  /\ UNCHANGED <<vaultVars, cache, live, started, recent, requestVars, outdated, displaced>>

\* The vault refuses the stream for good.
Refused ==
  /\ conn = "down" /\ drops < MaxDrops
  /\ conn' = "closed" /\ drops' = drops + 1 /\ live' = FALSE
  /\ UNCHANGED <<vaultVars, chan, unheard, cache, started, recent, requestVars, outdated,
                 displaced>>

ServeQuery ==
  /\ query.at = "sent"
  /\ query' = [at |-> "answered", rows |-> acl]
  /\ outdated' = {}
  /\ UNCHANGED <<vaultVars, streamVars, cache, live, started, recent, creating, revoking, displaced>>

FailQuery ==
  /\ query.at = "sent" /\ "query" \in StoreFaults
  /\ query' = Query("failed")
  /\ UNCHANGED <<vaultVars, streamVars, cache, live, started, recent, creating, revoking,
                 outdated, displaced>>

ServeCreate(g) ==
  /\ creating[g].at = "sent"
  /\ \/ /\ SetRow(g, creating[g].level)
        /\ \/ creating' = [creating EXCEPT ![g].at = "answered"]
           \/ "create" \in StoreFaults /\ creating' = [creating EXCEPT ![g] = Create("failed")]
     \/ /\ "create" \in StoreFaults
        /\ creating' = [creating EXCEPT ![g] = Create("failed")]
        /\ UNCHANGED <<acl, chan, unheard, outdated>>
  /\ UNCHANGED <<expired, rewrites, conn, drops, cache, live, started, recent, query, revoking,
                 displaced>>

\* Deleting a note that somebody else has deleted fails with 404.
ServeDelete(g) ==
  /\ revoking[g] = "sent"
  /\ \/ /\ acl[g] # "deleted"
        /\ SetRow(g, "deleted")
        /\ revoking' = [revoking EXCEPT ![g] = "answered"]
     \/ /\ acl[g] = "deleted" \/ "delete" \in StoreFaults
        /\ revoking' = [revoking EXCEPT ![g] = "failed"]
        /\ UNCHANGED <<acl, chan, unheard, outdated>>
  /\ UNCHANGED <<expired, rewrites, conn, drops, cache, live, started, recent, query, creating,
                 displaced>>

\* #revalidatedAt gets older than revalidateReuseMs.
WindowLapses ==
  /\ recent
  /\ recent' = FALSE
  /\ UNCHANGED <<vaultVars, streamVars, cache, live, started, requestVars, outdated, displaced>>

-----------------------------------------------------------------------------
(* The store.                                                              *)

Absorb(c, ev) == [g \in Grants |-> IF g \in ev.about THEN parseGrantNote(ev.rows[g]) ELSE c[g]]

\* What the events on the wire will make of a cache c.
Settled(c) ==
  [g \in Grants |->
    LET told == {i \in DOMAIN chan : g \in chan[i].about}
    IN IF told = {} THEN c[g]
       ELSE parseGrantNote(chan[CHOOSE i \in told : \A j \in told : j <= i].rows[g])]

\* What the vault's rows are no longer, of what an event tells about.
Stale(ev) == {g \in ev.about : ev.rows[g] # acl[g]}
OvertakenBy(ev) == outdated' = IF recent THEN outdated \cup Stale(ev) ELSE outdated

OutOfStep(c) == {g \in Grants : Settled(c)[g] # parseGrantNote(acl[g])}

(* The actions that call the change listeners. *)

OnSnapshot ==
  /\ chan # <<>> /\ Head(chan).snapshot
  /\ cache' = Parsed(Head(chan).rows)
  /\ chan' = Tail(chan)
  /\ live' = TRUE /\ started' = TRUE
  /\ displaced' = {} /\ OvertakenBy(Head(chan))
  /\ UNCHANGED <<vaultVars, conn, drops, unheard, recent, requestVars>>

\* Mutant: a grant note that is rewritten into something malformed stays cached.
KeepsMalformed(ev) ==
  [g \in Grants |-> IF g \in ev.about /\ ev.rows[g] # "malformed" THEN parseGrantNote(ev.rows[g])
                    ELSE cache[g]]

\* #absorb of an upsert, or the delete of a remove.
Absorbed(ev) == Absorb(cache, ev)

OnUpsertOrRemove ==
  /\ chan # <<>> /\ ~Head(chan).snapshot
  /\ cache' = Absorbed(Head(chan))
  /\ chan' = Tail(chan)
  /\ displaced' = displaced \ Head(chan).about /\ OvertakenBy(Head(chan))
  /\ UNCHANGED <<vaultVars, conn, drops, unheard, live, started, recent, requestVars>>

\* The query of #revalidate has come back: the whole cache is rebuilt from it,
\* whatever the stream has delivered meanwhile.
Revalidated ==
  /\ query.at = "answered"
  /\ cache' = Parsed(query.rows)
  /\ recent' = TRUE
  /\ query' = Query("idle")
  /\ displaced' = OutOfStep(Parsed(query.rows))
  /\ UNCHANGED <<vaultVars, streamVars, live, started, creating, revoking, outdated>>

\* The optimistic insert of createGrant, after its note has come back.
CreateGrantReturns(g) ==
  /\ creating[g].at = "answered"
  /\ cache' = [cache EXCEPT ![g] = creating[g].level]
  /\ creating' = [creating EXCEPT ![g] = Create("done")]
  /\ displaced' = displaced \cup (OutOfStep(cache') \cap {g})
  /\ outdated' = IF acl[g] # creating[g].level THEN outdated \cup {g} ELSE outdated
  /\ UNCHANGED <<vaultVars, streamVars, live, started, recent, query, revoking>>

\* revokeGrant deletes from the cache before it asks the vault.
RevokeGrant(g) ==
  /\ started /\ cache[g] # "none" /\ revoking[g] = "idle"
  /\ cache' = [cache EXCEPT ![g] = "none"]
  /\ revoking' = [revoking EXCEPT ![g] = "sent"]
  /\ UNCHANGED <<vaultVars, streamVars, live, started, recent, query, creating, outdated, displaced>>

(* The actions that do not. *)

\* The transport says "reconnecting" when it has slept off its backoff, after a token
\* refresh if the vault asked for one, or after a ping without a pong; or it says
\* "closed".
LossNoticed ==
  /\ conn = "lost"
  /\ \E c \in {"down", "closed"} : conn' = c
  /\ live' = FALSE /\ unheard' = {}
  /\ UNCHANGED <<vaultVars, chan, drops, cache, started, recent, requestVars, outdated, displaced>>

CreateGrant(g, level) ==
  /\ started /\ acl[g] = "unborn" /\ creating[g].at = "idle"
  /\ creating' = [creating EXCEPT ![g] = [at |-> "sent", level |-> level]]
  /\ UNCHANGED <<vaultVars, streamVars, cache, live, started, recent, query, revoking,
                 outdated, displaced>>

CreateGrantThrows(g) ==
  /\ creating[g].at = "failed"
  /\ creating' = [creating EXCEPT ![g] = Create("done")]
  /\ UNCHANGED <<vaultVars, streamVars, cache, live, started, recent, query, revoking,
                 outdated, displaced>>

\* revokeGrant returns, or throws; in the latter case the note may still be there.
RevokeGrantEnds(g) ==
  /\ revoking[g] \in {"answered", "failed"}
  /\ revoking' = [revoking EXCEPT ![g] = "idle"]
  /\ displaced' = displaced \cup (OutOfStep(cache) \cap {g})
  /\ UNCHANGED <<vaultVars, streamVars, cache, live, started, recent, query, creating, outdated>>

RevalidationFails ==
  /\ query.at = "failed"
  /\ query' = Query("idle")
  /\ UNCHANGED <<vaultVars, streamVars, cache, live, started, recent, creating, revoking,
                 outdated, displaced>>

\* Mutant: the reuse window opens when the query is sent.
ReadableEarly == live \/ recent \/ query.at # "idle"

\* grantsForSubjects reads the cache at once, or waits for #revalidate, which is
\* single-flight.
Readable == live \/ recent

Revalidate ==
  query' = IF query.at = "idle" THEN Query("sent") ELSE query

-----------------------------------------------------------------------------
GrantInit ==
  /\ acl = [g \in Grants |-> "unborn"] /\ expired = {} /\ rewrites = 0
  /\ conn = "down" /\ chan = <<>> /\ drops = 0 /\ unheard = {}
  /\ cache = [g \in Grants |-> "none"]
  /\ live = FALSE /\ started = FALSE /\ recent = FALSE
  /\ query = Query("idle")
  /\ creating = [g \in Grants |-> Create("idle")]
  /\ revoking = [g \in Grants |-> "idle"]
  /\ outdated = {} /\ displaced = {}

GrantTypeOK ==
  /\ acl \in [Grants -> Rows] /\ expired \subseteq Grants /\ rewrites \in Nat
  /\ conn \in {"down", "open", "lost", "closed"} /\ chan \in Seq(Event) /\ drops \in Nat
  /\ unheard \subseteq Grants
  /\ cache \in Cache /\ live \in BOOLEAN /\ started \in BOOLEAN /\ recent \in BOOLEAN
  /\ query \in [at : {"idle", "sent", "answered", "failed"}, rows : [Grants -> Rows]]
  /\ creating \in [Grants -> [at : {"idle", "sent", "answered", "failed", "done"}, level : Levels]]
  /\ revoking \in [Grants -> {"idle", "sent", "answered", "failed"}]
  /\ outdated \subseteq Grants /\ displaced \subseteq Grants

\* While the stream is up, the cache and the events on the wire make up exactly
\* the grants of the vault: nothing but a query or a createGrant whose answer
\* comes late, or a revokeGrant that fails, can put a row out of step, and the
\* next snapshot, or the next event on that row, undoes it.
LiveCacheIsExact ==
  conn = "open" => \A g \in OutOfStep(cache) : g \in displaced \/ revoking[g] # "idle"

\* A read that is served without the stream honours a grant that the vault does not
\* have, or no longer has at that level, only so: while the loss has yet to be noticed,
\* and reads still count as live, if the change, or its event, fell into the loss (or an
\* answer that came late had put the row out of step before); and from then on, if the
\* change is younger than the answer the read rests on, or if after that answer, and
\* before it was lost again, the stream told of that grant as it had been.
DegradedReadsAreRecent ==
  Readable =>
    \A g \in Grants : cache[g] \notin {"none", parseGrantNote(acl[g])} =>
      IF live THEN conn = "open" \/ g \in unheard \cup displaced ELSE g \in outdated
=============================================================================
