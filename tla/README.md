# Verification of parachute-surface

TLA+ models of the stateful parts of this repository, TLC configurations that check them on small
instances, and TLAPS proofs of what matters most for every instance. Everything is translated from the
sources; `PROJECT.json` names, for each definition, the lines it stands for.

    tlc -workers 2 -config VaultReconcilerSafety.cfg VaultReconciler   # check one run
    tlapm VaultReconcilerProofs.tla                                     # check the proofs

## 1. The system

A *surface* is a small web application over a *vault* (a store of Markdown notes with an HTTP API, a
live-query WebSocket, and versions that are `updatedAt` strings). A *hub* issues tokens. The repository
holds the host that installs and serves surfaces, the client library that runs in the browser (and in
backends), the server library for backends, and a few surfaces.

| Part | State it keeps | Operations | Talks to |
|---|---|---|---|
| Vault reconciler, `surface-server/src/reconciler` | per note a live Y.Doc with baseline version, dirty flag, generation, timer; an operation chain per note; a persisted snapshot | `start load unload flush stop`, stream events, timers | vault (`getNote`, `updateNote` with `if_updated_at`, `subscribe`), the surface's state store, Hocuspocus |
| Live-query transport, `surface-client/src/ws-transport.ts` | loop position, backoff exponent, refresh streak, the socket with its ping and pong timers, the snapshot being assembled | connect, authenticate, ping, re-authenticate, close | vault socket, `VaultClient` for tokens, handlers |
| Live list, `surface-client/src/live-list.ts` | a registry of shared subscriptions, their consumers, grace timers, delivery flags | `createLiveList`, `close`, fan-out of events | the transport; React hooks as consumers |
| Browser session, `oauth.ts`, `create-vault-surface.ts`, `token-storage.ts` | the stored token pair (shared by tabs), the refresh in flight (per tab), the cached client id | login, callback, refresh, logout | hub, Web Locks, local storage |
| Vault client, `vault-client.ts` | the current access token | requests with one retry after 401 | vault, browser session |
| Grant store and router, `surface-server/src/authz` | cache of grant notes, liveness, revalidation in flight | `start can createGrant revokeGrant`, stream events | vault stream and queries |
| Audience links, sessions, limits, `surface-server/src/auth` | SQLite rows of links and sessions, rate windows | mint, enter, resolve, revoke, check | router, grant store |
| Docs editor, `docs-editor/server` | tickets, live sessions, the re-authorisation sweep | share, ticket, authenticate, load, store, unload, sweep | Hocuspocus, grant store, reconciler |
| Backend supervisor, `surface-host/src/backend-supervisor.ts`, `backend-ws.ts` | a mount record per surface, failure window | mount, unmount, reload, sync, request | backend factories, credentials |
| Credentials of the host, `credential-store.ts`, `credential-renewal.ts` | one file per connection | deliver, renew, remove, resolve | hub, supervisor |
| Install and deploy, `admin-routes.ts`, `git-deploy.ts` | the directory `uis/`, the registry in memory | add, replace, push, delete, reload | file system, npm, GitHub, hub (client registration) |
| MCP bridge and channel note, `parachute-mcp/src` | per hub a client, the attempt in progress, the calls in flight; per command one MCP session | `connect withClient`; `channel-context read append init` | hub (MCP), the vaults behind it |
| Everything else: HTTP server, development mode, CLI, meeting surfaces, account client, schemas, rendering, admin SPA | little or none of its own | | |

All of it is JavaScript on one thread per process: what can interleave are the stretches between two
`await`s, timers, socket events and callbacks; between processes and browser tabs, everything. The hard
behaviours are therefore late answers, state read before an await and used after it, re-entrant
callbacks, lost acknowledgements and crashes, and liveness through failing networks.
`PROJECT.json` lists the hazards at the lines where they bite, with the properties that cover them.

What makes each part correct:

- reconciler: the vault never loses text it has not shown to the reconciler; no local edit is lost
  silently; every edit comes to rest; a document follows its note.
- transport: handlers see whole states in order; it neither spins nor gives up; closing closes.
- live list: one stream per query; it lives exactly as long as its consumers; callbacks are safe.
- session: tabs never replay a refresh token; nobody waits for ever.
- grants and collaboration: a revoked grant is never honoured by a store that is live, nor kept by a
  session after the sweep.
- supervisor: the backend that serves runs the installed code; a quarantine lasts until the operator's
  reload; what a mount opened is closed when it ends.
- credentials: a refused token is not used again, and one beyond renewal comes to the operator's notice.
- channel note: a turn lands once, first turns do not fail each other, a tail is complete.
- bridge: a retry repeats nothing that ran, and no failure outlives its call.
- install and deploy: what is routed is what is installed, and services.json is the last to know but does.

## 2. Modules

| Module | Models | Checked by | Proofs |
|---|---|---|---|
| `VaultReconciler` | reconciler, state store, vault and stream | `reconciler_*` | `VaultReconcilerProofs` |
| `CollabDocs` | the documents of the docs editor between engine, clients and reconciler; extends `VaultReconciler` | `collab_docs` | `VaultReconcilerProofs` |
| `SharedNote` | abstract: what a note that is edited together is promised; `CollabDocs` implements it | within `collab_docs` | `VaultReconcilerProofs` |
| `GrantStore` | the grant cache, its stream, degraded queries, optimistic writes | within `docs_access*` | `DocsAccessProofs` |
| `AudienceLinks` | capability and personal links, entry, sessions, expiry | within `docs_access*` | `DocsAccessProofs` |
| `DocsAccess`, `MCDocsAccess` | tickets, authentication, sessions, sweep, sharing; extends the two above | `docs_access*` | `DocsAccessProofs` |
| `LiveList`, `MCLiveList` | live list over an abstract transport | `live_list` | `LiveListProofs` |
| `TokenRefresh`, `MCTokenRefresh` | browser session of several tabs, hub | `token_refresh` | `TokenRefreshProofs` |
| `SubscribeTransport` | transport loop and socket, vault session | `subscribe` | `SubscribeTransportProofs` |
| `CredentialStore` | the vault credentials in custody, and which one a surface uses | within `surface_host` | |
| `BackendSupervisor` | mounts, their awaits, traffic, quarantine; extends `CredentialStore` | within `surface_host` | `SurfaceHostProofs` |
| `SurfaceHost`, `MCSurfaceHost` | the daemon: handlers, `uis/`, registry, services.json; extends `BackendSupervisor` | `surface_host` | `SurfaceHostProofs` |
| `CredentialCustody` | renewal sweeps against deliveries, removals and restarts | `custody` | `CredentialCustodyProofs` |
| `ChannelContext`, `MCChannelContext` | the channel note, its commands, the vaults | `channel` | `ParachuteMcpProofs` |
| `HubBridge`, `MCHubBridge` | the bridge's connection to one hub | `bridge` | `ParachuteMcpProofs` |

Each module is closed: the environment (vault, hub, network, user) is part of it as external actions.

### VaultReconciler

State: `docs` is `#docs`, `ops` the per-note chains of `#ops`, `run` the operation of each note that
awaits the network, `store` the surface state store, `live` is `#live`, `phase` follows `stop()`. The
vault is a history of contents per note (`commits`); a version is an index into it, and the code only
compares versions for equality. A content is the external commit a text was seeded from and the set of
local edits made on top; `torn` says that a seed hook threw half-way. One action is one synchronous
stretch between two awaits on the network: `Begin` starts the next operation of a chain,
`LoadReply`, `CheckReply`, `RevalidateReply`, `WriteReply`, `WinnerReply` are the continuations, and
what hangs on microtasks only (the end of an operation together with the continuation of `unload()`) is
part of the step. The loss of the stream and the status that tells of it are one step here, because until the
status comes a lost event is to the reconciler like one that is still on its way. `loose` is the Y.Doc the engine keeps after the reconciler has let go of it, so that
adoption of a populated document is modelled. `dropped` is a history variable that says why an edit
went away.

### LiveList

One client and one query: the registry is the entry under its key. The JavaScript call stack is a
variable: fan-outs are frames, and a consumer's code (`Join`, `Open`, `Close`) runs from the event loop or
inside the callback of the top frame, which is how re-entrancy is explored. A list is its revision number.
`Visit` is `sync()`/`error()` of one handle, `Unwind` the end of `deliver` with its finally clause,
`Closed` the terminal status. A subscription that fails before `subscribe()` returns is the third
alternative of `Open`.

### TokenRefresh

A token pair is the number of its issue; `family`, `superseded`, `dead` and `replayed` are the hub's
rotation and replay detection, `expired` and `revoked` why the vault answers 401. `flight` is
`refreshInFlight` with the position of the exchange, `lock` the Web Lock, `storage` the shared pair.
Requests (`caller`) pass through `Answered`, `Seeded` and the joined refresh; the one retry is final.
`dcr` is the cached client id of a surface no host serves, `seeded` the one a page's driver has, and
`client_id` what the hub bound each session to. `Login`, `Finds`, `Registers`, `Returns` and
`HandleCallback` are the way to the hub's pages and back, over `ensureClientId`; every departure unloads the
page, and `Reload` does at any moment, with or without an exchange on the wire that the hub may or may not
have served. `AnswerLost` is an exchange whose answer does not come, or breaks off, while its page lives: the
hub may have rotated the pair, the page knows only that the exchange failed. Two history variables say what
the code cannot help: `orphaned` are the families of which such an exchange was served or a page was left
with one under way, `raced` that two tabs registered at the same time.

### SubscribeTransport

`pc` is what the loop awaits; `socket` holds the closure variables of `runOneConnection` (`sent` is
`sessionToken`, `got` is `gotMessage`, `acc` is `snapshotAcc`, `ping` a tick that awaits its token, `pong`
the deadline). `wire` is the ordered stream of frames from the vault, `asked` the auth messages on their
way to it. `log` keeps every state the vault has had, and `view` is what the handlers have made of the
frames; the two together say what the consumer may see. `tries` counts connections since the last delay
or frame.

### GrantStore, AudienceLinks, DocsAccess

`acl` is what the vault says of each grant note (a level, `malformed`, deleted, not yet born), `chan` the
events on the stream, `cache` is `#cache`, `live` and `started` the flags the code keeps, `recent` the reuse
window of degraded reads, `query`, `creating` and `revoking` the requests under way. `conn` is the stream, and
what is lost (`StreamLost`) is not yet known to be lost: only `LossNoticed`, the status that the transport
reports after its backoff or a missed pong, clears `live`, and until then reads are served from the cache.
Three history variables say what the code cannot help: `displaced` are the rows that an answer out of step
with the stream has spoilt, `unheard` those whose events a loss keeps from the store that nobody has noticed
yet, `outdated` those changed since the query that degraded reads rest on, or told by the stream after that
answer as they were before it.

`AudienceLinks` keeps a link's state and its session; `resolveActor` says which subjects a session speaks
for. `DocsAccess` composes both with the docs editor: `tickets` (single use), `sock` (per socket what
`onAuthenticate` awaits, the actor, the level of its verdict), `sweep` (the session whose note is awaited,
the captured list, the re-queue bit). Every action of the store that calls the change listeners is joined
with `Notify`, which starts the sweep or sets the bit; `unswept` remembers the sessions that the sweep was
never told of (a change between verdict and registration, an expiry, a note that could not be read).

### CollabDocs, SharedNote

The engine (Hocuspocus) is external; `engine` says per note where its document is and how many clients are
connected or waiting. `ahead` counts the operations in front of the one a hook awaits in the reconciler's
chain; when it is 0 the hook goes on (`Opened`, `Stored`, `Unloaded`, `Readopted`), before any other step,
because only microtasks are in between. Everything else is `VaultReconciler`, with its own actions.
`SharedNote` knows a history of versions and a fate of each edit; `KeepsPromise` is its specification under
the refinement mapping `Promise`: the history is the vault's, an edit is pending while it is in a document
or in a snapshot marked dirty, and what is neither there nor in the vault is superseded, which `SharedNote`
allows only if the note has moved on since the edit was typed.

### SurfaceHost, BackendSupervisor, CredentialStore

One daemon in three layers. `CredentialStore` keeps `stored` (the credential files) and `binding`
(`config.credential_connections`); `resolveCredentialForSurface` is the code's precedence.

`BackendSupervisor` keeps every `MountRecord` ever made in `recs`, by generation, and the map in `mounts`,
so that a record that has left the map is still there for whoever awaits it. `call[t]` is the supervisor
call of the handler `t`: its `plan` is what is left of it (`sync` reconciles the names in the map, then
ensures the wanted ones; `reload` unmounts and mounts; the retry goes through the records it captured),
each step decided when its turn comes, on the list of surfaces captured when the call was made.
`Proceed` is everything up to the next await; `Resume`, `ImportResolves`, `FactoryReturns` and `MountFails`
are the continuations. `recordFailure` and `pruneFailures` are the crash-loop window, which grows with every
failure, quarantined or not, as the code's array does; a request counts
against the record it was sent to, a socket event against the record mounted when it fails.

In `SurfaceHost`, `disk` says of each name under `uis/` whether the directory is there, and which bundles
its meta.json and its server files are from; `registered` is `state.registeredUis`, `published` the map in
services.json. A handler is a task from the point where it
has authenticated and staged its bundle; `op[t]` says what it does when its await is over. An add writes
and awaits the hub (`AddWrites`), then rescans and mounts (`AddMounts`) or breaks off because the hub's
answer did (`AddBreaksOff`). Two history variables remember that: `halfway` until the surface is rescanned
by a handler of its own, `behind`, if the add replaced the surface, until such a handler also remounts it.
A delete awaits the
revocation, the unmount and the reconciliation; `Finish` is the stretch after the last await. Start-up is
`Init` with one task in the mount pass; `RegisterOauth` is also the self-heal of one surface. Surfaces have
distinct paths and share a vault; a bundle is a name, and `ServerOf` says which server block it has, so
that two builds may differ in code and agree in the block, which is all `sync()` compares.

### CredentialCustody

`record` are the files, `grant` the hub's current token per connection, `life` the age of a token against
the renewal horizon. A sweep holds the list it read at its start and one call; `Continue` is its loop up to
the next call. Answers come whenever they come, the store having moved on, or get lost after the hub has renewed
(`Failed`). `refused` remembers the tokens that the host saw refused. What the two liveness properties need of
the hub they ask for one connection at a time (`HubAnswersFor`), so that the calls for the others may fail for
ever.

### ChannelContext

A note is a sequence of characters, each with its owner (header or turn), its width in bytes and the byte at
which it ends; `Slice` cuts windows as the vault does. `proc` is a command with the call it awaits, `wire` the
calls no vault has served yet: a command that gives up leaves its call there, and exits as for a failed
transport or as for a failed tool (`TimedOut`; section 5). `excused` names the agents that were denied, those
that exited in the latter way, and those whose note somebody deleted.

### HubBridge

`client`, `connecting`, `made` and `open` are the clients of one `HubConnection`: in use, being made, ever
made, connected and not closed. `call` is a `withClient` with the client it runs on. Closing a client may
fail what is in flight on it. `excuse` names the calls that met a failure of the hub, or overlapped another.

## 3. Runs

| Run | Shows | Bounds | Distinct states |
|---|---|---|---|
| `reconciler_safety` | no writeback overwrites what it has not seen; clean means written | 1 note, 1 external edit, 2 local edits, a stream that drops once or closes, failing store, throwing hooks; no crash and no removal (the proofs have every scope, `reconciler_edits` the crash and the deletion) | 0.84 M |
| `reconciler_edits` | no edit is lost silently, work is scheduled, no way back | 1 note that may be deleted, failing fetches, lost acknowledgements, adoption, 1 crash, 2 local edits | 2.0 M |
| `collab_docs` | the document clients edit is tracked, every edit settles, `SharedNote` is implemented, abandoned documents are released | 1 document, 2 connections, 1 local and 1 external edit, failing fetches and writebacks, a stream that drops once | 41 k |
| `docs_access` | a live cache is exact, settled sessions have exactly their rights | 1 personal link, the operator, 2 sockets, 1 rewrite, 1 event on the wire | 1.0 M |
| `docs_access_degraded` | degraded reads are recent, who loses every grant loses the session | 1 capability link, 1 socket, failing queries, writes and note reads, a stream that is lost twice, noticed or not, or closes | 455 k |
| `live_list` | one stream, no tearing, no leak, safe callbacks | 3 consumers, 2 subscriptions, 1 list event each | 1.3 M |
| `token_refresh` | no replay, usable pair, nobody waits in vain | 2 tabs, 2 requests under way in one or both, a new browser or one that has logged in, 2 logins, 1 refused token, 1 session the hub ends, reloads and lost answers until one exchange has lost its answer or its page | 1.9 M |
| `subscribe` | whole views in order, catching up, no hot loop | snapshots of 2 chunks, 1 change, 2 faults, 3 tokens | 250 k |
| `surface_host` | routes follow the disk, no old module survives, services.json is current, quarantine comes in time and holds | 1 surface, 1 static and 2 backed bundles, 1 credential, the boot pass and 2 handlers, at most 2 at a time, 1 request and 1 socket event per backend, quarantine at 2 | 1.2 M |
| `custody` | a refused token rests, a doomed credential is noticed, a due one renewed whatever becomes of the others | 2 connections, 3 tokens, 2 sweeps at a time, any number of restarts | 254 k |
| `channel` | turns land once, first turns do not fail each other, tails are complete | 2 agents with 2 commands each, 2 vaults, 1 attachment, 1 deletion, refused and lost calls, `--tail 6` | 2.0 M |
| `bridge` | no call runs twice, no client is left open, a lone call succeeds | 4 calls, 4 clients, 2 lost sessions, 1 outage | 517 k |

All runs are expected to pass. The type invariant of the reconciler is a property of its run, that of the
live list is part of `StreamFollowsConsumers`; those of the other modules hold in the same
configurations (add them to the cfg's INVARIANTS to see it) and are left out of the runs because the
properties say more. Section 4 says which of them are proved.

Why the bounds are enough. *Reconciler*: every operation touches one note and notes share only the stream and
the phase, so one note reaches every interleaving of a note; two local edits are needed for an edit that lands
in flight, one external edit for a conflict, one crash for a recovery. `MaxOps` and `MaxChan` cap what waits
in a chain and on the wire *when one more is added*, so a second operation and a second event can still queue
behind the first. The proofs lift the safety results to all bounds. *Live list*: three consumers give a
fan-out with a peer that closes another and a third that joins; two subscriptions give a successor to a dying
one. *Tokens*: a replay needs two exchanges with one pair, so two tabs, or two requests of one tab, and one
refused token suffice; one lost answer is what spoils a session; a second login gives a second family, and
needs a client id that the first one registered or that both do at once. *Transport*: two chunks can be torn,
one change can be missed, two faults let a failure strike during the recovery from the first, three tokens
allow two refreshes. *Host*: one surface is what the handlers race for; the boot pass and one handler reach
each pair of stretches of a supervisor call and a handler, and a second handler acts on what the first one
left; `MaxInflight` and `CrashLoopMax` are the least that give a late answer after a quarantine and a second
failure in the window of an earlier one. Tasks and the two backed bundles are interchangeable, and the run
uses that symmetry. A first add that waits for the hub, a reload that mounts its surface meanwhile, and an add
that replaces the surface and breaks off take three handlers: when the first goes on it leaves the old backend
(this is what `behind` excuses). With `MaxOps = 3`, and `Busy = {}` to leave the traffic out,
`MCSurfaceHost.cfg` has 1.8 M states and the invariants hold as well. What two surfaces add (a `sync()` that
works on an old list, section 5) is covered by the proofs, which have any number of them. *Docs access*: two
sockets give a session that is swept while another registers or leaves; one link, whose grant changes level
twice, is enough because a verdict looks at one actor's grants only; the operator is the actor that is never
swept. The faults are in the second run, with one socket; its stream is lost twice because an event that is
older than a query's answer does harm only when the stream that brought it is lost again. *Collab*: two
connections give the one that leaves and the one that races its unload; `MaxOps` leaves room for the operation
of a hook behind a running one. *Custody*: two sweeps and two connections make a list go stale while its first
call is awaited; three tokens give each connection its credential and one of them a renewal, or one connection
a token that is superseded because an answer was lost and its successor's successor. *Channel*: widths of 1, 2
and 4 bytes against a tail of 6 put the window at every place within a character, a shift of 3 bytes included;
two commands each let a stray call meet the next one. *Bridge*: four calls let two pairs overlap around two
resets.

Deadlock checking is off in all runs: the bounds on edits, logins, faults, tokens and calls end every
behaviour, and a stopped reconciler or a closed subscription really is at rest.

Every property has a mutant: a plausible bug, defined next to the definition it replaces (`\* Mutant:`),
under which TLC finds the property violated.

### Fairness

`collab_docs`, `docs_access_degraded`, `subscribe` and `custody` assume some. Timers fire and promises settle
because the runtime sees to it (`WF` on continuations, ticks and deadlines). In the reconciler and the
collaboration the requests are strongly fair: a request that is made again and again is in the end answered,
which is what the retry loop relies on; nothing is assumed of a stream that drops, of clients, or of anybody
who edits. `TimerFires` and `Deliver` are strongly fair because `MaxOps`, which the code does not have, can
disable them for a moment. In `docs_access_degraded` a loss is noticed in the end (its timers see to it), the
stream reconnects unless it closes, queries and sweeps end; the sweep is strongly fair because the steps of a
grant store change are taken with it. In `custody` the interval starts sweeps, every call ends, and restarts
come to an end; its properties assume in addition that the hub, asked about *their* connection again and
again, answers, and that not all of its renewals get lost; time and the operator owe nothing. In the
transport, nothing is assumed of the network and of the consumer; faults are bounded, and a wedged socket is
left only by the missing pong. A liveness property is refuted only under such a fair specification.

## 4. Proofs

Eight modules hold proofs. What each of them proves holds for every value of the constants that satisfies
the assumptions of the modelled module; an assumption beyond those is a hypothesis of the theorem and named
below. Each states an inductive invariant, proves that the initial states have it and that every action
keeps it (one lemma per action or per group of alike actions), and draws the properties from it.

### The reconciler: `VaultReconcilerProofs`

For every set of notes, every bound and every set of faults:

- `TypeCorrect`: `TypeOK` is invariant. In particular every version that a document, a snapshot or a
  request names as its baseline exists.
- `LineageHolds`: the inductive invariant `Lineage` is invariant.
- `NeverBlind` and `CleanIsWritten`: `NoBlindOverwrite` and `CleanMeansWritten` are invariant, under
  `Traceable`: documents that the reconciler seeds itself, or, if documents are adopted, notes that stay in
  the working set and a store that works. The code trusts the populated document that a caller hands it: after
  a removal, or with a snapshot that could not be written, the caller's document has another baseline than
  the one it is registered with, and the statements would be false; `NoSilentLoss` is what is checked there.
- `NoWayBack`: `ReseedsGoForward`, an action property, with no hypothesis.
- `NoEditGoesSilently`: `NoSilentLoss` is invariant while the state store works (`~Fault("store")`): an
  `unload()` whose snapshot cannot be written gives up the edits that the document alone has.
- `WorkIsAhead`: `WorkIsScheduled` is invariant while the store and the hooks work: a seed hook that throws
  in the middle of a conflict ends its flush with a dirty document and no timer.

The argument for the first four. No property is inductive: an acknowledged write says nothing unless the
text on the wire, the document that waits for the answer, the snapshot a crash would fall back to and the
stray writes of dead processes are all known to descend from the version they claim as their baseline.
`Lineage` says that: `Sound(cs, c, v, dirty)` holds of a content `c` with baseline `v` if it extends `cs[v]`
and is equal to it when it is not dirty; `SoundRead` and `SoundWrite` tie the request in flight to its
document (a conflict means the baseline is behind; the answer of a winner fetch is ahead of it; the text on
the wire is the document's unless its generation has moved on); `SoundLoose` says that a Y.Doc the engine has
kept is what the snapshot says, so that to adopt it is to restore the snapshot. Beside `Lineage`, `Present`
says that where no note leaves the working set nobody is told that one has, in an event, an answer or a
queued removal, and so no snapshot is deleted. The lemmas `…Grows` show that a commit at
the end of a history disturbs none of this, and that the only commits are external ones and sound
writebacks; `StretchPreserves` reduces every step of the machine to what it leaves in `docs`, `store`, `run`
and `loose` for one note, and one lemma per building block (`SettleOK`, `AwaitOK`, `RegisterOK`, …) and per
action shows that it leaves sound things.

For the last three every stretch of an operation is one of seven `Kind`s (`Quiet`, `Written`, `Reseeded`,
`Torn`, `Waits`, `Registered`, `Removed`; `BeginKind` and `ReplyKind`), and every other step is `Distant`
(it leaves the note's cells alone), `Nearby` (it arms a timer or queues an operation), an edit, the end of
`stop()` or a crash; `StepCases` collects them, so that an invariant needs one argument per kind, not one per
action. `Places` says what the cells of a note may hold together: a writeback belongs to a flush, a load
begins on an empty slot, an acknowledgement is later than the baseline it will replace, a Y.Doc is loose
only when no document is tracked. `Backups` says where the edits of a snapshot and of a loose Y.Doc are
besides: in the document or the vault, and in the snapshot or the vault. `Works` says of each note what
`WorkIsScheduled` says, and that a clean document is stored as it is (`CleanAreStored`), which is what
`unload()` and `stop()` rely on when they skip the writeback.

For the collaboration (`CollabSpec`), for every set of notes, any number of connections and every bound, and
under every fault but a failing store, when documents are adopted (the hypothesis `Collaborative`, which
`collab_docs` instantiates):

- `CollabTypeCorrect`: the types, with those of the engine.
- `ServedAreAdopted`: `ServedDocsAreAdopted` is invariant.
- `PromiseIsKept`: `CollabSpec` implements `SharedNote` (`KeepsPromise`), where there is a note at all and
  none goes out of scope (`Faithful`; `CollabDocs` has no step that takes a note away).

The steps of `CollabDocs` that change the machine are steps of `VaultReconciler`, except that the engine
destroys a loose Y.Doc, so `IInv` and `Places` hold on. `EngineInv` adds what ties the two: besides the
operation that a hook awaits, which is at the place `ahead` of the chain, there are flushes and checks only
(`Chained`), and these never end the tracking of a document; and in each state of the engine the document is
tracked or not, and has a snapshot or not (`EngineHolds`). The latter is why a re-adoption cannot fail
silently: an `unload()` while the store works leaves an entry, so the load that follows registers the
document at once, without asking the vault (`ReadoptRegisters`). `KindLeaves` says it of every `Kind`.

The refinement is a simulation: every step of `CollabSpec` is a step of `SharedNote` under the mapping
`Promise`, or leaves its variables alone (`PromiseKept`; one lemma for each kind of step, `StretchPromised`,
`PutPromised`, `TypingPromised`, …). The fate of an edit asks three places at once, so the proof reduces
them to one: the `Copy` of a note is its document or, without one, its snapshot, and `FateIs` shows that an
edit which is not in the vault is pending exactly if it is in a copy. What a stretch of an operation makes
of the copy is one of three `Moves`: it stays, an acknowledgement moves its baseline, or it is read anew at a
version that is newer than its baseline. Only the last one sheds edits, and `GiveUp` allows it if they were
typed on an older version. That, and that a writeback adds only pending edits, is what `PromiseInv` is for:

- `Typed`: the edits of a copy, of a request and of a version were typed on the note, on a version no newer
  than the baseline. This is what makes the baseline of the copy a bound on the basis of its edits.
- `Novel`: what the text of a copy or of a request has in common with any version up to its baseline is in
  the baseline too. Without it, a writeback could bring back an edit that a version in between has lost, and
  the history would show an edit as new which is kept already.
- `Latent`: a write that nobody waits for and that may still land holds nothing but edits that are in the
  copy or in the vault. It could otherwise revive one that was given up.
- `Follows`: an acknowledgement names the version right after the baseline, and that version has all edits of
  the baseline, so that `Novel` survives the move.

### The browser session: `TokenRefreshProofs`

For any number of tabs, requests, logins, expiries, lost pages and lost answers:

- `RefreshTypesHold`: the types, with the hub's bookkeeping (a family is named by its first pair, an answer is
  of the family of the pair that was exchanged).
- `NobodyWaitsInVain`: `WaitersAreServed`, with or without Web Locks.
- `TabsNeverReplay` and `SessionStaysUsable`: `NeverReplayed` and `StoredPairIsUsable`, where the browser has
  Web Locks. What they promise of a family ends when the answer to one of its exchanges is lost, on the way or
  with its page (`orphaned`; section 5): the tabs' races alone never spoil a session. Without them the code
  makes the exchange without a lock (oauth.ts:556), and two tabs may replay; the run has them too.

The invariant `RefreshIsSound`: an exchange on the wire belongs to the holder of the lock and carries the
stored pair, unless that was cleared or replaced by a login meanwhile (`WireHasLock`); a pair on its way to a
page is not superseded (`ComingPairsAreGood`); a stored pair that is superseded has a successor on the way to
the storage or was lost (`SuccessorComes`); and all sessions belong to the one cached client unless two tabs
raced (`OneClient`).

### The transport: `SubscribeTransportProofs`

For any length of the vault's life and of its snapshots, any number of faults and tokens:

- `TransportTypesHold`, and that a loop which is not connected has neither socket nor frames nor session.
- `OpenMeansAccepted`: `OpenIsAccepted`. A first frame on the wire is proof of a session (`FirstFramesCome`).
- `VaultIsNotHammered`: `NoHotLoop`. `TriesAreCounted` ties the number of connections since the last delay
  or frame to the refresh streak and to where the loop is.
- `ViewNeverGoesBack`: `ViewGoesForward`. `ViewInv` reads the wire from the front: it is a `Path`, each frame
  of which leads from one state of the vault and one position in a snapshot to the next (`Moves`); what the
  client has collected of a snapshot is what the vault's path says it has sent of it, and what the handlers
  have seen is not ahead of what comes.

### The live list: `LiveListProofs`

For any number of subscriptions and consumers, and callbacks within callbacks to any depth:

- `StreamsFollowConsumers`, `NobodyStaysBehind`: `StreamFollowsConsumers` and `AttachedAreCurrent`.
- `GraceIsAskedFor`, `FanOutsSurviveCallbacks`: the action properties `WindowLeavesWithConsumer` and
  `FanOutsAreSafe`.

The invariant `ListIsInvariant` speaks of the whole call stack: an entry counts exactly the consumers that
hold it (`HandlesAreCounted`), what is dead has no socket (`DeadHaveNoSocket`), a frame is about one entry
and visits its consumers (`FramesFit`), an entry fans out once at a time and its flag says so
(`FansAreSingle`, `DeliveringIsFanning`), whoever is behind is still to be visited by a frame or a microtask
(`BehindAreAwaited`), and a release that waits for the end of a fan-out was asked for (`GraceWasAsked`).

### Grants and docs access: `DocsAccessProofs`

For any grants, links, subjects and sockets, any bounds and every set of faults:

- `LiveCacheFollowsStream`: `LiveCacheIsExact`. `Follows` says of a grant whose row is not spoilt that the
  last word about it, in the cache or on the wire, is the vault's; a snapshot speaks of every grant.
- `DegradedReadsRestOnAnswers`: `DegradedReadsAreRecent`, from an invariant about what the reuse window, the
  query under way and the rows changed since say of each other (`DegradedInv`), and from `LossInv` for the
  time between a loss and its notice: what the lost events would have told is `unheard`, and everything else
  in the cache is still the vault's.
- `AccessTypesHold`, and `SweepsSettleSessions`: `SettledSessionsAreEntitled`. `SessionInv` says that a live
  session has the rights of the cache, or the sweep has yet to reach it or will run again, or it was never
  told of. The level of an actor is the greatest of his grants' levels; that a finite set of numbers has a
  greatest one is drawn from the well-foundedness of strict inclusion (`GreatestOf`), the proof by induction
  being out of reach.

### The host: `SurfaceHostProofs`

For any set of surfaces, bundles, credentials and tasks and any bounds:

- `RoutesFollowDisk`: `RoutesMatchDisk` is invariant. It is inductive with the types of the host's state:
  a handler either rescans in the stretch in which it changes a meta.json, or is an add, which shows in
  `op` (or in `halfway`) until it does.
- `ManifestFollowsRegistry`: `ManifestIsCurrent` is invariant. It is not inductive, since it speaks of
  quiet states only; `PublisherIsComing` says of all states that a registry newer than services.json has a
  handler in its last call which will publish. No handler that does not publish may change the registry.
- `QuarantineIsReached`: `ServedShortOfQuarantine` is invariant: what serves has not failed as often as
  quarantines it. `StatusesFit` says of the records in the map that the status goes with the failure window;
  every step keeps it, since a failure is counted and judged in one stretch and a record that has left the
  map does not come back. `DaemonTypesHold` is the type
  invariant of the whole daemon, which the others use; it promises nothing about the failure window.
- `QuarantineLasts`: the action property `QuarantineHolds`.
- `BackendsAreCurrent`: `QuietBackendsAreCurrent` is invariant.

The first two use no fact about the supervisor: whatever it does, and however its awaits interleave, it
leaves disk, registry and services.json alone. The others rest on `DaemonInv`: the map leads from a name
to a record of that name (`MountsAreOwn`), and the mount that awaits an import or a factory has a record of
its own in hand, with no backend yet (`MountsInHand`), so that no factory can lift the quarantine of a
backend that runs. The plan of `sync()` goes through the records of a set by age; that the set can be put
in such an order is proved too (`OldestFirst`), and needs the set of names to be finite, as it is.

`QuietBackendsAreCurrent` speaks of quiet states; `CurrentInv` says of every state and surface what makes it
come true. Either the surface is `Current`: the code of the record in the map, and of the factory call whose
result that record awaits, is the installed code. Or it is excused: an add that replaced its files awaits
the hub (`ReplacementAwaits`), or broke off (`behind`). Or it is no longer backed and a `sync()` under way
has yet to come to it (`UnmountAhead`): that its plan does come to it needs that the plan covers every name
in the map (`OldestFirst` again), and that no handler drops a plan with steps left (`PlansDone`). A remount,
whether by `reload()` or by a step of `sync()`, leaves the surface either out of the map or with a new record
that only the import to come can fill, with the code that is on disk by then.

### The credentials: `CredentialCustodyProofs`

For any number of connections, tokens, concurrent sweeps and restarts: `RefusalIsFinal`, that `RefusedRests`
is invariant. The parts of `CustodyIsInvariant` are inductive together: a token is of one connection
wherever it is written (`Owned`), so that the mark of a refusal meets the record that holds it, and what a
late answer stores is known to nobody else (`GiftsAreNew`), so that it cannot have been refused before.

### The bridge and the channel note: `ParachuteMcpProofs`

For any number of overlapping calls and any bounds on clients, lost sessions and outages:

- `ClientsAreClosed`: `NoForgottenClient` is invariant. It is inductive only with `OneAtATime`, which says
  besides that at most one client is being made (`JoinsAttempt`: who calls meanwhile joins that attempt), and
  with the types of the connection and the calls (`BridgeTypes`).
- `NoCallRunsTwice`: `CallsRunOnce` is invariant. `Counted` ties the number of times a tool ran to where its
  call is: a request that is pending, or that met an unknown session, has not run, so that what is made
  again never ran; an answer that is a result has run once.
- `LoneCallsDoNotFail`: `LoneCallsSucceed` is invariant. `Untroubled` says of a call that nothing excuses
  where it can be: alone, with the hub up, on its first client with any answer but a failure, or on its
  second with a session that the hub knows. It needs `OneAtATime`: the reset of another call would otherwise
  close the client under it.

The channel note, for any agents, vaults, tails and turns, and any number of refusals, attachments and
deletions:

- `TurnsAlwaysLandOnce`: `TurnsLandOnce` is invariant. `EntriesAreNew` is what it rests on: a call that is
  still to be served carries a turn which no note has, and no two calls carry the same one.
- `NobodyEverLosesTheRace`: `NobodyLosesTheRace` is invariant: a command fails with a tool error only if a
  grant is missing, the note was deleted, or the MCP client's own timeout ended the call (section 5), never
  because somebody else was first. `WritersKnow` says of an agent that nothing
  excuses what its last answer says of the note: that its turn is in it, or, of a create that was carried
  out or met a conflict, that the note exists, so that the append that follows cannot miss it.
- `ReadsAlwaysReachTheEnd`: `ReadsReachTheEnd` is invariant. `ReadersKnow` bounds what a reader has by the
  note, whose length in bytes only grows while it exists (`NotesAreLaid`: every character ends where the next
  one begins); that a window at either end of a note starts or stops where the vault says
  (`HeadWindowCovers`, `TailWindowCovers`) needs the greatest character that fits, and that there is one is
  drawn from the pigeonhole principle (`GreatestExists`), in place of an induction.

The parts of `ChannelInv` are inductive together. The numbers of the turns are what tells the agents apart
over any number of commands: a call is its agent's newest (`WireFits`), or one that a command gave up.

### Only model-checked

- All liveness, the prover having no fairness and no ENABLED: `DueIsRenewed`, `DoomedIsNoticed`,
  `RevokedSessionsEnd`, `EditsSettle`, `LeftDocsAreReleased`, `ConsumerCatchesUp`, `SessionFollowsToken`.

## 5. Where code and words disagree

Found while modelling. The steps are in the models; the properties of the runs are stated so that they say
what the code does keep. Where the list names
history variables of a model, the properties excuse just those behaviours; without the excuse they fail in TLC.

- A document restored dirty after its note was deleted is written back for ever while the stream is live,
  because a 404 of `updateNote` is treated as transient (reconciler.ts:670, against 312-314 and 609-610).
- An event that arrives while `load()` awaits its note is dropped, and a document restored from a snapshot is
  not compared with the vault; it stays behind while the stream lives (reconciler.ts:361, against "missed
  events self-correct", 36-37).
- An access token refused before its expiry is adopted as its own replacement, and the one retry is made with
  the very token that was refused (oauth.ts:609, against 578-602).
- Two tabs that sign in for the first time at once register two clients, and the later registration takes the
  cache (create-vault-surface.ts:415-422). The session of the other is refreshed by the next page as the wrong
  client, is refused, and is evicted, although create-vault-surface.ts:379-380 knows that "a refresh token is
  bound to the client_id it was issued to" (`raced` in the model).
- An exchange that the hub has served, and whose answer is lost or breaks off (oauth.ts:625-640) or whose page
  is left meanwhile, leaves the superseded pair in the storage; the next refresh replays it, the hub revokes
  the family and the user is logged out. The code takes the failure for one that may be tried again: one that
  "is left to propagate so existing behavior is preserved" (create-vault-surface.ts:629-631), and the lock and
  the adoption of stored pairs, which oauth.ts:508-533 says keep a superseded token from being replayed, guard
  against other requests and tabs only (`orphaned` in the model).
- A late refusal evicts whatever pair is stored by then, also the one a login has just stored
  (create-vault-surface.ts:492).
- Closing while the token is being resolved leaves a socket open that nobody closes, and "open" is announced
  after "closed" (ws-transport.ts:387, against 128 and 141).
- A state store opened for a mount that was undone during its import is never closed (host-context.ts:180,
  against 163-165).
- A revalidation query that is answered late replaces a newer live cache, and the answer of `createGrant`
  resurrects a row that was removed meanwhile (grant-store.ts:310, 354; `displaced` in the model), although
  the header promises that stale-allow never happens; while degraded, a revoked grant is honoured for the
  reuse window. After a revalidation, an older event that the stream still brings replaces the cache and
  leaves `#revalidatedAt` as it is (grant-store.ts:303): if the stream is lost again, a grant that was revoked
  before the answer is honoured until the reuse window of that answer ends (`outdated`).
- Between the loss of the stream and the status that tells of it (after the backoff, after a token refresh if
  the vault asked for one, after ping and pong timeout if the socket is wedged) the grant store counts as live
  and honours revoked grants without asking anybody (grant-store.ts:234-239; `unheard` in the model), although
  "while the stream is down, the cache may be missing a revocation" is what the header promises to guard
  against: "Stale-allow never happens" (grant-store.ts:16-23).
- A grant revoked between the verdict of `onAuthenticate` and `connected` is not swept; nobody is notified of
  an expiry; a session whose note could not be read is kept until the next change (collab.ts:223-250).
- A `deleteNote` that fails after a share was revoked leaves its capability usable (routes.ts:306-324).
- An edit in the window before a document is adopted again does not ride out "with the next flush"
  (collab.ts:186-188) unless something else makes the document dirty: it is in the Y.Doc, and adoption of a
  populated document does not mark it. A note that is removed under its clients leaves them editing a Y.Doc
  that nobody tracks.
- An unload whose last writeback fails is not aborted: `#flushNote` never throws (reconciler.ts:585), so
  `unload()` drops the tracking and the engine the document, with the write undone and its text in a dirty
  snapshot that is written when somebody opens the note again. collab.ts:175-179 expects an exception that
  keeps the document mapped; that is the mutant `StoredClean` of `LeftDocsAreReleased`.
- A late renewal answer brings a removed credential back, or replaces a newer delivery; a late 401 marks a
  newly delivered credential needs-operator, although credential-store.ts:88-90 says that the status means
  this credential's renewal was refused, and no sweep tries it again.
- "The note's path is unique per channel" (channel.ts:651) fails after a channel is attached to another vault
  or written with another `--vault`: a read may then print the other vault's note. A read whose note vanishes
  between its two calls exits with 4, or prints the head window.
- A tool call that the hub does not answer for 60 seconds is ended by the MCP client's own request timeout,
  whose timer is started before that of `withTimeout` (commands.ts:147-160, 671-676, the default of 140 being
  60 seconds too): its error is an `McpError`, so `classifyError` (commands.ts:996-1004) makes it exit code 4,
  "the tool failed", where the README of parachute-mcp (557-569) gives 2 to a hub that does not answer. Only a
  `--timeout` below 60 exits with 2. (The client library is not in the repository; this is its default.)
- Of several calls in flight when a hub session expires only one is made again; the others fail, also one that
  was executed, although bridge.ts:12-14 promises to re-initialize and retry once. `close()` during a connect
  leaves the new client open.
- A load in flight during `stop()` registers its document afterwards, against reconciler.ts:168.
- The refresh streak of the transport survives a working session: the second expiry of an idle live page ends
  its subscription (ws-transport.ts:420-427; a test pins it).
- If the hub's answer to the client registration breaks off in its body, `registerOauthClient` throws
  something that is no `DcrError`, and an add ends with the new files in place, no rescan and the old backend
  running, although admin-routes.ts:1449-1451 calls the registration best-effort. `RoutesMatchDisk` excepts
  the surface until it is added again, reloaded or deleted (`halfway`). The next add need not remount it: a
  first add that has waited for the hub meanwhile registers the newer files, but captured that there was
  nothing to replace before it wrote its own (admin-routes.ts:1336, used at 1518), and `sync()` leaves an
  unchanged server block alone. So `QuietBackendsAreCurrent` excepts it until an add that replaces it, a
  reload or a delete (`behind`).
- `sync()` and the retry work on the list captured when they began. With two surfaces and a slow backend, an
  older `sync()` unmounts a backend that was installed meanwhile (it stays down until its next reload), or
  mounts one that was deleted, as a record in `backend-error` that blocks the next fresh add.
- `mount()` sets its record after awaiting the unmount of the previous one, whatever is there by then: with
  three reloads of one surface a record is overwritten that is never aborted nor shut down.
- A git push over a backed surface leaves the old backend running.
- The failure of a socket handler is recorded by name and counts against the backend that is mounted then. It
  may so quarantine a record whose factory has yet to return, which lifts the quarantine: `QuarantineHolds`
  speaks of backends that run.
- On abort the state store closes before `shutdown()` of the backend is called.
- Dropping a credential at a delete may make another surface's resolution unambiguous; no retry follows, as
  one does for a delivered removal (admin-routes.ts:628-629). A changed binding mounts backends without
  refreshing services.json, and the self-heal does not publish the new client.
- Registering a client for a surface deleted meanwhile creates its directory anew, without a meta.json.

## 6. Not modelled

Text itself (Markdown, Yjs merges, serialisation hooks: a document is the set of its edits), the contents of
lists and notes, formats of tokens, HTTP routing, wording and logging. Time is abstract: a timer that is armed
may fire at any moment, so nothing is said about how long a delay is. Of the modelled parts, the notes in
`PROJECT.json` say which operations are left out. Not covered by any property yet, and why, is noted hazard by
hazard there. Of the host: file operations succeed and a stretch without an await is one step (no crash in its
middle), colliding paths, renamed instances, `config.disabled`, shutdown, and the status each surface has in
services.json are left out. Of the bridge: the aggregation over several hubs, which is a `HubConnection` each,
and `close()`. Of audience access: the rate limiter, whose windows are counters of one process without an
await. Not modelled at all, with state worth a model:

- Development mode: a watcher that is replaced while its build runs leaves two builds at a time in one
  directory, and deleting a surface leaves its watcher.
- Meeting ingest: a webhook that is delivered again while its first delivery is being written finds no note
  and creates a second one.

The rest (the doctor and the other commands of the MCP package, the command lines, schemas, conversions,
rendering, the web applications, the account client, release tooling) keeps no state between two calls, or
is user interface; these are two thirds of the lines, and why the map covers a small share of them.

## 7. Plan

1. Done: the reconciler, the live list, the token refresh with sign-in and registration, the transport, the
   surface host (supervisor, handlers, custody); grants, links and docs access; the collaboration over the
   reconciler and its refinement of `SharedNote`; the renewal of credentials; the channel note; the bridge.
   Proved: every safety property of the reconciler, the live list, the tokens, the transport, the grants and
   docs access, the custody, the bridge, the channel note, the collaboration and the host; and the refinement
   of `SharedNote`.
2. Models to come: `SurfaceHost` with crashes in the write stretches and a restart, and with two surfaces
   whose paths may collide; the rate window of `AudienceLinks`; development mode (watcher, single-flight
   build, reload stream); meeting ingest under webhook retries.
