--------------------------- MODULE ChannelContext ---------------------------
(***************************************************************************)
(* parachute-mcp channel-context: the append-only note that the agents of  *)
(* one channel share in a vault (packages/parachute-mcp/src/channel.ts     *)
(* over the HubSession of commands.ts).  Each command is a process of its  *)
(* own; an agent runs one at a time.  The vaults are external: one tool    *)
(* call is atomic there, an append adds to the end, create-note refuses a  *)
(* path that exists, and a window is aligned down to whole characters.     *)
(* A call that is given up may still be on its way and be served later.    *)
(***************************************************************************)
EXTENDS Naturals, Sequences, FiniteSetsExt

CONSTANTS
  Agents,
  NVaults,     \* vaults the hub can reach, in the order query-notes lists them
  Named,       \* vaults an agent passes as --vault
  Tails,       \* values of --tail, in bytes
  Refusals,    \* {"denied"} when a grant may be missing, else {}
  MaxTurns,    \* bound: commands per agent
  MaxAttach,   \* bound: attachments of the channel to a vault
  MaxDeletes   \* bound: notes somebody deletes

ASSUME ChannelAssumption == NVaults \in Nat /\ Named \subseteq 1..NVaults /\ Tails \subseteq Nat

VARIABLES
  note,        \* vault -> the note's characters, <<>> without a note
  binding,     \* the hub's (relay, channel) -> vault, 0 = not attached
  proc,        \* agent -> its command
  wire,        \* tool calls no vault has served yet
  reply,       \* agent -> the answer on its way to it, or NoReply
  attached,    \* attachments so far
  deleted,     \* deletions so far
  excused       \* history: agents whose call was denied or given up as the
               \* tool's failure, or under whom a note was deleted

channelVars == <<note, binding, proc, wire, reply, attached, deleted, excused>>

Vaults == 1..NVaults
NoReply == [kind |-> "none"]
MIN_CONTENT_LENGTH == 4
MAX_CODEPOINT_BYTES == 3

\* A character: what it belongs to, its width in UTF-8, and the byte it ends at.
Char(of, width, begin) == [of |-> of, width |-> width, end |-> begin + width]
initialContent == <<Char(<<"header", 0>>, 2, 0)>>
normalizeEntry(e, begin) == <<Char(e, 1, begin), Char(e, 4, begin + 1)>>

\* The bytes of the first i characters of c.
Bytes(c, i) == IF i = 0 THEN 0 ELSE c[i].end

\* The last character boundary of c at or before byte b.
Boundary(c, b) == Max({i \in 0..Len(c) : Bytes(c, i) <= b})

\* The characters from+1..to a vault returns for a window.
Slice(c, offset, length) ==
  LET from == Boundary(c, offset)
  IN  [from |-> from, to |-> Boundary(c, Bytes(c, from) + length)]

headWindow(tail) == [offset |-> 0, length |-> Max({tail, MIN_CONTENT_LENGTH})]

\* Mutant: no slack for the alignment of the offset.
tightWindow(total, tail) ==
  [offset |-> IF total > tail THEN total - tail ELSE 0,
   length |-> Max({tail, MIN_CONTENT_LENGTH})]

tailWindow(total, tail) ==
  [offset |-> IF total > tail THEN total - tail ELSE 0,
   length |-> Max({tail, MIN_CONTENT_LENGTH}) + MAX_CODEPOINT_BYTES]

-----------------------------------------------------------------------------
(***************************************************************************)
(* A command.  at: "idle", "lookup", the call it awaits ("head", "tail",   *)
(* "append", "create", "again"), or "done" with its exit code.  vault 0:   *)
(* no --vault (a read asks every vault).                                   *)
(***************************************************************************)
Fresh(at, action, v, tail, turn) ==
  [at |-> at, action |-> action, vault |-> v, tail |-> tail, turn |-> turn,
   exit |-> "none", head |-> NoReply, text |-> NoReply]
NoProc == Fresh("idle", "none", 0, 0, 0)

Entry(a) == <<a, proc[a].turn>>
ToolOf(at) == CASE at \in {"head", "tail"} -> "query-notes"
                [] at \in {"append", "again"} -> "update-note"
                [] at = "create" -> "create-note"
Calling(a) == proc[a].at \in {"head", "tail", "append", "create", "again"}

Goes(a, p) == proc' = [proc EXCEPT ![a] = p]
\* A query the command no longer waits for changes nothing wherever it is.
Exits(a, code) ==
  /\ proc' = [proc EXCEPT ![a].at = "done", ![a].exit = code]
  /\ reply' = [reply EXCEPT ![a] = NoReply]
  /\ wire' = {r \in wire : r.by # a \/ r.tool # "query-notes"}

\* call: the agent's command p awaits the tool of step p.at.
Calls(a, p, window) ==
  /\ Goes(a, p)
  /\ wire' = wire \cup {[by |-> a, turn |-> p.turn, tool |-> ToolOf(p.at),
                         vault |-> p.vault, window |-> window]}
  /\ reply' = [reply EXCEPT ![a] = NoReply]

NoWindow == [offset |-> 0, length |-> 0]
Await(a, at) == Calls(a, [proc[a] EXCEPT !.at = at], NoWindow)

\* runChannelContext: read needs no vault, the others ask the hub without one.
Invoke(a, action, v, tail) ==
  LET At(at) == Fresh(at, action, v, tail, proc[a].turn + 1)
  IN  /\ proc[a].at \in {"idle", "done"} /\ proc[a].turn < MaxTurns
      /\ excused' = excused \ {a}
      /\ CASE action = "read" -> Calls(a, At("head"), headWindow(tail))
           [] action # "read" /\ v = 0 ->
                Goes(a, At("lookup")) /\ UNCHANGED <<wire, reply>>
           [] action = "init" /\ v # 0 -> Calls(a, At("create"), NoWindow)
           [] action = "append" /\ v # 0 -> Calls(a, At("append"), NoWindow)
      /\ UNCHANGED <<note, binding, attached, deleted>>

\* resolveVaultFromHub: bound, unbound, or no usable answer.
Lookup(a) ==
  /\ proc[a].at = "lookup"
  /\ \/ /\ binding # 0
        /\ Calls(a, [proc[a] EXCEPT !.vault = binding,
                       !.at = IF proc[a].action = "init" THEN "create" ELSE "append"],
                 NoWindow)
     \/ binding = 0 /\ Exits(a, "usage")
     \/ Exits(a, "transport")
  /\ UNCHANGED <<note, binding, attached, deleted, excused>>

-----------------------------------------------------------------------------
(***************************************************************************)
(* The vaults and the hub (external).                                      *)
(***************************************************************************)
\* The first vault of the call that has the note.
Asked(r) == IF r.vault = 0 THEN Vaults ELSE {r.vault}
Holders(r) == {v \in Asked(r) : note[v] # <<>>}
Found(r) ==
  LET v == Min(Holders(r))
  IN  [kind |-> "note", vault |-> v, length |-> Len(note[v]),
       total |-> Bytes(note[v], Len(note[v])),
       text |-> Slice(note[v], r.window.offset, r.window.length)]

Awaited(r) == Calling(r.by) /\ proc[r.by].turn = r.turn
Answer(r, kind) ==
  reply' = IF Awaited(r)
           THEN [reply EXCEPT ![r.by] = IF kind = "note" THEN Found(r) ELSE [kind |-> kind]]
           ELSE reply

Serves(r) ==
  \/ /\ r.tool = "query-notes"
     /\ Answer(r, IF Holders(r) = {} THEN "not_found" ELSE "note")
     /\ UNCHANGED note
  \/ /\ r.tool = "update-note" /\ note[r.vault] # <<>>
     /\ note' = [note EXCEPT ![r.vault] = @ \o normalizeEntry(<<r.by, r.turn>>, Bytes(@, Len(@)))]
     /\ Answer(r, "ok")
  \/ /\ r.tool = "update-note" /\ note[r.vault] = <<>>
     /\ Answer(r, "not_found")
     /\ UNCHANGED note
  \/ /\ r.tool = "create-note" /\ note[r.vault] = <<>>
     /\ note' = [note EXCEPT ![r.vault] = initialContent]
     /\ Answer(r, "ok")
  \/ /\ r.tool = "create-note" /\ note[r.vault] # <<>>
     /\ Answer(r, "path_conflict")
     /\ UNCHANGED note

ServeCall(r) ==
  /\ wire' = wire \ {r}
  /\ \/ Serves(r) /\ UNCHANGED excused
     \/ /\ "denied" \in Refusals
        /\ Answer(r, "denied")
        /\ excused' = IF Awaited(r) THEN excused \cup {r.by} ELSE excused
        /\ UNCHANGED note
  /\ UNCHANGED <<binding, proc, attached, deleted>>

\* The operator attaches the channel to a vault.
Attach(v) ==
  /\ attached < MaxAttach /\ binding # v
  /\ binding' = v /\ attached' = attached + 1
  /\ UNCHANGED <<note, proc, wire, reply, deleted, excused>>

Delete(v) ==
  /\ deleted < MaxDeletes /\ note[v] # <<>>
  /\ note' = [note EXCEPT ![v] = <<>>]
  /\ deleted' = deleted + 1
  /\ excused' = {a \in Agents : proc[a].at # "idle"}
  /\ UNCHANGED <<binding, proc, wire, reply, attached>>

-----------------------------------------------------------------------------
(***************************************************************************)
(* What the command does with an answer.                                   *)
(***************************************************************************)
Got(a, at, kinds) == proc[a].at = at /\ reply[a].kind \in kinds

\* readTail: the whole note if it fits, else one more call for its tail.
ReadHead(a) ==
  \/ Got(a, "head", {"not_found"}) /\ Exits(a, "ok")
  \/ /\ Got(a, "head", {"note"})
     /\ IF reply[a].total > proc[a].tail
        THEN Calls(a, [proc[a] EXCEPT !.at = "tail", !.head = reply[a], !.text = reply[a]],
                   tailWindow(reply[a].total, proc[a].tail))
        ELSE /\ Goes(a, [proc[a] EXCEPT !.at = "done", !.exit = "ok",
                                        !.head = reply[a], !.text = reply[a]])
             /\ reply' = [reply EXCEPT ![a] = NoReply]
             /\ UNCHANGED wire

\* A note that is gone by now: an empty result leaves the first window, an
\* error is the tool failing.
ReadTail(a) ==
  \/ /\ Got(a, "tail", {"note"})
     /\ Goes(a, [proc[a] EXCEPT !.at = "done", !.exit = "ok", !.text = reply[a]])
     /\ reply' = [reply EXCEPT ![a] = NoReply]
     /\ UNCHANGED wire
  \/ Got(a, "tail", {"not_found"}) /\ (Exits(a, "ok") \/ Exits(a, "toolError"))

\* Mutant: somebody else's note is not taken for the success it is.
CreatedAlone(a) ==
  \/ /\ Got(a, "create", {"ok"})
     /\ IF proc[a].action = "init" THEN Exits(a, "ok") ELSE Await(a, "again")
  \/ Got(a, "create", {"path_conflict"}) /\ Exits(a, "toolError")

\* createNote: path_conflict is success; an append then tries again.
Created(a) ==
  /\ Got(a, "create", {"ok", "path_conflict"})
  /\ IF proc[a].action = "init" THEN Exits(a, "ok") ELSE Await(a, "again")

\* appendEntry.
Appended(a) ==
  \/ Got(a, "append", {"ok"}) /\ Exits(a, "ok")
  \/ Got(a, "append", {"not_found"}) /\ Await(a, "create")
  \/ Got(a, "again", {"ok"}) /\ Exits(a, "ok")
  \/ Got(a, "again", {"not_found"}) /\ Exits(a, "toolError")

Denied(a) == Calling(a) /\ reply[a].kind = "denied" /\ Exits(a, "toolError")

\* Mutant: an append without an answer in time is taken for one that found no note.
TimedOutRetried(a) ==
  /\ Calling(a) /\ UNCHANGED excused
  /\ IF proc[a].at = "append" THEN Await(a, "create") ELSE Exits(a, "transport")

\* No answer: the request may still be served, an answer on its way is lost.
\* withTimeout, or the transport fails, unless --timeout is no less than the MCP
\* client's own 60 seconds, as by default: its timer is older, and its error is one
\* that classifyError takes for the tool's.
TimedOut(a) ==
  /\ Calling(a)
  /\ \/ Exits(a, "transport") /\ UNCHANGED excused
     \/ Exits(a, "toolError") /\ excused' = excused \cup {a}

Answered(a) == ReadHead(a) \/ ReadTail(a) \/ Created(a) \/ Appended(a) \/ Denied(a)

Proceed(a) ==
  /\ TimedOut(a) \/ (Answered(a) /\ UNCHANGED excused)
  /\ UNCHANGED <<note, binding, attached, deleted>>

ChannelInit ==
  /\ note = [v \in Vaults |-> <<>>]
  /\ binding = 0
  /\ proc = [a \in Agents |-> NoProc]
  /\ wire = {}
  /\ reply = [a \in Agents |-> NoReply]
  /\ attached = 0 /\ deleted = 0
  /\ excused = {}

ChannelNext ==
  \/ \E a \in Agents :
       \/ \E v \in Named \cup {0}, t \in Tails : Invoke(a, "read", v, t)
       \/ \E v \in Named \cup {0}, act \in {"append", "init"} : Invoke(a, act, v, 0)
       \/ Lookup(a)
       \/ Proceed(a)
  \/ \E r \in wire : ServeCall(r)
  \/ \E v \in Vaults : Attach(v) \/ Delete(v)

ChannelSpec == ChannelInit /\ [][ChannelNext]_channelVars

-----------------------------------------------------------------------------
Done(a, action, code) ==
  proc[a].at = "done" /\ proc[a].action = action /\ proc[a].exit = code

\* Entry e starts with character i of the note in vault v.
Starts(e, v, i) == i \in 1..Len(note[v]) /\ note[v][i].of = e /\ note[v][i].width = 1

(***************************************************************************)
(* A turn is neither lost nor doubled: no entry is ever in the notes twice *)
(* - not even when the answer to its append was lost, or its call is       *)
(* served after the command gave up - and an append that exited with 0 is  *)
(* there, under the header, in the vault it went to.                       *)
(***************************************************************************)
TurnsLandOnce ==
  /\ \A v, w \in Vaults : \A i \in 1..Len(note[v]), j \in 1..Len(note[w]) :
       Starts(note[v][i].of, v, i) /\ Starts(note[v][i].of, w, j) => v = w /\ i = j
  /\ \A a \in Agents \ excused :
       Done(a, "append", "ok") =>
         LET c == note[proc[a].vault]
         IN  /\ c # <<>> /\ c[1] = initialContent[1]
             /\ \E i \in 1..Len(c) : Starts(Entry(a), proc[a].vault, i)

(***************************************************************************)
(* The first turns of a channel do not fail each other: a tool error means *)
(* that a grant is missing, that the note was deleted or that no answer    *)
(* came within the MCP client's 60 seconds - never that another agent came *)
(* first, whatever is still on its way of commands that gave up.           *)
(***************************************************************************)
NobodyLosesTheRace ==
  \A a \in Agents \ excused : proc[a].exit # "toolError"

\* The documentation's premise of a read: the path is unique per channel.
UniqueNote == \E v \in Vaults : \A w \in Vaults : note[w] # <<>> <=> w = v

(***************************************************************************)
(* A read loses nothing of the tail: whatever is appended between its two  *)
(* calls, it prints at least the last --tail bytes (or all) of the note as *)
(* its first call found it, up to that note's very end.                    *)
(***************************************************************************)
ReadsReachTheEnd ==
  \A a \in Agents \ excused :
    Done(a, "read", "ok") /\ proc[a].head # NoReply /\ UniqueNote =>
      LET h == proc[a].head
          t == proc[a].text.text
          c == note[h.vault]
      IN  /\ t.to >= h.length
          /\ h.total - Bytes(c, t.from) >= Min({proc[a].tail, h.total})

=============================================================================
