------------------------------ MODULE DocsAccess ------------------------------
(***************************************************************************)
(* Who may edit a document of the docs editor, over the whole way: shares  *)
(* (a link and a grant), the HTTP gateway that mints tickets, the          *)
(* connections of packages/docs-editor/server/collab.ts that redeem them,  *)
(* and the sweep that re-authorises live sessions when grants change.      *)
(*                                                                         *)
(* There is one document.  A socket opens one connection to it at a time;  *)
(* the engine (Hocuspocus) is external.  What hangs on microtasks only is  *)
(* one step: a read of the grants, the verdict on it and whatever follows  *)
(* up to the next request.                                                 *)
(***************************************************************************)
EXTENDS GrantStore, AudienceLinks

CONSTANTS
  ShareOf,      \* link -> the grant that POST /api/shares creates with it
  SubjectsOf,   \* link -> grantSubjectsFor the actor it makes
  Operators,    \* actors of a hub JWT, who never consult grants
  Nobody,
  Sockets, NoSocket,
  NoteFaults    \* subset of {"scope", "fetch"}: the note is out of scope, getNote fails

Actors == Links \cup Operators

ASSUME AccessAssumption ==
  /\ ShareOf \in [Links -> Grants] /\ SubjectsOf \in [Links -> SUBSET Subjects]
  /\ \A l \in Links : SubjectOf[ShareOf[l]] \in SubjectsOf[l]
  /\ Operators \cap Links = {} /\ Nobody \notin Actors /\ NoSocket \notin Sockets /\ NoteFaults \subseteq {"scope", "fetch"}

VARIABLES
  tickets,   \* actors for whom a ticket is outstanding
  sock,      \* socket -> its connection, from the Auth message on
  sweep,     \* sweepSessions
  unswept    \* history: sessions whose rights changed without a verdict on them since

accessVars == <<tickets, sock, sweep, unswept>>
vars == <<grantVars, linkVars, accessVars>>

Free    == [at |-> "free", actor |-> Nobody, level |-> "none"]
Resting == [at |-> "idle", cur |-> NoSocket, todo |-> {}, queued |-> FALSE]

\* sessions, less those of the operator, which a sweep passes over.
Sessions(sk) == {s \in Sockets : sk[s].at = "open" /\ sk[s].actor \notin Operators}

Level(actor, c) == IF actor \in Operators THEN "edit" ELSE levelFor(SubjectsOf[actor], c)
can(level, action) == level # "none" /\ levelAllows(level, action)
Rights(level) == <<can(level, "read"), can(level, "edit_content")>>

Answers == {"found"} \cup NoteFaults

-----------------------------------------------------------------------------
(* The sweep.                                                              *)

\* Mutant: a change that comes during a sweep is not swept for.
NextVisitOnce(todo, queued, sk) ==
  LET left == todo \cap Sessions(sk)
  IN IF left = {} THEN {Resting}
     ELSE {[at |-> "noting", cur |-> s, todo |-> left \ {s}, queued |-> queued] : s \in left}

\* The loop of sweepSessions, up to its next getNote.
NextVisit(todo, queued, sk) ==
  LET left == todo \cap Sessions(sk)
      from(ss, q) == {[at |-> "noting", cur |-> s, todo |-> ss \ {s}, queued |-> q] : s \in ss}
  IN IF left # {} THEN from(left, queued)
     ELSE IF queued /\ Sessions(sk) # {} THEN from(Sessions(sk), FALSE) ELSE {Resting}

\* The change listener: start a sweep, or have the running one go round again.
Notify(sk) ==
  IF sweep.at = "idle" THEN NextVisit(Sessions(sk), FALSE, sk) ELSE {[sweep EXCEPT !.queued = TRUE]}

\* Is the session to be closed, to come back with another ticket?
Changed(s, level) == Rights(level) # Rights(sock[s].level)

\* Mutant: an actor without any grant is taken for one whose grants could not be read.
SkipsStrangers(sk, s, level) ==
  IF s # NoSocket /\ level # "none" /\ Changed(s, level) THEN [sk EXCEPT ![s] = Free] ELSE sk

\* The sockets after the verdict on the one that was being visited.
Judged(sk, s, level) == IF s # NoSocket /\ Changed(s, level) THEN [sk EXCEPT ![s] = Free] ELSE sk

\* The answer to the getNote of the sweep.
SweepNote ==
  /\ sweep.at = "noting"
  /\ \E answer \in Answers :
       LET s     == sweep.cur
           ended == IF s = NoSocket THEN sock ELSE [sock EXCEPT ![s] = Free]
       IN \/ /\ answer = "fetch"
             /\ sweep' \in NextVisit(sweep.todo, sweep.queued, sock)
             /\ unswept' = unswept \cup ({s} \ {NoSocket})
             /\ UNCHANGED <<sock, grantVars>>
          \/ /\ answer = "scope"
             /\ sock' = ended /\ sweep' \in NextVisit(sweep.todo, sweep.queued, ended)
             /\ unswept' = unswept \ {s}
             /\ UNCHANGED grantVars
          \/ /\ answer = "found" /\ Readable
             /\ sock' = IF s = NoSocket THEN sock ELSE Judged(sock, s, Level(sock[s].actor, cache))
             /\ sweep' \in NextVisit(sweep.todo, sweep.queued, sock')
             /\ unswept' = unswept \ {s}
             /\ UNCHANGED grantVars
          \/ /\ answer = "found" /\ ~Readable
             /\ sweep' = [sweep EXCEPT !.at = "reading"]
             /\ Revalidate
             /\ UNCHANGED <<sock, unswept, vaultVars, streamVars, cache, live, started, recent,
                            creating, revoking, outdated, displaced>>
  /\ UNCHANGED <<linkVars, tickets>>

-----------------------------------------------------------------------------
(* Tickets and connections.                                                *)

\* A cap link is in nobody's hands before POST /api/shares has answered; a
\* personal link has been sent by mail.
InHands(l) == l \in Personal \/ creating[ShareOf[l]].at = "done"

Resolves(a) == IF a \in Operators THEN TRUE ELSE InHands(a) /\ resolveActor(a)

\* POST /api/collab/ticket, through the gateway.
MintTicket(a) ==
  /\ started /\ a \notin tickets /\ Resolves(a)
  /\ tickets' = tickets \cup {a}
  /\ UNCHANGED <<grantVars, linkVars, sock, sweep, unswept>>

TicketExpires(a) ==
  /\ a \in tickets
  /\ tickets' = tickets \ {a}
  /\ UNCHANGED <<grantVars, linkVars, sock, sweep, unswept>>

\* onAuthenticate, to its getNote.  A ticket that is unknown or used is refused.
OnAuthenticate(s, a) ==
  /\ sock[s].at = "free" /\ a \in tickets
  /\ tickets' = tickets \ {a}
  /\ sock' = [sock EXCEPT ![s] = [at |-> "noting", actor |-> a, level |-> "none"]]
  /\ UNCHANGED <<grantVars, linkVars, sweep, unswept>>

\* The verdict of onAuthenticate, which leaves the engine to load the document.
Admitted(s, c) ==
  LET level == Level(sock[s].actor, c)
  IN IF can(level, "read") THEN [sock[s] EXCEPT !.at = "opening", !.level = level] ELSE Free

AuthNote(s) ==
  /\ sock[s].at = "noting"
  /\ \E answer \in Answers :
       \/ /\ answer # "found"
          /\ sock' = [sock EXCEPT ![s] = Free] /\ UNCHANGED grantVars
       \/ /\ answer = "found" /\ (Readable \/ sock[s].actor \in Operators)
          /\ sock' = [sock EXCEPT ![s] = Admitted(s, cache)] /\ UNCHANGED grantVars
       \/ /\ answer = "found" /\ ~Readable /\ sock[s].actor \notin Operators
          /\ sock' = [sock EXCEPT ![s].at = "reading"]
          /\ Revalidate
          /\ UNCHANGED <<vaultVars, streamVars, cache, live, started, recent, creating, revoking,
                         outdated, displaced>>
  /\ UNCHANGED <<linkVars, tickets, sweep, unswept>>

Connected(s) ==
  /\ sock[s].at = "opening"
  /\ sock' = [sock EXCEPT ![s].at = "open"]
  /\ unswept' = IF Rights(Level(sock[s].actor, cache)) # Rights(sock[s].level)
                  THEN unswept \cup {s} ELSE unswept
  /\ UNCHANGED <<grantVars, linkVars, tickets, sweep>>

\* The client leaves, or the document cannot be loaded.  A sweep skips it, or ends
\* its visit for nothing.
OnDisconnect(s) ==
  /\ sock[s].at \in {"opening", "open"}
  /\ sock' = [sock EXCEPT ![s] = Free]
  /\ sweep' = [sweep EXCEPT !.todo = @ \ {s}, !.cur = IF @ = s THEN NoSocket ELSE @]
  /\ unswept' = unswept \ {s}
  /\ UNCHANGED <<grantVars, linkVars, tickets>>

-----------------------------------------------------------------------------
(* Shares.                                                                 *)

\* POST /api/shares up to the request for the grant note.
Share(l) ==
  /\ Mint(l)
  /\ \E level \in Granted : CreateGrant(ShareOf[l], level)
  /\ UNCHANGED accessVars

\* DELETE /api/shares/:id, once revokeGrant is over.  If that throws, the link of
\* the share stays usable.
ShareDeleted(g) ==
  /\ RevokeGrantEnds(g)
  /\ link' = IF revoking[g] = "answered"
               THEN Revoked({l \in Links \ Personal : ShareOf[l] = g}) ELSE link
  /\ UNCHANGED <<exchanged, cookies, accessVars>>

-----------------------------------------------------------------------------
(* The composition.                                                        *)

Notified == sweep' \in Notify(sock) /\ UNCHANGED <<linkVars, tickets, sock, unswept>>

\* The store changes its cache and calls the listener.
Deliver == (OnSnapshot \/ OnUpsertOrRemove) /\ Notified
LocalWrite == (\E g \in Grants : CreateGrantReturns(g) \/ RevokeGrant(g)) /\ Notified

Quiet ==
  \/ \E g \in Grants : Rewrite(g) \/ ServeCreate(g) \/ ServeDelete(g) \/ CreateGrantThrows(g)
  \/ Connect \/ StreamLost \/ LossNoticed \/ Refused \/ ServeQuery \/ FailQuery \/ WindowLapses

StoreQuiet == Quiet /\ UNCHANGED <<linkVars, accessVars>>

\* Nothing is told of a grant that expires.
GrantExpires(g) ==
  /\ Expire(g)
  /\ unswept' = unswept \cup
       {s \in Sessions(sock) : Rights(levelFor(SubjectsOf[sock[s].actor], cache)')
                                 # Rights(levelFor(SubjectsOf[sock[s].actor], cache))}
  /\ UNCHANGED <<linkVars, tickets, sock, sweep>>

\* #revalidate is over: its listeners are told, and all who wait for it go on.  On
\* a failure they find no grants.
RevalidateEnds ==
  LET found    == query.at = "answered"
      c        == IF found THEN cache' ELSE [g \in Grants |-> "none"]
      entered  == [s \in Sockets |-> IF sock[s].at = "reading" THEN Admitted(s, c) ELSE sock[s]]
      s        == sweep.cur
      judged   == IF s = NoSocket THEN entered ELSE Judged(entered, s, Level(sock[s].actor, c))
  IN /\ Revalidated \/ RevalidationFails
     /\ IF sweep.at = "reading"
          THEN /\ sock' = judged
               /\ sweep' \in NextVisit(sweep.todo, sweep.queued \/ found, judged)
               /\ unswept' = unswept \ {s}
          ELSE /\ sock' = entered
               /\ sweep' \in (IF found THEN Notify(sock) ELSE {sweep})
               /\ UNCHANGED unswept
     /\ UNCHANGED <<linkVars, tickets>>

LinkSteps ==
  /\ \E l \in Links :
       \/ InHands(l) /\ Exchange(l)
       \/ SessionExpires(l) \/ LinkExpires(l)
  /\ UNCHANGED <<grantVars, accessVars>>

Init ==
  /\ GrantInit /\ LinkInit
  /\ tickets = {} /\ sock = [s \in Sockets |-> Free] /\ sweep = Resting /\ unswept = {}

Next ==
  \/ Deliver \/ LocalWrite \/ StoreQuiet \/ RevalidateEnds
  \/ \E g \in Grants : GrantExpires(g) \/ ShareDeleted(g)
  \/ LinkSteps \/ \E l \in Links : Share(l)
  \/ \E a \in Actors : MintTicket(a) \/ TicketExpires(a)
  \/ \E s \in Sockets :
       \/ \E a \in Actors : OnAuthenticate(s, a)
       \/ AuthNote(s) \/ Connected(s) \/ OnDisconnect(s)
  \/ SweepNote

Spec == Init /\ [][Next]_vars

-----------------------------------------------------------------------------
(* Properties.                                                             *)

TypeOK ==
  /\ GrantTypeOK /\ LinkTypeOK
  /\ tickets \subseteq Actors /\ unswept \subseteq Sockets
  /\ sock \in [Sockets -> [at : {"free", "noting", "reading", "opening", "open"},
                           actor : Actors \cup {Nobody}, level : Levels \cup {"none"}]]
  /\ sweep \in [at : {"idle", "noting", "reading"}, cur : Sockets \cup {NoSocket},
                todo : SUBSET Sockets, queued : BOOLEAN]

\* When no sweep is under way, every session of the audience has exactly the rights
\* that the cached grants give its actor, however grants changed, came back, or
\* could not be read while sweeps, authentications and departures overlapped.  What
\* escapes is what nobody is told of: a change between the verdict of
\* onAuthenticate and the registration of the session, an expiry, and a session
\* whose note could not be fetched.
SettledSessionsAreEntitled ==
  sweep.at = "idle" =>
    \A s \in Sessions(sock) \ unswept :
      Rights(sock[s].level) = Rights(Level(sock[s].actor, cache))

Fairness ==
  /\ WF_vars(Connect /\ UNCHANGED <<linkVars, accessVars>>)
  /\ WF_vars(LossNoticed /\ UNCHANGED <<linkVars, accessVars>>)
  /\ WF_vars(Deliver) /\ WF_vars(RevalidateEnds)
  /\ WF_vars(ServeQuery /\ UNCHANGED <<linkVars, accessVars>>)
  /\ SF_vars(SweepNote)

FairSpec == Spec /\ Fairness

\* A session whose actor has lost every grant in the vault is closed, through lost
\* streams, degraded reads and overlapping sweeps (with the exceptions above, and
\* unless the stream closes for good).
RevokedSessionsEnd ==
  \A s \in Sockets :
    (s \in Sessions(sock) /\ Level(sock[s].actor, Parsed(acl)) = "none") ~>
      \/ s \notin Sessions(sock) \/ Level(sock[s].actor, Parsed(acl)) # "none"
      \/ s \in unswept \/ displaced # {} \/ conn = "closed"
=============================================================================
