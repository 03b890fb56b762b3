---------------------------- MODULE AudienceLinks ----------------------------
(***************************************************************************)
(* Who the audience of a surface is: capability links and personal links,  *)
(* and the browser sessions made from them, of                             *)
(* packages/surface-server/src/auth.  The records live in SQLite and every *)
(* operation is synchronous.  A token stands for its capability; that it   *)
(* cannot be forged is taken for granted.                                  *)
(***************************************************************************)
CONSTANTS
  Links,     \* capability ids
  Personal   \* the links that are personal ("lnk"): single-use

ASSUME LinksAssumption == Personal \subseteq Links

VARIABLES
  link,      \* capability record: "unminted", "usable", or "dead" (revoked or expired)
  exchanged, \* personal links with exchangedAt
  cookies    \* personal links of which a browser holds an unexpired session

linkVars == <<link, exchanged, cookies>>

\* createCapability, of mintCapability and mintPersonalLink.
Mint(l) ==
  /\ link[l] = "unminted"
  /\ link' = [link EXCEPT ![l] = "usable"]
  /\ UNCHANGED <<exchanged, cookies>>

\* handleEntry of a personal link.  The session that a shareable link is exchanged
\* for resolves whenever its Capability header does, and need not be kept.
Exchange(l) ==
  /\ l \in Personal /\ link[l] = "usable" /\ l \notin exchanged
  /\ exchanged' = exchanged \cup {l}
  /\ cookies' = cookies \cup {l}
  /\ UNCHANGED link

SessionExpires(l) ==
  /\ l \in cookies
  /\ cookies' = cookies \ {l}
  /\ UNCHANGED <<link, exchanged>>

LinkExpires(l) ==
  /\ link[l] = "usable"
  /\ link' = [link EXCEPT ![l] = "dead"]
  /\ UNCHANGED <<exchanged, cookies>>

\* resolveSession, or the Capability header, which a personal link may not ride.
resolveActor(l) == link[l] = "usable" /\ (l \in cookies \/ l \notin Personal)

\* revokeCapability of a set of links; a second revocation changes nothing.
Revoked(ls) == [l \in Links |-> IF l \in ls /\ link[l] = "usable" THEN "dead" ELSE link[l]]

LinkInit == /\ link = [l \in Links |-> "unminted"] /\ exchanged = {} /\ cookies = {}

LinkTypeOK ==
  /\ link \in [Links -> {"unminted", "usable", "dead"}]
  /\ exchanged \subseteq Links /\ cookies \subseteq Links
=============================================================================
