--------------------------- MODULE CredentialStore ---------------------------
(***************************************************************************)
(* The vault credentials the surface host keeps in custody, one file per   *)
(* hub connection, and which of them a surface uses                        *)
(* (packages/surface-host/src/credential-store.ts).  All surfaces of this  *)
(* model use one vault, so every stored credential matches every surface.  *)
(* Expiry and needs-operator do not take part in the resolution: the gate  *)
(* lets such a credential pass and the token provider refuses it per call. *)
(***************************************************************************)
EXTENDS Naturals, FiniteSets

CONSTANTS
  Names,      \* installed surfaces, by instance name (= directory of uis/)
  Conns,      \* hub connections that may deliver a credential
  ReadConns,  \* those whose scope is read-only
  None

ASSUME ConnsAssumption == ReadConns \subseteq Conns /\ None \notin Conns

VARIABLES
  stored,     \* connections with a credential on disk
  binding     \* config.credential_connections: surface -> connection

credVars == <<stored, binding>>

\* The connection surface n uses, or None: an explicit binding decides (and
\* fails if its credential is not stored); else the only candidate; else, of
\* several, the only read-only one.
resolveCredentialForSurface(n) ==
  LET candidates == IF Cardinality(stored) = 1 THEN stored
                    ELSE stored \cap ReadConns
      usable == IF binding[n] # None THEN {binding[n]} \cap stored
                ELSE candidates
  IN  IF Cardinality(usable) = 1 THEN CHOOSE c \in usable : TRUE ELSE None

\* A delivery of the hub: provisioned and renewed store, removed deletes.
applyCredentialPayload(o, c) ==
  /\ stored' = IF o = "removed" THEN stored \ {c} ELSE stored \cup {c}
  /\ UNCHANGED binding

=============================================================================
