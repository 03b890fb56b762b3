---------------------------- MODULE MCDocsAccess ----------------------------
(* One capability link, or one personal link, to one document, for TLC. *)
EXTENDS DocsAccess, TLC
CONSTANTS k, gk, capK, s1, s2

MCShareOf == k :> gk
MCSubjectOf == gk :> capK
MCSubjectsOf == k :> {capK}
SocketSymmetry == Permutations({s1, s2})
=============================================================================
