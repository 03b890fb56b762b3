---------------------------- MODULE MCSurfaceHost ----------------------------
(* One static bundle and two builds of a backed surface whose server block  *)
(* is the same.                                                             *)
EXTENDS SurfaceHost

CONSTANTS v1, v2, st, srv

MCServerOf == (v1 :> srv) @@ (v2 :> srv) @@ (st :> None)

Interchangeable == Permutations(Tasks) \cup Permutations({v1, v2})

=============================================================================
