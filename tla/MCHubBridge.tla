----------------------------- MODULE MCHubBridge -----------------------------
(***************************************************************************)
(* TLC instance of HubBridge: the calls are interchangeable.               *)
(***************************************************************************)
EXTENDS HubBridge, TLC

Symmetry == Permutations(Callers)

=============================================================================
