---------------------------- MODULE MCTokenRefresh ----------------------------
(* TokenRefresh with two tabs, whose requests are interchangeable.            *)
EXTENDS TokenRefresh, TLC

Symmetry == Permutations(Tabs) \cup Permutations(Callers)
=============================================================================
