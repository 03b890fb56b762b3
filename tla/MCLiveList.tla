------------------------------ MODULE MCLiveList ------------------------------
(* LiveList on a few subscriptions and consumers, which are interchangeable.  *)
EXTENDS LiveList, TLC

Symmetry == Permutations(Entries) \cup Permutations(Handles)
=============================================================================
