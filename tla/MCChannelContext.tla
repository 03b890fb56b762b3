-------------------------- MODULE MCChannelContext --------------------------
(***************************************************************************)
(* TLC instance of ChannelContext: the agents are interchangeable.         *)
(***************************************************************************)
EXTENDS ChannelContext, TLC

Symmetry == Permutations(Agents)

=============================================================================
