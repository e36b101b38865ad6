-------------------------- MODULE MCClientMessages --------------------------
(* ClientMessages for TLC: channels and fetches are model values.          *)
EXTENDS ClientMessages, TLC

Symmetry == Permutations(Channels) \cup Permutations(Fetches)
=============================================================================
