-------------------------- MODULE MCChannelDirectory --------------------------
(* ChannelDirectory for TLC: users, channels and requests are              *)
(* interchangeable model values.                                           *)
EXTENDS ChannelDirectory, TLC

Symmetry == Permutations(Users) \cup Permutations(Channels) \cup Permutations(Requests)
=============================================================================
