--------------------------- MODULE MCMessagePaging ---------------------------
(* MessagePaging for TLC: messages and authors are interchangeable.        *)
EXTENDS MessagePaging, TLC

Symmetry == Permutations(Messages) \cup Permutations(Authors)
=============================================================================
