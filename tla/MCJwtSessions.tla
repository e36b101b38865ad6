---------------------------- MODULE MCJwtSessions ----------------------------
(* JwtSessions for TLC: accounts, roles and requests are model values.     *)
EXTENDS JwtSessions, TLC

Symmetry == Permutations(Requests)
=============================================================================
