---------------------------- MODULE MCClientTabs ----------------------------
(* ClientTabs for TLC: accounts, tabs and requests are model values.       *)
EXTENDS ClientTabs, TLC
=============================================================================
