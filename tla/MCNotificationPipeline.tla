------------------------ MODULE MCNotificationPipeline ------------------------
(* NotificationPipeline for TLC: users, events and clients are             *)
(* interchangeable model values.                                           *)
EXTENDS NotificationPipeline, TLC

Symmetry == Permutations(Users) \cup Permutations(Events) \cup Permutations(Clients)
=============================================================================
