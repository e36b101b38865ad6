------------------------- MODULE MCSseEmitterManager -------------------------
(* SseEmitterManager for TLC.  Emitters and senders are interchangeable    *)
(* model values.                                                           *)
EXTENDS SseEmitterManager, TLC

Symmetry == Permutations(Emitters) \cup Permutations(Senders) \cup Permutations(Users)
=============================================================================
