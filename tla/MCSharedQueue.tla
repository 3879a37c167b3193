--------------------------- MODULE MCSharedQueue ---------------------------
(* SharedQueue with model values for contexts and items. *)
EXTENDS SharedQueue, TLC

MCContexts == Producers \cup Consumers
MCSymmetry == Permutations(Items)
=============================================================================
