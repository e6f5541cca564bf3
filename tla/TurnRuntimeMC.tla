--------------------------- MODULE TurnRuntimeMC ---------------------------
(* Small instances of TurnRuntime for TLC.                                  *)
EXTENDS TurnRuntime, TLC

(* Ids are interchangeable, except those of rooms that may be deleted; used *)
(* by the runs that check safety only.                                      *)
Symmetry == Permutations(Turns) \cup Permutations(Requests)
=============================================================================
