--------------------------- MODULE MCClientStore ---------------------------
(***************************************************************************)
(* The TLC instances of ClientStore: two commands at a time.               *)
(***************************************************************************)
EXTENDS ClientStore, TLC

Symmetry == Permutations(Processes) \cup Permutations(Aliases)
=============================================================================
