---------------------------- MODULE MCFilterChain ----------------------------
(***************************************************************************)
(* Instances of FilterChain for TLC.  Names, filters and entries are       *)
(* interchangeable, and no property of these runs is a liveness property.  *)
(***************************************************************************)
EXTENDS FilterChain, TLC

ChainSymmetry == Permutations(Names) \cup Permutations(Filters) \cup Permutations(Cells)
=============================================================================
