----------------------------- MODULE MCCoorTable -----------------------------
(* A heap of three nodes for four coordinators and two descriptors: a list  *)
(* with a head, a middle and an end, and a table that can be full.          *)
EXTENDS CoorTable, TLC

Symmetry == Permutations(Coor) \cup Permutations(Addr)
=============================================================================
