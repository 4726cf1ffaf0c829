------------------------------- MODULE MCSerid -------------------------------
(* Connections are interchangeable, and so are the coordinators' ids. *)
EXTENDS Serid, TLC

ConnSymmetry == Permutations(Conn)
Symmetry == Permutations(Conn) \cup Permutations(Coor)
=============================================================================
