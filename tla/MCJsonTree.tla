------------------------------ MODULE MCJsonTree ------------------------------
(* Cells are interchangeable, malloc returns whichever it likes; and so are *)
(* the names, which differ in their case only.                              *)
EXTENDS JsonTree, TLC

MCLower == [n \in Name |-> "lower"]
MCKinds == {"object", "text"}  (* and the arrays of CreateArray *)
Symmetry == Permutations(Cell) \cup Permutations(Name)
=============================================================================
