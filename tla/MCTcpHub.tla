------------------------------- MODULE MCTcpHub -------------------------------
(* Clients are interchangeable up to what they send. *)
EXTENDS TcpHub, TLC

Symmetry == Permutations(Talkers) \cup Permutations(Client \ Talkers)
=============================================================================
