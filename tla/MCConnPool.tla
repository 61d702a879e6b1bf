------------------------------ MODULE MCConnPool ------------------------------
(* ConnPool on small instances.                                            *)
EXTENDS ConnPoolInv, TLC

Symmetry == Permutations(Conn)
==============================================================================
