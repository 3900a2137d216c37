------------------------------ MODULE MCClient ------------------------------
(* Calls are interchangeable where no liveness is checked.  NewProxyPool     *)
(* gives every entry the weight 1.                                           *)
EXTENDS Client, TLC

Symmetry == Permutations(Call)
UnitWeight == [p \in Proxy |-> 1]
=============================================================================
