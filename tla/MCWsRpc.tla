------------------------------ MODULE MCWsRpc -------------------------------
(* Instances of WsRpc for TLC: the connections are interchangeable.        *)
EXTENDS WsRpc, TLC

Symmetry == Permutations(Conns)
=============================================================================
