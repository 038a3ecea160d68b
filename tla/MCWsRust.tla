------------------------------- MODULE MCWsRust -------------------------------
(* Small instances of WsRust for TLC.  Connections are interchangeable.    *)
EXTENDS WsRust, TLC

Symmetry == Permutations(Conns)
===============================================================================
