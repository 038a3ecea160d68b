-------------------------------- MODULE MCWsGo --------------------------------
(* Small instances of WsGo for TLC.  Raw calls are interchangeable, and so *)
(* are connections: no action singles one out.                             *)
EXTENDS WsGo, TLC

Symmetry == Permutations(Raws) \cup Permutations(Conns)
===============================================================================
