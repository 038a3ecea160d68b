------------------------------ MODULE MCHttpBatch ------------------------------
(* A small instance of HttpBatch for TLC: exchanges are interchangeable.   *)
EXTENDS HttpBatch, TLC

Symmetry == Permutations(Exchanges)

Likely == {"result", "error", "nullError", "resultBadError", "badVersion"}
===============================================================================
