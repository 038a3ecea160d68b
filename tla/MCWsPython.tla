------------------------------ MODULE MCWsPython ------------------------------
(* Small instances of WsPython for TLC. *)
EXTENDS WsPython, TLC

\* Subscribes and connections are interchangeable in every checked formula.
Symmetry == Permutations(Subscribes) \cup Permutations(Conns)
===============================================================================
