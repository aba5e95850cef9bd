------------------------------ MODULE MCVector ------------------------------
(* Module Vector for TLC: elements are interchangeable.                    *)
EXTENDS Vector, TLC

Elements == Permutations(Elem)
=============================================================================
