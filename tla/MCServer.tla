------------------------------ MODULE MCServer ------------------------------
(* Module Server for TLC: blocks of memory are interchangeable.            *)
EXTENDS Server, TLC

Blocks == Permutations(Info)
=============================================================================
