------------------------------ MODULE MCPlatform ------------------------------
(* Platform for TLC: handlers are interchangeable. *)
EXTENDS Platform, TLC

Symmetry == Permutations(Workers)
=============================================================================
