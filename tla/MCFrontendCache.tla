--------------------------- MODULE MCFrontendCache ---------------------------
(***************************************************************************)
(* FrontendCache for TLC: two processes, plugin sets and files of a unit,  *)
(* each pair interchangeable, and a file of a package it imports.          *)
(***************************************************************************)
EXTENDS FrontendCache, TLC

CONSTANTS p1, p2, a, b, c, v1, v2
Symmetry == Permutations({p1, p2}) \cup Permutations({a, b}) \cup Permutations({v1, v2})
=============================================================================
