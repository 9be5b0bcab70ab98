----------------------------- MODULE MCProveServer -----------------------------
EXTENDS ProveServer, TLC

(* Connections differ only by name: permuting them maps behaviours to        *)
(* behaviours.                                                               *)
Symmetry == Permutations(Reqs)
================================================================================
