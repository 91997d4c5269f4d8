---------------------------- MODULE MCMediaQueue -----------------------------
(* MediaQueue with a few control threads, which are interchangeable.        *)
EXTENDS MediaQueue, TLC

Symmetry == Permutations(Control)
=============================================================================
