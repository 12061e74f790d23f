----------------------------- MODULE MCFileCache -----------------------------
(* Instances of FileCache for TLC.  Callers are interchangeable.            *)
EXTENDS FileCache, TLC

Symmetry == Permutations(Callers)
==============================================================================
