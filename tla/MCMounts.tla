------------------------------ MODULE MCMounts ------------------------------
(* Mounts for TLC: texts of up to three lines, one of them a small change  *)
(* of another, one shorter and one a change beyond the threshold.          *)
EXTENDS Mounts

MCContents == {<<1, 2, 3>>, <<1, 4>>, <<5, 6, 7>>}

MCInitial == {<<1, 2, 3>>}

MCInputs == {[offset |-> NoNum, limit |-> NoNum],
             [offset |-> 3, limit |-> NoNum]}

Symmetry == Permutations(Calls)
=============================================================================
