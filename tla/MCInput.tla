------------------------------ MODULE MCInput ------------------------------
(* Instances of Input for TLC: two positions that differ in both coordinates. *)
EXTENDS Input, TLC

MCPoints == {<<0, 0>>, <<1, 1>>}

\* Pointers and systems are treated alike.
Symmetry == Permutations(Pointers) \cup Permutations(Systems)
=============================================================================
