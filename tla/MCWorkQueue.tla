---------------------------- MODULE MCWorkQueue ----------------------------
(***************************************************************************)
(* Small instances of WorkQueue for TLC.                                   *)
(***************************************************************************)
EXTENDS WorkQueue, TLC

\* Plain callables are interchangeable, and so are suspensions.
Symmetry == Permutations(Work) \cup Permutations(Suspensions)
=============================================================================
