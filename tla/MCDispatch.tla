---------------------------- MODULE MCDispatch ----------------------------
(* Small instances of Dispatch.                                           *)
EXTENDS Dispatch, TLC

CONSTANTS g1, g2

OneGpu  == {g1}
TwoGpus == {g1, g2}

\* Jobs are interchangeable.
JobSymmetry == Permutations(Job)
===========================================================================
