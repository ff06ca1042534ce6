-------------------------- MODULE MCReleasePipeline --------------------------
(***************************************************************************)
(* The instance of ReleasePipeline for model checking.                     *)
(***************************************************************************)
EXTENDS ReleasePipeline, TLC

CONSTANTS r1, r2, r3

MCFirst == <<1, 0, 1>>

RunSymmetry == Permutations(Runs)
=============================================================================
