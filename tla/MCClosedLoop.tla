---------------------------- MODULE MCClosedLoop ----------------------------
(***************************************************************************)
(* Instances of ClosedLoop for model checking.  The server is given the    *)
(* loops as its uuids and the loops' own calls as its calls.               *)
(***************************************************************************)
EXTENDS ClosedLoop, TLC

CONSTANTS cam, off, left, l1, l2

\* Nothing tells one loop from another.
LoopSymmetry == Permutations(Loops)
=============================================================================
