------------------------- MODULE MCContractRevision -------------------------
(***************************************************************************)
(* Instances of ContractRevision for model checking.                       *)
(***************************************************************************)
EXTENDS ContractRevision, TLC

CONSTANTS c1, c2

\* A camera that looks straight down, its up to the left, and one whose client left
\* the rotation out: it looks ahead.
Mounts ==
    c1 :> [position |-> <<1, 2, 3>>,
           rotation |-> << <<0, -1, 0>>, <<0, 0, 1>>, <<-1, 0, 0>> >>]
 @@ c2 :> [position |-> <<0, 0, 0>>, rotation |-> [i \in Axes |-> [j \in Axes |-> 0]]]
=============================================================================
