------------------------------ MODULE Geometry ------------------------------
(***************************************************************************)
(* geometry.py: the poses of cameras and the turn between a camera's body  *)
(* and its optical frame.  A rotation is its matrix, a sequence of rows;   *)
(* the entries are integers, which the turn keeps them.  The zero matrix   *)
(* stands for the all-zero quaternion of a message nobody filled in.       *)
(***************************************************************************)
EXTENDS Integers

Axes == 1..3

Vector == [Axes -> Int]

Matrix == [Axes -> [Axes -> Int]]

Pose == [position : Vector, rotation : Matrix]

Identity == << <<1, 0, 0>>, <<0, 1, 0>>, <<0, 0, 1>> >>

Unset(rotation) == \A i, j \in Axes : rotation[i][j] = 0

\* The optical axes as columns, in body coordinates.
BODY_TO_OPTICAL == << <<0, 0, 1>>, <<-1, 0, 0>>, <<0, -1, 0>> >>

Times(m, n) ==
    [i \in Axes |->
        [j \in Axes |-> m[i][1] * n[1][j] + m[i][2] * n[2][j] + m[i][3] * n[3][j]]]

\* The inverse of a rotation.
Transposed(m) == [i \in Axes |-> [j \in Axes |-> m[j][i]]]

from_proto(pose) ==
    [position |-> pose.position,
     rotation |-> IF Unset(pose.rotation) THEN Identity ELSE pose.rotation]

Turned(pose, by) ==
    [position |-> pose.position, rotation |-> Times(pose.rotation, by)]

body_to_optical(pose) == Turned(pose, BODY_TO_OPTICAL)

optical_to_body(pose) == Turned(pose, Transposed(BODY_TO_OPTICAL))

\* What the two frames of one camera have to do with each other: one origin; the
\* optical x is right, y is down, z is the body's x, along the axis.
FramesOfOneCamera(body, optical) ==
    /\ optical.position = body.position
    /\ \A i \in Axes :
          /\ optical.rotation[i][1] = -body.rotation[i][2]
          /\ optical.rotation[i][2] = -body.rotation[i][3]
          /\ optical.rotation[i][3] = body.rotation[i][1]
=============================================================================
