------------------------ MODULE MCEgodriverServicer ------------------------
(***************************************************************************)
(* Request mixes for model-checking EgodriverServicer: each run lets the   *)
(* clients send the few requests its question is about, in any order and   *)
(* on as many threads as there are calls.                                  *)
(***************************************************************************)
EXTENDS EgodriverServicer, TLC

CONSTANTS u1, cam, roof, map1, off, left, bad

Start(supported) ==
    [rpc |-> "start_session", uuid |-> u1, supported |-> supported,
     cameras |-> {cam}]

Close == [rpc |-> "close_session", uuid |-> u1]

Command == [rpc |-> "get_vehicle_command", uuid |-> u1]

Image(k) ==
    [rpc |-> "submit_image", uuid |-> u1, frame |-> [sensor |-> k, time |-> 1]]

Egomotion(poses, sent) ==
    [rpc |-> "submit_egomotion", uuid |-> u1, poses |-> poses, states |-> sent]

Route(t) == [rpc |-> "submit_route", uuid |-> u1, time |-> t]

GroundTruth(t) == [rpc |-> "submit_ground_truth", uuid |-> u1, time |-> t]

Drive(now) == [rpc |-> "drive", uuid |-> u1, now |-> now, payload |-> None]

DriveOn(now, lidar, map) ==
    [rpc |-> "drive", uuid |-> u1, now |-> now,
     payload |-> [lidar |-> lidar, map |-> map]]

Sweep(t) == [sensor |-> roof, time |-> t]

\* Sessions started, refused, observed and closed under one uuid, over and over, by
\* frames of cameras declared and not and by drives that bring LiDAR sweeps.
RegistryRequests ==
    {Start(TRUE), Start(FALSE), Close, Route(1), GroundTruth(2), Image(cam),
     Image(roof), DriveOn(1, <<Sweep(1), Sweep(2)>>, None)}

\* Drives at several planning times, one of them on a map, next to batches of the
\* poses they are anchored at: batches that overlap, go back in time or come with
\* the wrong number of dynamic states.
DriveRequests ==
    {Start(TRUE), Drive(0), DriveOn(2, <<>>, map1), Command,
     Egomotion(<<1, 2>>, "paired"), Egomotion(<<2, 1, 3>>, "absent"),
     Egomotion(<<1>>, "mismatched")}

\* A drive at the time of one pose while the next one lands.
AnchorRequests ==
    {Start(TRUE), Egomotion(<<1>>, "absent"), Egomotion(<<2>>, "absent"), Drive(1)}

\* Sessions started over one another's rejection.
RejectionRequests == {Start(TRUE), Close}

CallSymmetry == Permutations(Calls)
=============================================================================
