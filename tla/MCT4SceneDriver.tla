--------------------------- MODULE MCT4SceneDriver ---------------------------
(***************************************************************************)
(* Requests for model-checking T4SceneDriver: sessions of one uuid, drives *)
(* without a scene and on two maps, of which the store has room for one.   *)
(***************************************************************************)
EXTENDS T4SceneDriver, TLC

CONSTANTS u1, map1, map2, off

T4Drive(payload) == [rpc |-> "drive", uuid |-> u1, now |-> 1, payload |-> payload]

SceneRequests ==
    {[rpc |-> "start_session", uuid |-> u1, supported |-> TRUE, cameras |-> {}],
     [rpc |-> "close_session", uuid |-> u1], T4Drive(None)}
    \cup {T4Drive([lidar |-> <<>>, map |-> m]) : m \in {map1, map2}}

CallSymmetry == Permutations(Calls)
=============================================================================
