---------------------------- MODULE MCServerStop ----------------------------
(***************************************************************************)
(* Requests for model-checking ServerStop: sessions, an egomotion batch    *)
(* whose hook takes the session's lock, and a drive on a map.              *)
(***************************************************************************)
EXTENDS ServerStop

CONSTANTS u1, map1, off

AnyRequest ==
    {[rpc |-> "start_session", uuid |-> u1, supported |-> TRUE, cameras |-> {}],
     [rpc |-> "submit_egomotion", uuid |-> u1, poses |-> <<1>>, states |-> "absent"],
     [rpc |-> "drive", uuid |-> u1, now |-> 1,
      payload |-> [lidar |-> <<>>, map |-> map1]]}
=============================================================================
