---------------------- MODULE EgodriverServicerProofs ----------------------
(***************************************************************************)
(* Theorems about EgodriverServicer, for any number of calls, sessions,    *)
(* sensors, maps and worker threads.                                       *)
(***************************************************************************)
EXTENDS EgodriverServicer, TLAPS, SequenceTheorems

\* What each request carries.
LEMMA RequestTypes ==
    ASSUME NEW r \in Request
    PROVE  /\ r.uuid \in Uuids
           /\ r.rpc = "start_session" => r.cameras \in SUBSET Sensors
           /\ r.rpc = "submit_image" => r.frame \in Frame
           /\ r.rpc = "submit_egomotion" => r.poses \in Seq(Times)
           /\ r.rpc \in {"submit_route", "submit_ground_truth"} => r.time \in Times
           /\ r.rpc = "drive" => r.now \in Times /\ r.payload \in Payload \cup {None}
  BY DEF Request

\* Trimming a history keeps frames it had, and at most n of them.
LEMMA TrimType ==
    ASSUME NEW h \in Seq(Times)
    PROVE  Trim(h) \in Seq(Times)
  <1>1. FrameHistoryLength \in Int
    BY ServicerAssumption
  <1> DEFINE n == IF FrameHistoryLength > 1 THEN FrameHistoryLength ELSE 1
  <1>2. n \in Nat /\ n > 0
    BY <1>1
  <1>3. Len(h) > n => SubSeq(h, Len(h) - n + 1, Len(h)) \in Seq(Times)
    BY <1>2
  <1>4. QED
    BY <1>2, <1>3 DEF Trim, Trimmed

-----------------------------------------------------------------------------
(* How calls, session objects and locks hang together                      *)

Busy == {"found", "landing", "halfway", "announce", "policy", "reject", "opening",
         "plan", "planning", "commit"}

\* What a call has, by where its handler is.
CallOK(c) ==
    /\ pc[c] # "unborn" => req[c] \in Requests
    /\ pc[c] \in {"unborn", "arrived"} => obj[c] = None /\ step[c] = 0
    /\ pc[c] \in Busy => obj[c] \in Calls
    /\ pc[c] \in {"landing", "halfway"} => req[c].rpc = "submit_egomotion"
    /\ pc[c] = "landing" => step[c] <= Len(req[c].poses)
    /\ pc[c] = "halfway" => step[c] < Len(req[c].poses)
    /\ pc[c] = "found" /\ req[c].rpc = "submit_egomotion" => step[c] = 0
    /\ pc[c] \in {"opening", "plan", "planning", "commit"} => req[c].rpc = "drive"
    /\ pc[c] = "reject" => req[c].rpc = "start_session"
    /\ pc[c] \notin {"commit", "done"} => decided[c] = None
    /\ pc[c] = "commit" => decided[c] # None

CallWiring == \A c \in Calls : CallOK(c)

\* Every object is the one its own start_session created.
ObjectWiring ==
    /\ \A c \in Calls : obj[c] # None =>
          obj[obj[c]] = obj[c] /\ Is(obj[c], "start_session")
    /\ \A c \in Calls : obj[c] # None /\ Is(c, "start_session") => obj[c] = c
    /\ \A u \in Uuids : sessions[u] # None =>
          /\ obj[sessions[u]] = sessions[u]
          /\ Is(sessions[u], "start_session") /\ req[sessions[u]].uuid = u

\* A session's lock is held by a call on that session, landing a batch or inside
\* the policy.
LockWiring ==
    /\ \A s \in Calls : lock[s] # None =>
          obj[lock[s]] = s /\ pc[lock[s]] \in {"landing", "halfway", "policy", "planning"}
    /\ \A c \in Calls : pc[c] \in {"landing", "halfway"} => lock[obj[c]] = c

Wiring == TypeOK /\ CallWiring /\ ObjectWiring /\ LockWiring

LEMMA WiringInit == Init => Wiring
  BY ServicerAssumption DEF Init, Wiring, TypeOK, CallWiring, CallOK, ObjectWiring, LockWiring,
     Busy, Places, SessionState, NewSession, Commands, Is

\* What the handlers may assume of the request they serve.
LEMMA Serving ==
    ASSUME Wiring, NEW c \in Calls, pc[c] # "unborn"
    PROVE  /\ req[c] \in Request /\ req[c] # None
           /\ req[c].uuid \in Uuids
           /\ req[c].rpc = "start_session" => req[c].cameras \in SUBSET Sensors
           /\ req[c].rpc = "submit_image" => req[c].frame \in Frame
           /\ req[c].rpc = "submit_egomotion" => req[c].poses \in Seq(Times)
           /\ req[c].rpc \in {"submit_route", "submit_ground_truth"} =>
                 req[c].time \in Times
           /\ req[c].rpc = "drive" =>
                 req[c].now \in Times /\ req[c].payload \in Payload \cup {None}
  <1>1. req[c] \in Requests
    BY DEF Wiring, CallWiring, CallOK
  <1>2. req[c] \in Request /\ req[c] # None
    BY <1>1, ServicerAssumption
  <1>3. QED
    BY <1>2, RequestTypes

\* The sweeps of a drive are frames.
LEMMA SweepsType ==
    ASSUME Wiring, NEW c \in Calls, pc[c] # "unborn", req[c].rpc = "drive"
    PROVE  /\ Sweeps(c) \in Seq(Frame)
           /\ MapId(c) \in MapIds \cup {None}
  <1>1. req[c].payload \in Payload \cup {None}
    BY Serving
  <1>2. RendererData(c) \in Payload \cup {None}
    BY <1>1 DEF RendererData
  <1>3. QED
    BY <1>2, ServicerAssumption DEF Sweeps, MapId, Payload

\* The pose a handler is at is one of its batch's.
LEMMA PoseType ==
    ASSUME Wiring, NEW c \in Calls,
           \/ pc[c] = "landing" /\ step[c] < Len(req[c].poses)
           \/ pc[c] = "halfway"
    PROVE  Pose(c) \in Times
  <1>1. req[c].rpc = "submit_egomotion" /\ req[c].poses \in Seq(Times)
    BY Serving DEF Wiring, CallWiring, CallOK
  <1>2. step[c] \in Nat /\ step[c] < Len(req[c].poses)
    BY DEF Wiring, TypeOK, CallWiring, CallOK
  <1>3. step[c] + 1 \in 1..Len(req[c].poses)
    BY <1>1, <1>2
  <1>4. QED
    BY <1>1, <1>3 DEF Pose

\* A handler past _require_session works on a session object.
LEMMA ObjectType ==
    ASSUME Wiring, NEW c \in Calls, pc[c] \in Busy
    PROVE  obj[c] \in Calls /\ session[obj[c]] \in SessionState
  BY DEF Wiring, CallWiring, CallOK, TypeOK

\* A plan is anchored at a pose of the timeline.
LEMMA PlanType ==
    ASSUME NEW now \in Times, NEW timeline \in Seq(Times)
    PROVE  PlanFrom(now, timeline) \in Plans \cup {None}
  <1>1. timeline # <<>> => Last(timeline) \in Times
    BY DEF Last
  <1>2. QED
    BY <1>1 DEF PlanFrom, Plans

\* Recording a frame keeps session objects well typed.
LEMMA RecordType ==
    ASSUME Wiring, NEW s \in Calls, NEW f \in Frame, RecordFrame(s, f)
    PROVE  session' \in [Calls -> SessionState]
  <1> DEFINE old == session[s].frames[f.sensor]
  <1>1. session[s] \in SessionState /\ f.sensor \in Sensors /\ f.time \in Times
    BY DEF Wiring, TypeOK, Frame
  <1>2. old \in Seq(Times)
    BY <1>1 DEF SessionState
  <1>3. Trim(Append(old, f.time)) \in Seq(Times)
    <2>1. Append(old, f.time) \in Seq(Times)
      BY <1>1, <1>2
    <2>2. QED
      BY <2>1, TrimType
  <1>4. session' = [session EXCEPT ![s].frames[f.sensor] = Trim(Append(old, f.time))]
    BY <1>1, <1>2 DEF RecordFrame, Wiring, TypeOK, SessionState
  <1>5. QED
    BY <1>1, <1>3, <1>4 DEF Wiring, TypeOK, SessionState

\* Recording a frame changes nothing else of a session.
LEMMA RecordKeeps ==
    ASSUME Wiring, NEW s \in Calls, NEW f \in Frame, RecordFrame(s, f)
    PROVE  \A t \in Calls : /\ session'[t].command = session[t].command
                            /\ session'[t].ego = session[t].ego
                            /\ session'[t].states = session[t].states
  BY DEF RecordFrame, Wiring, TypeOK, SessionState

\* Every step keeps every variable in its type.
LEMMA TypeStep == Wiring /\ [Next]_vars => TypeOK'
  <1> SUFFICES ASSUME Wiring, [Next]_vars PROVE TypeOK'
    OBVIOUS
  <1> USE ServicerAssumption DEF TypeOK, Wiring, servicer, arrival, locals, GoTo, Answer
  <1>1. CASE UNCHANGED vars
    BY <1>1 DEF vars
  <1>2. ASSUME NEW c \in Calls, Arrive(c) PROVE TypeOK'
    BY <1>2 DEF Arrive, Places, Answered
  <1>3. ASSUME NEW c \in Calls, RefuseStart(c) PROVE TypeOK'
    <2>1. pc' \in [Calls -> Places]
      BY <1>3 DEF RefuseStart, Places
    <2>2. reply' \in [Calls -> Replies \cup {None}]
      BY <1>3 DEF RefuseStart, Replies, Statuses
    <2>3. QED
      BY <1>3, <2>1, <2>2 DEF RefuseStart
  <1>4. ASSUME NEW c \in Calls, Register(c) PROVE TypeOK'
    <2>1. pc[c] # "unborn" /\ req[c].uuid \in Uuids /\ req[c].cameras \in SUBSET Sensors
      BY <1>4, Serving DEF Register, Is
    <2>2. NewSession(req[c].cameras) \in SessionState
      BY <2>1 DEF NewSession, SessionState, Commands
    <2>3. QED
      BY <1>4, <2>1, <2>2 DEF Register, Places
  <1>5. ASSUME NEW c \in Calls, RejectStart(c) PROVE TypeOK'
    BY <1>5 DEF RejectStart, WithoutSession, Places, Replies, Statuses
  <1>6. ASSUME NEW c \in Calls, CloseSession(c) PROVE TypeOK'
    <2>1. sessions[req[c].uuid] \in Calls \cup {None}
      BY <1>6, Serving DEF CloseSession
    <2>2. sessions' \in [Uuids -> Calls \cup {None}]
      BY <1>6 DEF CloseSession, WithoutSession
    <2>3. obj' \in [Calls -> Calls \cup {None}]
      BY <1>6, <2>1 DEF CloseSession
    <2>4. pc' \in [Calls -> Places] /\ reply' \in [Calls -> Replies \cup {None}]
      BY <1>6 DEF CloseSession, Places, Replies, Statuses
    <2>5. QED
      BY <1>6, <2>2, <2>3, <2>4 DEF CloseSession
  <1>7. ASSUME NEW c \in Calls, RequireSession(c) PROVE TypeOK'
    <2>1. sessions[req[c].uuid] \in Calls \cup {None}
      BY <1>7, Serving DEF RequireSession
    <2>2. QED
      BY <1>7, <2>1 DEF RequireSession, Places, Replies, Statuses
  <1>8. ASSUME NEW c \in Calls, SubmitImage(c) PROVE TypeOK'
    <2>1. obj[c] \in Calls /\ req[c].frame \in Frame
      BY <1>8, Serving DEF SubmitImage, CallWiring, CallOK, Busy, Is
    <2>2. session' \in [Calls -> SessionState]
      BY <1>8, <2>1, RecordType DEF SubmitImage
    <2>3. pc' \in [Calls -> Places]
      BY <1>8 DEF SubmitImage, Places
    <2>4. reply' \in [Calls -> Replies \cup {None}]
      BY <1>8 DEF SubmitImage, Replies, Statuses
    <2>5. QED
      BY <1>8, <2>2, <2>3, <2>4 DEF SubmitImage
  <1>9. ASSUME NEW c \in Calls, BeginEgomotion(c) PROVE TypeOK'
    <2>1. pc' \in [Calls -> Places]
      BY <1>9 DEF BeginEgomotion, Places
    <2>2. lock' \in [Calls -> Calls \cup {None}]
      BY <1>9 DEF BeginEgomotion
    <2>3. reply' \in [Calls -> Replies \cup {None}]
      BY <1>9 DEF BeginEgomotion, Replies, Statuses
    <2>4. QED
      BY <1>9, <2>1, <2>2, <2>3 DEF BeginEgomotion
  <1>10. ASSUME NEW c \in Calls, SkipPose(c) PROVE TypeOK'
    BY <1>10 DEF SkipPose
  <1>11. ASSUME NEW c \in Calls, LandPose(c) PROVE TypeOK'
    <2>1. Pose(c) \in Times /\ session[obj[c]] \in SessionState
      BY <1>11, PoseType, ObjectType DEF LandPose, Busy
    <2>2. Append(session[obj[c]].ego, Pose(c)) \in Seq(Times)
      BY <2>1 DEF SessionState
    <2>3. session' \in [Calls -> SessionState]
      BY <1>11, <2>1, <2>2 DEF LandPose, SessionState
    <2>4. QED
      BY <1>11, <2>3 DEF LandPose, Places
  <1>12. ASSUME NEW c \in Calls, LandState(c) PROVE TypeOK'
    <2>1. StateOf(c) \in Times \cup {None} /\ session[obj[c]] \in SessionState
      BY <1>12, PoseType, ObjectType DEF LandState, StateOf, Busy
    <2>2. Append(session[obj[c]].states, StateOf(c)) \in Seq(Times \cup {None})
      BY <2>1 DEF SessionState
    <2>3. session' \in [Calls -> SessionState]
      BY <1>12, <2>1, <2>2 DEF LandState, SessionState
    <2>4. step' \in [Calls -> Nat]
      BY <1>12 DEF LandState
    <2>5. QED
      BY <1>12, <2>3, <2>4 DEF LandState, Places
  <1>13. ASSUME NEW c \in Calls, EndEgomotion(c) PROVE TypeOK'
    BY <1>13 DEF EndEgomotion, Places
  <1>14. ASSUME NEW c \in Calls, SubmitRoute(c) PROVE TypeOK'
    <2>1. req[c].time \in Times /\ session[obj[c]] \in SessionState
      BY <1>14, Serving, ObjectType DEF SubmitRoute, Is, Busy
    <2>2. session' \in [Calls -> SessionState]
      BY <1>14, <2>1 DEF SubmitRoute, Target, SessionState
    <2>3. QED
      BY <1>14, <2>2 DEF SubmitRoute, Places
  <1>15. ASSUME NEW c \in Calls, SubmitGroundTruth(c) PROVE TypeOK'
    <2>1. req[c].time \in Times /\ session[obj[c]] \in SessionState
      BY <1>15, Serving, ObjectType DEF SubmitGroundTruth, Is, Busy
    <2>2. session' \in [Calls -> SessionState]
      BY <1>15, <2>1 DEF SubmitGroundTruth, Target, SessionState
    <2>3. QED
      BY <1>15, <2>2 DEF SubmitGroundTruth, Places
  <1>16. ASSUME NEW c \in Calls, RecordSweep(c) PROVE TypeOK'
    <2>1. obj[c] \in Calls /\ Sweeps(c) \in Seq(Frame)
      BY <1>16, SweepsType DEF RecordSweep, CallWiring, CallOK, Busy, Is
    <2>2. step[c] + 1 \in 1..Len(Sweeps(c))
      BY <1>16, <2>1 DEF RecordSweep
    <2>3. session' \in [Calls -> SessionState]
      BY <1>16, <2>1, <2>2, RecordType DEF RecordSweep
    <2>4. step' \in [Calls -> Nat]
      BY <1>16 DEF RecordSweep
    <2>5. QED
      BY <1>16, <2>3, <2>4 DEF RecordSweep, Places
  <1>17. ASSUME NEW c \in Calls, GetMap(c) PROVE TypeOK'
    <2>1. MapId(c) \in MapIds \cup {None}
      BY <1>17, SweepsType DEF GetMap, Is
    <2>2. MapId(c) # None => maps[MapId(c)] \in Calls \cup {None}
      BY <2>1
    <2>3. mapset' \in [Calls -> Calls \cup {None}]
      BY <1>17, <2>2 DEF GetMap
    <2>4. GoTo(c, "plan") \/ GoTo(c, "opening")
      BY <1>17 DEF GetMap
    <2>5. pc' \in [Calls -> Places]
      BY <2>4 DEF Places
    <2>6. QED
      BY <1>17, <2>3, <2>5 DEF GetMap
  <1>18. ASSUME NEW c \in Calls, OpenMap(c) PROVE TypeOK'
    <2>1. maps' \in [MapIds -> Calls \cup {None}]
      BY <1>18 DEF OpenMap
    <2>2. mapset' \in [Calls -> Calls \cup {None}]
      BY <1>18 DEF OpenMap
    <2>3. pc' \in [Calls -> Places] /\ reply' \in [Calls -> Replies \cup {None}]
      BY <1>18 DEF OpenMap, Places, Replies, Statuses
    <2>4. QED
      BY <1>18, <2>1, <2>2, <2>3 DEF OpenMap
  <1>19. ASSUME NEW c \in Calls, Commit(c) PROVE TypeOK'
    <2>1. obj[c] \in Calls /\ session[obj[c]] \in SessionState /\ req[c].now \in Times
      BY <1>19, ObjectType, Serving DEF Commit, CallWiring, CallOK, Busy
    <2> DEFINE old == session[obj[c]]
               cmd == IF Supersedes(req[c].now, old.command)
                      THEN [time |-> req[c].now, indicator |-> decided[c]]
                      ELSE old.command
    <2>0. decided[c] \in Indicators
      BY <1>19 DEF Commit, CallWiring, CallOK
    <2>2. cmd \in Commands /\ old.driveCount + 1 \in Nat
      BY <2>0, <2>1 DEF SessionState, Commands
    <2>3. session' = [session EXCEPT ![obj[c]] =
                        [old EXCEPT !.driveCount = old.driveCount + 1, !.command = cmd]]
      BY <1>19, <2>1 DEF Commit, SessionState
    <2>4. session' \in [Calls -> SessionState]
      BY <2>1, <2>2, <2>3 DEF SessionState
    <2>5. PlanFrom(req[c].now, old.ego) \in Plans \cup {None}
      BY <2>1, PlanType DEF SessionState
    <2>6. /\ UNCHANGED <<servicer, lock, arrival, locals>>
          /\ pc' = [pc EXCEPT ![c] = "done"]
          /\ \E body \in Plans \cup {None}, status \in {"OK", "UNKNOWN"} :
                reply' = [reply EXCEPT ![c] = [status |-> status, body |-> body]]
      BY <1>19, <2>5 DEF Commit
    <2>7. reply' \in [Calls -> Replies \cup {None}]
      BY <2>6 DEF Replies, Statuses
    <2>8. QED
      BY <2>4, <2>6, <2>7 DEF Places
  <1>20. ASSUME NEW c \in Calls, GetVehicleCommand(c) PROVE TypeOK'
    <2>1. session[obj[c]].command \in Commands
      BY <1>20 DEF GetVehicleCommand, CallWiring, CallOK, Busy, SessionState
    <2>2. QED
      BY <1>20, <2>1 DEF GetVehicleCommand, Places, Replies, Statuses
  <1>21. ASSUME NEW c \in Calls, CallPolicy(c) PROVE TypeOK'
    BY <1>21 DEF CallPolicy, Places
  <1>22. ASSUME NEW c \in Calls, PolicyLocks(c) PROVE TypeOK'
    BY <1>22 DEF PolicyLocks
  <1>23. ASSUME NEW c \in Calls, PolicyUnlocks(c) PROVE TypeOK'
    BY <1>23 DEF PolicyUnlocks
  <1>24. ASSUME NEW c \in Calls, HookReturns(c) PROVE TypeOK'
    BY <1>24 DEF HookReturns, Places, Replies, Statuses
  <1>25. ASSUME NEW c \in Calls, HookRaises(c) PROVE TypeOK'
    BY <1>25 DEF HookRaises, Places, Replies, Statuses
  <1>26. ASSUME NEW c \in Calls, DriveReturns(c) PROVE TypeOK'
    BY <1>26 DEF DriveReturns, TurnIndicator, Places
  <1>27. ASSUME NEW c \in Calls, DriveRaises(c) PROVE TypeOK'
    BY <1>27 DEF DriveRaises, Places, Replies, Statuses
  <1>28. QED
    BY <1>1, <1>2, <1>3, <1>4, <1>5, <1>6, <1>7, <1>8, <1>9, <1>10, <1>11, <1>12,
       <1>13, <1>14, <1>15, <1>16, <1>17, <1>18, <1>19, <1>20, <1>21, <1>22, <1>23,
       <1>24, <1>25, <1>26, <1>27 DEF Next, Serve, PolicyReturns, Idle

-----------------------------------------------------------------------------
(* The wiring is kept                                                      *)

\* A step of one call leaves the locals of the others alone.
OthersStand(c) ==
    \A k \in Calls \ {c} :
        /\ pc'[k] = pc[k] /\ req'[k] = req[k] /\ obj'[k] = obj[k] /\ step'[k] = step[k]
        /\ decided'[k] = decided[k] /\ mapset'[k] = mapset[k] /\ reply'[k] = reply[k]

StepOf(c) ==
    \/ Arrive(c) \/ Serve(c) \/ PolicyLocks(c) \/ PolicyUnlocks(c) \/ PolicyReturns(c)

LEMMA Others ==
    ASSUME TypeOK, NEW c \in Calls, StepOf(c)
    PROVE  OthersStand(c)
  <1> USE DEF TypeOK, servicer, arrival, locals, GoTo, Answer, OthersStand
  <1>1. CASE Arrive(c)
    BY <1>1 DEF Arrive
  <1>2. CASE RefuseStart(c)
    BY <1>2 DEF RefuseStart
  <1>3. CASE Register(c)
    BY <1>3 DEF Register
  <1>4. CASE RejectStart(c)
    BY <1>4 DEF RejectStart
  <1>5. CASE CloseSession(c)
    BY <1>5 DEF CloseSession
  <1>6. CASE RequireSession(c)
    BY <1>6 DEF RequireSession
  <1>7. CASE SubmitImage(c)
    BY <1>7 DEF SubmitImage
  <1>8. CASE BeginEgomotion(c)
    BY <1>8 DEF BeginEgomotion
  <1>9. CASE SkipPose(c)
    BY <1>9 DEF SkipPose
  <1>10. CASE LandPose(c)
    BY <1>10 DEF LandPose
  <1>11. CASE LandState(c)
    BY <1>11 DEF LandState
  <1>12. CASE EndEgomotion(c)
    BY <1>12 DEF EndEgomotion
  <1>13. CASE SubmitRoute(c)
    BY <1>13 DEF SubmitRoute
  <1>14. CASE SubmitGroundTruth(c)
    BY <1>14 DEF SubmitGroundTruth
  <1>15. CASE RecordSweep(c)
    BY <1>15 DEF RecordSweep
  <1>16. CASE GetMap(c)
    BY <1>16 DEF GetMap
  <1>17. CASE OpenMap(c)
    BY <1>17 DEF OpenMap
  <1>18. CASE Commit(c)
    BY <1>18 DEF Commit
  <1>19. CASE GetVehicleCommand(c)
    BY <1>19 DEF GetVehicleCommand
  <1>20. CASE CallPolicy(c)
    BY <1>20 DEF CallPolicy
  <1>21. CASE PolicyLocks(c)
    BY <1>21 DEF PolicyLocks
  <1>22. CASE PolicyUnlocks(c)
    BY <1>22 DEF PolicyUnlocks
  <1>23. CASE HookReturns(c)
    BY <1>23 DEF HookReturns
  <1>24. CASE HookRaises(c)
    BY <1>24 DEF HookRaises
  <1>25. CASE DriveReturns(c)
    BY <1>25 DEF DriveReturns
  <1>26. CASE DriveRaises(c)
    BY <1>26 DEF DriveRaises
  <1>27. QED
    BY <1>1, <1>2, <1>3, <1>4, <1>5, <1>6, <1>7, <1>8, <1>9, <1>10, <1>11, <1>12,
       <1>13, <1>14, <1>15, <1>16, <1>17, <1>18, <1>19, <1>20, <1>21, <1>22, <1>23,
       <1>24, <1>25, <1>26 DEF StepOf, Serve, PolicyReturns

\* A handler moves on to the next pose of its batch.
LEMMA NextPose ==
    ASSUME Wiring, NEW c \in Calls,
           step[c] \in Nat, Len(req[c].poses) \in Nat, step[c] < Len(req[c].poses),
           pc[c] \in {"landing", "halfway"}, pc'[c] = "landing",
           step'[c] = step[c] + 1, req'[c] = req[c], obj'[c] = obj[c],
           decided'[c] = decided[c]
    PROVE  CallOK(c)'
  <1>1. CallOK(c)
    BY DEF Wiring, CallWiring
  <1>2. QED
    BY <1>1 DEF CallOK, Busy

LEMMA CallStep ==
    ASSUME Wiring, NEW c \in Calls, StepOf(c)
    PROVE  CallWiring'
  <1> USE DEF TypeOK, Wiring, CallWiring, CallOK, Busy, servicer, arrival, locals, GoTo,
          Answer, Is
  <1>1. ASSUME Arrive(c) PROVE CallOK(c)'
    BY <1>1 DEF Arrive
  <1>2. ASSUME RefuseStart(c) PROVE CallOK(c)'
    BY <1>2 DEF RefuseStart
  <1>3. ASSUME Register(c) PROVE CallOK(c)'
    BY <1>3 DEF Register
  <1>4. ASSUME RejectStart(c) PROVE CallOK(c)'
    BY <1>4 DEF RejectStart
  <1>5. ASSUME CloseSession(c) PROVE CallOK(c)'
    <2>1. sessions[req[c].uuid] \in Calls \cup {None}
      BY <1>5, Serving DEF CloseSession
    <2>2. QED
      BY <1>5, <2>1, ServicerAssumption DEF CloseSession
  <1>6. ASSUME RequireSession(c) PROVE CallOK(c)'
    <2>1. sessions[req[c].uuid] \in Calls \cup {None}
      BY <1>6, Serving DEF RequireSession
    <2>2. QED
      BY <1>6, <2>1, ServicerAssumption DEF RequireSession
  <1>7. ASSUME SubmitImage(c) PROVE CallOK(c)'
    BY <1>7 DEF SubmitImage
  <1>8. ASSUME BeginEgomotion(c) PROVE CallOK(c)'
    <2>1. req[c].poses \in Seq(Times)
      BY <1>8, Serving DEF BeginEgomotion
    <2>2. QED
      BY <1>8, <2>1 DEF BeginEgomotion
  <1>9. ASSUME SkipPose(c) PROVE CallOK(c)'
    <2>1. req[c].poses \in Seq(Times)
      BY <1>9, Serving DEF SkipPose
    <2>2. step[c] \in Nat /\ step[c] < Len(req[c].poses) /\ Len(req[c].poses) \in Nat
      BY <1>9, <2>1 DEF SkipPose
    <2>3. /\ pc[c] = "landing" /\ pc'[c] = "landing" /\ step'[c] = step[c] + 1
          /\ req'[c] = req[c] /\ obj'[c] = obj[c] /\ decided'[c] = decided[c]
      BY <1>9 DEF SkipPose
    <2>4. QED
      BY <2>2, <2>3, NextPose
  <1>10. ASSUME LandPose(c) PROVE CallOK(c)'
    BY <1>10 DEF LandPose
  <1>11. ASSUME LandState(c) PROVE CallOK(c)'
    <2>1. req[c].poses \in Seq(Times)
      BY <1>11, Serving DEF LandState
    <2>2. step[c] \in Nat /\ step[c] < Len(req[c].poses) /\ Len(req[c].poses) \in Nat
      BY <1>11, <2>1 DEF LandState
    <2>3. /\ pc[c] = "halfway" /\ pc'[c] = "landing" /\ step'[c] = step[c] + 1
          /\ req'[c] = req[c] /\ obj'[c] = obj[c] /\ decided'[c] = decided[c]
      BY <1>11 DEF LandState
    <2>4. QED
      BY <2>2, <2>3, NextPose
  <1>12. ASSUME EndEgomotion(c) PROVE CallOK(c)'
    BY <1>12 DEF EndEgomotion
  <1>13. ASSUME SubmitRoute(c) PROVE CallOK(c)'
    BY <1>13 DEF SubmitRoute
  <1>14. ASSUME SubmitGroundTruth(c) PROVE CallOK(c)'
    BY <1>14 DEF SubmitGroundTruth
  <1>15. ASSUME RecordSweep(c) PROVE CallOK(c)'
    BY <1>15 DEF RecordSweep
  <1>16. ASSUME GetMap(c) PROVE CallOK(c)'
    BY <1>16 DEF GetMap
  <1>17. ASSUME OpenMap(c) PROVE CallOK(c)'
    BY <1>17 DEF OpenMap
  <1>18. ASSUME Commit(c) PROVE CallOK(c)'
    BY <1>18 DEF Commit
  <1>19. ASSUME GetVehicleCommand(c) PROVE CallOK(c)'
    BY <1>19 DEF GetVehicleCommand
  <1>20. ASSUME CallPolicy(c) PROVE CallOK(c)'
    BY <1>20 DEF CallPolicy
  <1>21. ASSUME PolicyLocks(c) PROVE CallOK(c)'
    BY <1>21 DEF PolicyLocks
  <1>22. ASSUME PolicyUnlocks(c) PROVE CallOK(c)'
    BY <1>22 DEF PolicyUnlocks
  <1>23. ASSUME HookReturns(c) PROVE CallOK(c)'
    BY <1>23 DEF HookReturns
  <1>24. ASSUME HookRaises(c) PROVE CallOK(c)'
    BY <1>24 DEF HookRaises
  <1>25. ASSUME DriveReturns(c) PROVE CallOK(c)'
    <2>1. \A value \in PolicyIndicators : TurnIndicator(value) \in Indicators
      BY ServicerAssumption DEF TurnIndicator
    <2>2. decided'[c] # None
      BY <1>25, <2>1, ServicerAssumption DEF DriveReturns
    <2>3. QED
      BY <1>25, <2>2 DEF DriveReturns
  <1>26. ASSUME DriveRaises(c) PROVE CallOK(c)'
    BY <1>26 DEF DriveRaises
  <1>27. CallOK(c)'
    BY <1>1, <1>2, <1>3, <1>4, <1>5, <1>6, <1>7, <1>8, <1>9, <1>10, <1>11, <1>12,
       <1>13, <1>14, <1>15, <1>16, <1>17, <1>18, <1>19, <1>20, <1>21, <1>22, <1>23,
       <1>24, <1>25, <1>26 DEF StepOf, Serve, PolicyReturns
  <1>28. OthersStand(c)
    BY Others
  <1>29. QED
    BY <1>27, <1>28 DEF OthersStand

\* Only these steps change the registry, a request or which object a call has.
LEMMA ObjectStands ==
    ASSUME Wiring, NEW c \in Calls, StepOf(c),
           ~Arrive(c), ~Register(c), ~RejectStart(c), ~CloseSession(c), ~RequireSession(c)
    PROVE  UNCHANGED <<sessions, req, obj>>
  BY DEF StepOf, Serve, PolicyReturns, servicer, arrival, locals, RefuseStart,
     SubmitImage, BeginEgomotion, SkipPose, LandPose, LandState, EndEgomotion, SubmitRoute,
     SubmitGroundTruth, RecordSweep, GetMap, OpenMap, Commit, GetVehicleCommand, CallPolicy,
     PolicyLocks, PolicyUnlocks, HookReturns, HookRaises, DriveReturns, DriveRaises

LEMMA ObjectStep ==
    ASSUME Wiring, NEW c \in Calls, StepOf(c)
    PROVE  ObjectWiring'
  <1> USE DEF TypeOK, Wiring, ObjectWiring, servicer, arrival, locals, GoTo, Answer, Is
  <1>0. None \notin Calls
    BY ServicerAssumption
  <1>1. CASE Arrive(c)
    <2>1. pc[c] = "unborn" /\ obj[c] = None /\ \A k \in Calls : obj[k] # c
      BY <1>0, <1>1 DEF Arrive, CallWiring, CallOK
    <2>2. \A u \in Uuids : sessions[u] # c
      BY <1>0, <2>1
    <2>3. UNCHANGED <<sessions, obj>> /\ \A k \in Calls \ {c} : req'[k] = req[k]
      BY <1>1 DEF Arrive
    <2>4. QED
      BY <2>1, <2>2, <2>3
  <1>2. CASE Register(c)
    <2>0. obj[c] = None
      BY <1>2 DEF Register, CallWiring, CallOK
    <2>1. obj[c] = None /\ \A k \in Calls : obj[k] # c
      BY <1>0, <2>0
    <2>2. \A u \in Uuids : sessions[u] # c
      BY <1>0, <2>1
    <2>3. /\ req' = req /\ obj' = [obj EXCEPT ![c] = c]
          /\ sessions' = [sessions EXCEPT ![req[c].uuid] = c]
          /\ req[c] # None /\ req[c].rpc = "start_session"
      BY <1>2 DEF Register
    <2>4. QED
      BY <2>1, <2>2, <2>3
  <1>3. CASE RejectStart(c)
    BY <1>3 DEF RejectStart, WithoutSession
  <1>4. CASE CloseSession(c)
    <2>1. req[c].uuid \in Uuids /\ obj[c] = None /\ \A k \in Calls : obj[k] # c
      BY <1>0, <1>4, Serving, ZenonT(60) DEF CloseSession, CallWiring, CallOK
    <2>2. req' = req /\ req[c].rpc = "close_session"
      BY <1>4 DEF CloseSession
    <2>3. obj' = [obj EXCEPT ![c] = sessions[req[c].uuid]] \/ obj' = obj
      BY <1>4 DEF CloseSession
    <2>4. \A u \in Uuids : sessions'[u] \in {sessions[u], None}
      BY <1>4 DEF CloseSession, WithoutSession
    <2>5. \A u \in Uuids : sessions[u] # c
      BY <1>0, <2>1
    <2>6. QED
      BY <1>0, <2>1, <2>2, <2>3, <2>4, <2>5
  <1>5. CASE RequireSession(c)
    <2>1. req[c].uuid \in Uuids /\ obj[c] = None /\ \A k \in Calls : obj[k] # c
      BY <1>0, <1>5, Serving DEF RequireSession, CallWiring, CallOK
    <2>2. UNCHANGED <<sessions, req>> /\ req[c].rpc # "start_session"
      BY <1>5 DEF RequireSession
    <2>3. obj' = [obj EXCEPT ![c] = sessions[req[c].uuid]] \/ obj' = obj
      BY <1>5 DEF RequireSession
    <2>4. \A u \in Uuids : sessions[u] # c
      BY <1>0, <2>1
    <2>5. QED
      BY <1>0, <2>1, <2>2, <2>3, <2>4
  <1>6. QED
    BY <1>1, <1>2, <1>3, <1>4, <1>5, ObjectStands

\* Only these steps change who holds a session's lock.
LEMMA LockStands ==
    ASSUME Wiring, NEW c \in Calls, StepOf(c),
           ~BeginEgomotion(c), ~EndEgomotion(c), ~PolicyLocks(c), ~PolicyUnlocks(c)
    PROVE  lock' = lock
  BY DEF StepOf, Serve, PolicyReturns, servicer, arrival, locals, Arrive, RefuseStart,
     Register, RejectStart, CloseSession, RequireSession, SubmitImage, SkipPose, LandPose,
     LandState, SubmitRoute, SubmitGroundTruth, RecordSweep, GetMap, OpenMap, Commit,
     GetVehicleCommand, CallPolicy, HookReturns, HookRaises, DriveReturns, DriveRaises

LEMMA LockStep ==
    ASSUME Wiring, NEW c \in Calls, StepOf(c)
    PROVE  LockWiring'
  <1> USE DEF TypeOK, Wiring, LockWiring, servicer, arrival, locals, GoTo, Answer
  <1>0. None \notin Calls /\ CallOK(c) /\ OthersStand(c)
    BY ServicerAssumption, Others DEF CallWiring
  <1>1. CASE Arrive(c)
    BY <1>0, <1>1 DEF Arrive, CallOK, Busy, OthersStand, InPolicy
  <1>2. CASE RefuseStart(c)
    BY <1>0, <1>2 DEF RefuseStart, CallOK, Busy, OthersStand, InPolicy
  <1>3. CASE Register(c)
    BY <1>0, <1>3 DEF Register, CallOK, Busy, OthersStand, InPolicy
  <1>4. CASE RejectStart(c)
    BY <1>0, <1>4 DEF RejectStart, CallOK, Busy, OthersStand, InPolicy
  <1>5. CASE CloseSession(c)
    BY <1>0, <1>5 DEF CloseSession, CallOK, Busy, OthersStand, InPolicy
  <1>6. CASE RequireSession(c)
    BY <1>0, <1>6 DEF RequireSession, CallOK, Busy, OthersStand, InPolicy
  <1>7. CASE SubmitImage(c)
    BY <1>0, <1>7 DEF SubmitImage, CallOK, Busy, OthersStand, InPolicy
  <1>8. CASE BeginEgomotion(c)
    <2>1. obj[c] \in Calls /\ pc[c] = "found" /\ obj' = obj
      BY <1>0, <1>8 DEF BeginEgomotion, CallOK, Busy
    <2>2. CASE lock' = lock /\ pc' = [pc EXCEPT ![c] = "done"]
      BY <1>0, <2>1, <2>2 DEF OthersStand
    <2>3. CASE /\ lock[obj[c]] = None /\ lock' = [lock EXCEPT ![obj[c]] = c]
               /\ pc' = [pc EXCEPT ![c] = "landing"]
      <3>1. \A k \in Calls \ {c} : pc[k] \in {"landing", "halfway"} => obj[k] # obj[c]
        BY <1>0, <2>3
      <3>2. QED
        BY <1>0, <2>1, <2>3, <3>1
    <2>4. QED
      BY <1>8, <2>2, <2>3 DEF BeginEgomotion
  <1>9. CASE SkipPose(c)
    BY <1>0, <1>9 DEF SkipPose, CallOK, Busy, OthersStand, InPolicy
  <1>10. CASE LandPose(c)
    BY <1>0, <1>10 DEF LandPose, CallOK, Busy, OthersStand, InPolicy
  <1>11. CASE LandState(c)
    BY <1>0, <1>11 DEF LandState, CallOK, Busy, OthersStand, InPolicy
  <1>12. CASE EndEgomotion(c)
    BY <1>0, <1>12 DEF EndEgomotion, CallOK, Busy, OthersStand, InPolicy
  <1>13. CASE SubmitRoute(c)
    BY <1>0, <1>13 DEF SubmitRoute, CallOK, Busy, OthersStand, InPolicy
  <1>14. CASE SubmitGroundTruth(c)
    BY <1>0, <1>14 DEF SubmitGroundTruth, CallOK, Busy, OthersStand, InPolicy
  <1>15. CASE RecordSweep(c)
    BY <1>0, <1>15 DEF RecordSweep, CallOK, Busy, OthersStand, InPolicy
  <1>16. CASE GetMap(c)
    <2>1. lock' = lock /\ obj' = obj /\ pc[c] \in {"found", "announce", "plan"}
      BY <1>16 DEF GetMap
    <2>2. pc'[c] \notin {"landing", "halfway"}
      BY <1>16 DEF GetMap
    <2>3. \A s \in Calls : lock[s] # c
      BY <1>0, <2>1
    <2>4. QED
      BY <1>0, <2>1, <2>2, <2>3 DEF OthersStand
  <1>17. CASE OpenMap(c)
    BY <1>0, <1>17 DEF OpenMap, CallOK, Busy, OthersStand, InPolicy
  <1>18. CASE Commit(c)
    BY <1>0, <1>18 DEF Commit, CallOK, Busy, OthersStand, InPolicy
  <1>19. CASE GetVehicleCommand(c)
    BY <1>0, <1>19 DEF GetVehicleCommand, CallOK, Busy, OthersStand, InPolicy
  <1>20. CASE CallPolicy(c)
    <2>1. lock' = lock /\ obj' = obj /\ pc[c] \in {"found", "announce", "plan"}
      BY <1>20 DEF CallPolicy
    <2>2. pc'[c] \notin {"landing", "halfway"}
      BY <1>20 DEF CallPolicy
    <2>3. \A s \in Calls : lock[s] # c
      BY <1>0, <2>1
    <2>4. QED
      BY <1>0, <2>1, <2>2, <2>3 DEF OthersStand
  <1>21. CASE PolicyLocks(c)
    BY <1>0, <1>21 DEF PolicyLocks, CallOK, Busy, OthersStand, InPolicy
  <1>22. CASE PolicyUnlocks(c)
    BY <1>0, <1>22 DEF PolicyUnlocks, CallOK, Busy, OthersStand, InPolicy
  <1>23. CASE HookReturns(c)
    BY <1>0, <1>23 DEF HookReturns, CallOK, Busy, OthersStand, InPolicy
  <1>24. CASE HookRaises(c)
    BY <1>0, <1>24 DEF HookRaises, CallOK, Busy, OthersStand, InPolicy
  <1>25. CASE DriveReturns(c)
    BY <1>0, <1>25 DEF DriveReturns, CallOK, Busy, OthersStand, InPolicy
  <1>26. CASE DriveRaises(c)
    BY <1>0, <1>26 DEF DriveRaises, CallOK, Busy, OthersStand, InPolicy
  <1>27. QED
    BY <1>1, <1>2, <1>3, <1>4, <1>5, <1>6, <1>7, <1>8, <1>9, <1>10, <1>11, <1>12,
       <1>13, <1>14, <1>15, <1>16, <1>17, <1>18, <1>19, <1>20, <1>21, <1>22, <1>23,
       <1>24, <1>25, <1>26 DEF StepOf, Serve, PolicyReturns

LEMMA WiringStep == Wiring /\ [Next]_vars => Wiring'
  <1> SUFFICES ASSUME Wiring, [Next]_vars PROVE Wiring'
    OBVIOUS
  <1>1. TypeOK'
    BY TypeStep
  <1>2. CASE UNCHANGED vars
    <2>1. CallWiring'
      BY <1>2 DEF Wiring, vars, arrival, locals, CallWiring, CallOK
    <2>2. ObjectWiring' /\ LockWiring'
      BY <1>2 DEF Wiring, vars, servicer, arrival, locals, ObjectWiring, LockWiring, Is
    <2>3. QED
      BY <1>1, <2>1, <2>2 DEF Wiring
  <1>3. ASSUME NEW c \in Calls, StepOf(c) PROVE Wiring'
    BY <1>1, <1>3, CallStep, ObjectStep, LockStep DEF Wiring
  <1>4. QED
    BY <1>2, <1>3 DEF Next, Idle, StepOf

THEOREM WiringHolds == Spec => []Wiring
  BY WiringInit, WiringStep, PTL DEF Spec

\* Every variable holds what the code keeps in it: the registry only session
\* objects, a session only observations, its command an indicator of the enum
\* whatever value a policy returned, and every lock a call or nobody.
THEOREM TypeCorrect == Spec => []TypeOK
  <1>1. Wiring => TypeOK
    BY DEF Wiring
  <1>2. QED
    BY <1>1, WiringHolds, PTL

-----------------------------------------------------------------------------
(* A session is closed once                                                *)

\* A session in the registry has not been taken by a close.
Takeable ==
    \A u \in Uuids : sessions[u] # None =>
        \A k \in Calls : Is(k, "close_session") => obj[k] # sessions[u]

\* ClosedOnce with what makes it inductive: no close has taken a session that is
\* still registered.
Taken == Takeable /\ ClosedOnce

LEMMA TakenStep == Wiring /\ Taken /\ [Next]_vars => Taken'
  <1> SUFFICES ASSUME Wiring, Taken, [Next]_vars PROVE Taken'
    OBVIOUS
  <1> USE DEF Wiring, TypeOK, Taken, Takeable, ClosedOnce, Is
  <1>0. None \notin Calls
    BY ServicerAssumption
  <1>1. CASE UNCHANGED <<sessions, req, obj>>
    BY <1>1
  <1>2. ASSUME NEW c \in Calls, Arrive(c) PROVE Taken'
    <2>1. obj[c] = None
      BY <1>2 DEF Arrive, CallWiring, CallOK
    <2>2. UNCHANGED <<sessions, obj>> /\ \A k \in Calls \ {c} : req'[k] = req[k]
      BY <1>2 DEF Arrive, servicer, locals
    <2>3. QED
      BY <1>0, <2>1, <2>2
  <1>3. ASSUME NEW c \in Calls, Register(c) PROVE Taken'
    <2>1. obj[c] = None
      BY <1>3 DEF Register, CallWiring, CallOK
    <2>2. \A k \in Calls : obj[k] # c
      BY <1>0, <2>1 DEF ObjectWiring
    <2>3. req' = req /\ obj' = [obj EXCEPT ![c] = c] /\ req[c].rpc = "start_session"
          /\ \A u \in Uuids : sessions'[u] \in {sessions[u], c}
      BY <1>3 DEF Register, arrival
    <2>4. QED
      BY <1>0, <2>1, <2>2, <2>3
  <1>4. ASSUME NEW c \in Calls, RejectStart(c) PROVE Taken'
    BY <1>4 DEF RejectStart, WithoutSession, arrival, locals
  <1>5. ASSUME NEW c \in Calls, CloseSession(c) PROVE Taken'
    <2> DEFINE s == sessions[req[c].uuid]
    <2>1. req[c].uuid \in Uuids
      BY <1>5, Serving DEF CloseSession
    <2>2. req' = req /\ req[c] # None /\ req[c].rpc = "close_session" /\ obj[c] = None
      BY <1>5 DEF CloseSession, arrival, CallWiring, CallOK
    <2>3. obj' = [obj EXCEPT ![c] = s]
      BY <1>5, <2>2 DEF CloseSession
    <2>4. /\ sessions'[req[c].uuid] = None
          /\ \A u \in Uuids \ {req[c].uuid} : sessions'[u] = sessions[u]
      BY <1>5, <2>1 DEF CloseSession, WithoutSession
    <2>5. \A u \in Uuids \ {req[c].uuid} : sessions[u] # None => sessions[u] # s
      BY <2>1 DEF ObjectWiring
    <2>6. Takeable'
      BY <2>2, <2>3, <2>4, <2>5
    <2>7. ClosedOnce'
      BY <1>0, <2>1, <2>2, <2>3
    <2>8. QED
      BY <2>6, <2>7
  <1>6. ASSUME NEW c \in Calls, RequireSession(c) PROVE Taken'
    <2>1. UNCHANGED <<sessions, req>> /\ req[c].rpc # "close_session"
      BY <1>6 DEF RequireSession, servicer, arrival
    <2>2. \A k \in Calls \ {c} : obj'[k] = obj[k]
      BY <1>6 DEF RequireSession, Answer
    <2>3. QED
      BY <2>1, <2>2
  <1>7. ASSUME NEW c \in Calls, StepOf(c) PROVE Taken'
    BY <1>1, <1>2, <1>3, <1>4, <1>5, <1>6, <1>7, ObjectStands
  <1>8. QED
    BY <1>1, <1>7 DEF Next, Idle, StepOf, vars, servicer, arrival, locals

\* close_session hands a session to on_session_close at most once, for any number
\* of closes racing for its uuid and sessions restarted under it.
THEOREM SessionsClosedOnce == Spec => []ClosedOnce
  <1>1. Init => Taken
    BY DEF Init, Taken, Takeable, ClosedOnce, Is
  <1>2. Taken => ClosedOnce
    BY DEF Taken
  <1>3. QED
    BY <1>1, <1>2, TakenStep, WiringHolds, PTL DEF Spec

-----------------------------------------------------------------------------
(* No session is lost                                                      *)

\* Nothing but an answer ends a call, and an answered call takes no step.
LEMMA DoneStands ==
    ASSUME Wiring, NEW c \in Calls, StepOf(c)
    PROVE  pc[c] # "done"
  BY DEF StepOf, Serve, PolicyReturns, Arrive, RefuseStart, Register, RejectStart,
     CloseSession, RequireSession, SubmitImage, BeginEgomotion, SkipPose, LandPose, LandState,
     EndEgomotion, SubmitRoute, SubmitGroundTruth, RecordSweep, GetMap, OpenMap, Commit,
     GetVehicleCommand, CallPolicy, PolicyLocks, PolicyUnlocks, HookReturns, HookRaises,
     DriveReturns, DriveRaises, InPolicy

\* A call keeps the object it has, and with it its request.
LEMMA ObjectKept ==
    ASSUME Wiring, NEW c \in Calls, StepOf(c), NEW k \in Calls, obj[k] # None
    PROVE  obj'[k] = obj[k] /\ req'[k] = req[k]
  <1> USE DEF Wiring, TypeOK, servicer, arrival, locals
  <1>1. CASE k # c
    BY <1>1, Others DEF OthersStand
  <1>2. CASE k = c
    <2>1. pc[c] \notin {"unborn", "arrived"}
      BY <1>2 DEF CallWiring, CallOK
    <2>2. CASE RejectStart(c)
      BY <1>2, <2>2 DEF RejectStart
    <2>3. CASE ~RejectStart(c)
      <3>1. ~Arrive(c) /\ ~Register(c) /\ ~CloseSession(c) /\ ~RequireSession(c)
        BY <2>1 DEF Arrive, Register, CloseSession, RequireSession
      <3>2. QED
        BY <1>2, <2>3, <3>1, ObjectStands
    <2>4. QED
      BY <2>2, <2>3
  <1>3. QED
    BY <1>1, <1>2

\* What excuses a session from being found under its uuid does not pass.
LEMMA ExcuseStands ==
    ASSUME Wiring, NEW c \in Calls, StepOf(c), NEW s \in Calls, obj[s] # None
    PROVE  /\ TakenByClose(s) => TakenByClose(s)'
           /\ RejectedBeside(s) => RejectedBeside(s)'
  <1>0. None \notin Calls
    BY ServicerAssumption
  <1>1. ASSUME TakenByClose(s) PROVE TakenByClose(s)'
    <2>1. PICK k \in Calls : Is(k, "close_session") /\ obj[k] = s
      BY <1>1 DEF TakenByClose
    <2>2. obj'[k] = s /\ req'[k] = req[k]
      BY <1>0, <2>1, ObjectKept
    <2>3. QED
      BY <2>1, <2>2 DEF TakenByClose, Is
  <1>2. ASSUME RejectedBeside(s) PROVE RejectedBeside(s)'
    <2>1. PICK k \in Calls \ {s} :
            /\ Is(k, "start_session") /\ req[k].uuid = req[s].uuid /\ obj[k] = k
            /\ pc[k] = "done" /\ reply[k].status = "FAILED_PRECONDITION"
      BY <1>2 DEF RejectedBeside
    <2>2. k # c
      BY <2>1, DoneStands
    <2>3. pc'[k] = pc[k] /\ reply'[k] = reply[k] /\ req'[k] = req[k] /\ obj'[k] = obj[k]
      BY <2>2, Others DEF OthersStand, Wiring
    <2>4. req'[s] = req[s]
      BY ObjectKept
    <2>5. QED
      BY <2>1, <2>3, <2>4 DEF RejectedBeside, Is
  <1>3. QED
    BY <1>1, <1>2

\* A session that stands after a step stood before, or was just registered.
LEMMA StandingBefore ==
    ASSUME Wiring, NEW c \in Calls, StepOf(c), NEW s \in Calls, Standing(s)'
    PROVE  Standing(s) \/ (s = c /\ Register(c))
  <1> USE DEF Wiring, TypeOK, servicer, arrival, locals, GoTo, Answer
  <1>1. CASE s # c
    BY <1>1, Others DEF OthersStand, Standing, Is
  <1>2. CASE s = c /\ obj[c] = None
    <2>1. pc[c] \in {"unborn", "arrived"} \/ pc[c] \notin Busy
      BY <1>2, ServicerAssumption DEF CallWiring, CallOK
    <2>2. Is(c, "start_session")' /\ obj'[c] # None
      BY <1>2 DEF Standing
    <2>3. ~RequireSession(c) /\ ~CloseSession(c)
      BY <2>2 DEF RequireSession, CloseSession, Is
    <2>4. ~Arrive(c) /\ ~RejectStart(c)
      BY <1>2, <2>2 DEF Arrive, RejectStart
    <2>5. QED
      BY <1>2, <2>2, <2>3, <2>4, ObjectStands
  <1>3. CASE s = c /\ obj[c] # None
    <2>1. req'[c] = req[c]
      BY <1>3, ObjectKept
    <2>2. pc[c] # "done"
      BY DoneStands
    <2>3. pc[c] = "reject" => RejectStart(c)
      BY DEF StepOf, Serve, PolicyReturns, Arrive, RefuseStart, Register, RejectStart,
         CloseSession, RequireSession, SubmitImage, BeginEgomotion, SkipPose, LandPose,
         LandState, EndEgomotion, SubmitRoute, SubmitGroundTruth, RecordSweep, GetMap,
         OpenMap, Commit, GetVehicleCommand, CallPolicy, PolicyLocks, PolicyUnlocks,
         HookReturns, HookRaises, DriveReturns, DriveRaises, InPolicy
    <2>4. ~RejectStart(c)
      BY <1>3 DEF RejectStart, Standing
    <2>5. QED
      BY <1>3, <2>1, <2>2, <2>3, <2>4 DEF Standing, Is
  <1>4. QED
    BY <1>1, <1>2, <1>3

LEMMA ReachableStep == Wiring /\ SessionsReachable /\ [Next]_vars => SessionsReachable'
  <1> SUFFICES ASSUME Wiring, SessionsReachable, [Next]_vars PROVE SessionsReachable'
    OBVIOUS
  <1>0. None \notin Calls
    BY ServicerAssumption
  <1>1. CASE UNCHANGED vars
    BY <1>1 DEF vars, servicer, arrival, locals, SessionsReachable, Standing, TakenByClose,
       RejectedBeside, Is
  <1>2. ASSUME NEW c \in Calls, StepOf(c), NEW s \in Calls, Standing(s)'
        PROVE  sessions'[req'[s].uuid] = s \/ TakenByClose(s)' \/ RejectedBeside(s)'
    <2> USE DEF Wiring, TypeOK
    <2>1. CASE s = c /\ Register(c)
      <3>1. req[c].uuid \in Uuids
        BY <2>1, Serving DEF Register
      <3>2. QED
        BY <2>1, <3>1 DEF Register, arrival
    <2>2. CASE Standing(s)
      <3>1. obj[s] = s /\ req'[s] = req[s] /\ req[s] # None
        BY <1>2, <2>2, ObjectKept DEF Standing, ObjectWiring, Is
      <3>2. pc[s] # "unborn" /\ req[s].uuid \in Uuids
        BY <1>0, <2>2, <3>1, Serving DEF Standing, CallWiring, CallOK
      <3>3. \/ sessions[req[s].uuid] = s
            \/ TakenByClose(s)' \/ RejectedBeside(s)'
        BY <1>2, <2>2, ExcuseStands DEF SessionsReachable, Standing
      <3>4. CASE sessions[req[s].uuid] = s
        <4>1. CASE RejectStart(c)
          <5>1. c # s
            BY <2>2, <4>1 DEF RejectStart, Standing
          <5>2. /\ Is(c, "start_session") /\ obj[c] = c /\ req'[c] = req[c]
                /\ obj'[c] = obj[c] /\ pc'[c] = "done"
                /\ reply'[c].status = "FAILED_PRECONDITION"
            <6>1. req[c] # None /\ req[c].rpc = "start_session" /\ obj[c] # None
              BY <1>0, <4>1, Serving DEF RejectStart, CallWiring, CallOK, Busy
            <6>2. obj[c] = c
              BY <6>1 DEF ObjectWiring, Is
            <6>3. req' = req /\ obj' = obj
              BY <4>1 DEF RejectStart, arrival, locals
            <6>4. pc'[c] = "done" /\ reply'[c].status = "FAILED_PRECONDITION"
              BY <4>1 DEF RejectStart, Answer, GoTo
            <6>5. QED
              BY <6>1, <6>2, <6>3, <6>4 DEF Is
          <5>3. req[c].uuid = req[s].uuid => RejectedBeside(s)'
            BY <3>1, <5>1, <5>2 DEF RejectedBeside, Is
          <5>4. req[c].uuid # req[s].uuid => sessions'[req[s].uuid] = s
            BY <3>2, <3>4, <4>1 DEF RejectStart, WithoutSession
          <5>5. QED
            BY <3>1, <5>3, <5>4
        <4>2. CASE CloseSession(c)
          <5>1. req[c].uuid = req[s].uuid => TakenByClose(s)'
            BY <1>0, <3>4, <4>2 DEF CloseSession, TakenByClose, Is, arrival
          <5>2. req[c].uuid # req[s].uuid => sessions'[req[s].uuid] = s
            BY <3>2, <3>4, <4>2 DEF CloseSession, WithoutSession
          <5>3. QED
            BY <3>1, <5>1, <5>2
        <4>3. CASE Register(c)
          <5>1. req[c].uuid # req[s].uuid
            BY <1>0, <3>4, <4>3 DEF Register, Registered
          <5>2. QED
            BY <3>1, <3>2, <3>4, <4>3, <5>1 DEF Register
        <4>4. CASE Arrive(c) \/ RequireSession(c)
          BY <3>1, <3>4, <4>4 DEF Arrive, RequireSession, servicer
        <4>5. QED
          BY <1>2, <3>1, <3>4, <4>1, <4>2, <4>3, <4>4, ObjectStands
      <3>5. QED
        BY <3>3, <3>4
    <2>3. QED
      BY <1>2, <2>1, <2>2, StandingBefore
  <1>3. QED
    BY <1>1, <1>2 DEF Next, Idle, StepOf, SessionsReachable

\* However many starts, rejections and closes race for one uuid, a session its policy
\* has not refused stays under its uuid until a close takes it, unless a start of the
\* same uuid was refused (whose pop removes whatever is there).
THEOREM NoSessionLost == Spec => []SessionsReachable
  <1>1. Init => SessionsReachable
    BY DEF Init, SessionsReachable, Standing, Is
  <1>2. QED
    BY <1>1, ReachableStep, WiringHolds, PTL DEF Spec

-----------------------------------------------------------------------------
(* The command is the newest drive's                                       *)

\* Drives a plan was answered to.
Planned(c) == Is(c, "drive") /\ pc[c] = "done" /\ reply[c].status = "OK"

\* Only a commit answers a drive with a plan.
LEMMA OthersPlan ==
    ASSUME Wiring, NEW c \in Calls, StepOf(c), ~Commit(c)
    PROVE  ~Planned(c) /\ ~Planned(c)'
  <1> USE DEF Wiring, TypeOK, Planned, Is, servicer, arrival, locals, GoTo, Answer
  <1>1. CASE Arrive(c)
    BY <1>1 DEF Arrive, InPolicy, CallWiring, CallOK
  <1>2. CASE RefuseStart(c)
    BY <1>2 DEF RefuseStart, InPolicy, CallWiring, CallOK
  <1>3. CASE Register(c)
    BY <1>3 DEF Register, InPolicy, CallWiring, CallOK
  <1>4. CASE RejectStart(c)
    BY <1>4 DEF RejectStart, InPolicy, CallWiring, CallOK
  <1>5. CASE CloseSession(c)
    BY <1>5 DEF CloseSession, InPolicy, CallWiring, CallOK
  <1>6. CASE RequireSession(c)
    BY <1>6 DEF RequireSession, InPolicy, CallWiring, CallOK
  <1>7. CASE SubmitImage(c)
    BY <1>7 DEF SubmitImage, InPolicy, CallWiring, CallOK
  <1>8. CASE BeginEgomotion(c)
    BY <1>8 DEF BeginEgomotion, InPolicy, CallWiring, CallOK
  <1>9. CASE SkipPose(c)
    BY <1>9 DEF SkipPose, InPolicy, CallWiring, CallOK
  <1>10. CASE LandPose(c)
    BY <1>10 DEF LandPose, InPolicy, CallWiring, CallOK
  <1>11. CASE LandState(c)
    BY <1>11 DEF LandState, InPolicy, CallWiring, CallOK
  <1>12. CASE EndEgomotion(c)
    BY <1>12 DEF EndEgomotion, InPolicy, CallWiring, CallOK
  <1>13. CASE SubmitRoute(c)
    BY <1>13 DEF SubmitRoute, InPolicy, CallWiring, CallOK
  <1>14. CASE SubmitGroundTruth(c)
    BY <1>14 DEF SubmitGroundTruth, InPolicy, CallWiring, CallOK
  <1>15. CASE RecordSweep(c)
    BY <1>15 DEF RecordSweep, InPolicy, CallWiring, CallOK
  <1>16. CASE GetMap(c)
    BY <1>16 DEF GetMap, InPolicy, CallWiring, CallOK
  <1>17. CASE OpenMap(c)
    BY <1>17 DEF OpenMap, InPolicy, CallWiring, CallOK
  <1>18. CASE GetVehicleCommand(c)
    BY <1>18 DEF GetVehicleCommand, InPolicy, CallWiring, CallOK
  <1>19. CASE CallPolicy(c)
    BY <1>19 DEF CallPolicy, InPolicy, CallWiring, CallOK
  <1>20. CASE PolicyLocks(c)
    BY <1>20 DEF PolicyLocks, InPolicy, CallWiring, CallOK
  <1>21. CASE PolicyUnlocks(c)
    BY <1>21 DEF PolicyUnlocks, InPolicy, CallWiring, CallOK
  <1>22. CASE HookReturns(c)
    BY <1>22 DEF HookReturns, InPolicy, CallWiring, CallOK
  <1>23. CASE HookRaises(c)
    BY <1>23 DEF HookRaises, InPolicy, CallWiring, CallOK
  <1>24. CASE DriveReturns(c)
    BY <1>24 DEF DriveReturns, InPolicy, CallWiring, CallOK
  <1>25. CASE DriveRaises(c)
    BY <1>25 DEF DriveRaises, InPolicy, CallWiring, CallOK
  <1>26. QED
    BY <1>1, <1>2, <1>3, <1>4, <1>5, <1>6, <1>7, <1>8, <1>9, <1>10, <1>11, <1>12,
       <1>13, <1>14, <1>15, <1>16, <1>17, <1>18, <1>19, <1>20, <1>21, <1>22, <1>23,
       <1>24, <1>25 DEF StepOf, Serve, PolicyReturns

\* Drives the policy decided a command with.
Decided(c) == Is(c, "drive") /\ pc[c] = "done" /\ decided[c] # None

\* Only a commit ends a drive that has decided.
LEMMA OthersDecide ==
    ASSUME Wiring, NEW c \in Calls, StepOf(c), ~Commit(c)
    PROVE  ~Decided(c) /\ ~Decided(c)'
  <1>1. pc[c] \notin {"commit", "done"}
    BY DEF StepOf, Serve, PolicyReturns, Arrive, RefuseStart, Register, RejectStart,
       CloseSession, RequireSession, SubmitImage, BeginEgomotion, SkipPose, LandPose,
       LandState, EndEgomotion, SubmitRoute, SubmitGroundTruth, RecordSweep, GetMap,
       OpenMap, GetVehicleCommand, CallPolicy, PolicyLocks, PolicyUnlocks, InPolicy,
       HookReturns, HookRaises, DriveReturns, DriveRaises
  <1>2. CASE DriveReturns(c)
    <2>1. pc'[c] = "commit"
      BY <1>2 DEF DriveReturns, GoTo, Wiring, TypeOK
    <2>2. QED
      BY <1>1, <2>1 DEF Decided
  <1>3. CASE ~DriveReturns(c)
    <2>1. decided' = decided
      BY <1>3 DEF StepOf, Serve, PolicyReturns, locals, Arrive, RefuseStart, Register,
         RejectStart, CloseSession, RequireSession, SubmitImage, BeginEgomotion, SkipPose,
         LandPose, LandState, EndEgomotion, SubmitRoute, SubmitGroundTruth, RecordSweep,
         GetMap, OpenMap, GetVehicleCommand, CallPolicy, PolicyLocks, PolicyUnlocks,
         HookReturns, HookRaises, DriveRaises
    <2>2. decided[c] = None
      BY <1>1 DEF Wiring, CallWiring, CallOK
    <2>3. QED
      BY <1>1, <2>1, <2>2 DEF Decided
  <1>4. QED
    BY <1>2, <1>3

\* What NewestIn(s) is made of stands.
LEMMA NewestStands ==
    ASSUME NEW s \in Calls, NewestIn(s), Committed(s)' = Committed(s),
           session'[s].command = session[s].command,
           \A d \in Committed(s) : req'[d] = req[d] /\ decided'[d] = decided[d]
    PROVE  NewestIn(s)'
  BY DEF NewestIn

\* Only a commit and a registration change a session's command.
LEMMA CommandStands ==
    ASSUME Wiring, NEW c \in Calls, StepOf(c), ~Register(c), ~Commit(c)
    PROVE  \A s \in Calls : session'[s].command = session[s].command
  <1> USE DEF Wiring, TypeOK, SessionState, servicer, arrival, locals
  <1>1. CASE UNCHANGED session
    BY <1>1
  <1>2. CASE SubmitImage(c)
    <2>1. UNCHANGED session \/ RecordFrame(obj[c], req[c].frame)
      BY <1>2 DEF SubmitImage
    <2>2. obj[c] \in Calls /\ req[c].frame \in Frame
      BY <1>2, ObjectType, Serving DEF SubmitImage, Busy, Is
    <2>3. QED
      BY <2>1, <2>2, RecordKeeps
  <1>3. CASE RecordSweep(c)
    BY <1>3, ObjectType DEF RecordSweep, RecordFrame, Busy
  <1>4. CASE LandPose(c)
    BY <1>4, ObjectType DEF LandPose, Busy
  <1>5. CASE LandState(c)
    BY <1>5, ObjectType DEF LandState, Busy
  <1>6. CASE SubmitRoute(c)
    BY <1>6, ObjectType DEF SubmitRoute, Target, Busy
  <1>7. CASE SubmitGroundTruth(c)
    BY <1>7, ObjectType DEF SubmitGroundTruth, Target, Busy
  <1>8. QED
    BY <1>1, <1>2, <1>3, <1>4, <1>5, <1>6, <1>7 DEF StepOf, Serve, PolicyReturns, Arrive, RefuseStart,
       RejectStart, CloseSession, RequireSession, BeginEgomotion, SkipPose, EndEgomotion,
       GetMap, OpenMap, GetVehicleCommand, CallPolicy, PolicyLocks, PolicyUnlocks,
       HookReturns, HookRaises, DriveReturns, DriveRaises

LEMMA CommandStep == Wiring /\ CommandNewest /\ [Next]_vars => CommandNewest'
  <1> SUFFICES ASSUME Wiring, CommandNewest, [Next]_vars PROVE CommandNewest'
    OBVIOUS
  <1>0. None \notin Calls /\ Times \subseteq Nat
    BY ServicerAssumption
  <1>1. CASE UNCHANGED vars
    BY <1>1 DEF vars, arrival, locals, CommandNewest, NewestIn, Committed, Is
  <1>2. ASSUME NEW c \in Calls, Register(c) PROVE CommandNewest'
    <2>1. obj[c] = None /\ ~Decided(c) /\ ~Decided(c)' /\ OthersStand(c)
      BY <1>2, OthersDecide, Others DEF StepOf, Serve, Register, Commit, Wiring, CallWiring, CallOK
    <2>2. \A s \in Calls : Committed(s)' = Committed(s)
      BY <2>1 DEF Committed, Decided, OthersStand, Is
    <2>3. Committed(c) = {}
      BY <1>0, <2>1 DEF Committed, Wiring, ObjectWiring
    <2>4. session'[c].command = [time |-> 0, indicator |-> NoCommand]
          /\ \A s \in Calls \ {c} : session'[s] = session[s]
      BY <1>2 DEF Register, NewSession, Wiring, TypeOK
    <2>5. \A d \in Calls \ {c} : req'[d] = req[d] /\ decided'[d] = decided[d]
      BY <2>1 DEF OthersStand
    <2>6. \A s \in Calls : c \notin Committed(s)
      BY <2>1 DEF Committed, Decided
    <2>7. NewestIn(c)'
      BY <2>2, <2>3, <2>4 DEF NewestIn
    <2>8. ASSUME NEW s \in Calls \ {c} PROVE NewestIn(s)'
      BY <2>2, <2>4, <2>5, <2>6, NewestStands DEF CommandNewest, Committed
    <2>9. QED
      BY <2>7, <2>8 DEF CommandNewest
  <1>3. ASSUME NEW c \in Calls, Commit(c) PROVE CommandNewest'
    <2> DEFINE s == obj[c]
               old == session[s].command
               new == [time |-> req[c].now, indicator |-> decided[c]]
    <2>1. s \in Calls /\ req[c].rpc = "drive" /\ req[c] # None /\ req[c].now \in Times
      BY <1>3, Serving DEF Commit, Wiring, CallWiring, CallOK, Busy
    <2>2. session'[s].command = (IF Supersedes(req[c].now, old) THEN new ELSE old)
          /\ \A t \in Calls \ {s} : session'[t] = session[t]
      BY <1>3, <2>1 DEF Commit, Wiring, TypeOK, SessionState
    <2>3. UNCHANGED <<req, obj, decided>>
      BY <1>3 DEF Commit, arrival, locals
    <2>4. /\ pc[c] # "done" /\ pc'[c] = "done" /\ decided[c] # None
          /\ \A k \in Calls \ {c} : pc'[k] = pc[k]
      BY <1>3 DEF Commit, Answer, GoTo, Wiring, TypeOK, CallWiring, CallOK
    <2>5. Committed(s)' = Committed(s) \cup {c}
          /\ \A t \in Calls \ {s} : Committed(t)' = Committed(t)
      BY <2>1, <2>3, <2>4 DEF Committed, Is
    <2>6. old.time \in Nat
      <3>1. old \in Commands
        BY <2>1 DEF Wiring, TypeOK, SessionState
      <3>2. old.time \in Times \cup {0}
        BY <3>1 DEF Commands
      <3>3. \A t \in Times \cup {0} : t \in Nat
        BY <1>0
      <3>4. QED
        BY <3>2, <3>3
    <2>7. req[c].now \in Nat
      BY <1>0, <2>1
    <2>8. \A d \in Committed(s) : req[d].now \in Nat
      BY <1>0, Serving DEF Committed, Is
    <2>9. NewestIn(s)
      BY <2>1 DEF CommandNewest
    <2>10. ASSUME NEW t \in Calls \ {s} PROVE NewestIn(t)'
      BY <2>2, <2>3, <2>5, NewestStands DEF CommandNewest
    <2>11. CASE Supersedes(req[c].now, old)
      <3>1. session'[s].command = new
        BY <2>2, <2>11
      <3>2. \A d \in Committed(s) : req[d].now <= req[c].now
        BY <2>6, <2>7, <2>8, <2>9, <2>11 DEF NewestIn, Supersedes
      <3>3. NewestIn(s)'
        BY <2>3, <2>5, <2>7, <3>1, <3>2 DEF NewestIn
      <3>4. QED
        BY <2>3, <2>10, <3>3 DEF CommandNewest
    <2>12. CASE ~Supersedes(req[c].now, old)
      <3>1. session'[s].command = old
        BY <2>2, <2>12
      <3>2. req[c].now < old.time
        BY <2>6, <2>7, <2>12 DEF Supersedes
      <3>3. old.time # 0 /\ req[c].now <= old.time
        BY <2>6, <2>7, <3>2
      <3>4. \E d \in Committed(s) : old = [time |-> req[d].now, indicator |-> decided[d]]
        BY <2>9, <3>3 DEF NewestIn
      <3>5. NewestIn(s)'
        BY <2>3, <2>5, <2>9, <3>1, <3>3, <3>4 DEF NewestIn
      <3>6. QED
        BY <2>3, <2>10, <3>5 DEF CommandNewest
    <2>13. QED
      BY <2>11, <2>12
  <1>4. ASSUME NEW c \in Calls, StepOf(c), ~Register(c), ~Commit(c) PROVE CommandNewest'
    <2>1. ~Decided(c) /\ ~Decided(c)' /\ OthersStand(c)
      BY <1>4, OthersDecide, Others DEF Wiring
    <2>2. \A s \in Calls : Committed(s)' = Committed(s)
      BY <2>1 DEF Committed, Decided, OthersStand, Is
    <2>3. \A s \in Calls : c \notin Committed(s)
      BY <2>1 DEF Committed, Decided
    <2>4. \A d \in Calls \ {c} : req'[d] = req[d] /\ decided'[d] = decided[d]
      BY <2>1 DEF OthersStand
    <2>5. \A s \in Calls : session'[s].command = session[s].command
      BY <1>4, CommandStands
    <2>6. ASSUME NEW s \in Calls PROVE NewestIn(s)'
      <3>1. \A d \in Committed(s) : req'[d] = req[d] /\ decided'[d] = decided[d]
        BY <2>3, <2>4 DEF Committed
      <3>2. QED
        BY <2>2, <2>5, <3>1, NewestStands DEF CommandNewest
    <2>7. QED
      BY <2>6 DEF CommandNewest
  <1>5. QED
    BY <1>1, <1>2, <1>3, <1>4 DEF Next, Idle, StepOf

\* The vehicle command of a session is that of the drive with the latest planning time
\* among those the policy answered, in whatever order any number of drives finish and
\* whichever of them fail after that.
THEOREM CommandIsNewest == Spec => []CommandNewest
  <1>1. Init => CommandNewest
    BY DEF Init, CommandNewest, NewestIn, Committed, NewSession
  <1>2. QED
    BY <1>1, CommandStep, WiringHolds, PTL DEF Spec

-----------------------------------------------------------------------------
(* The timeline of a session                                               *)

\* A batch is between the pose and the dynamic state of session s.
Halfway(s) == lock[s] # None /\ pc[lock[s]] = "halfway"

\* EgoTimeline for one session, with the half-landed pose spelled out.
TimelineIn(s) ==
    LET e == session[s].ego
        d == session[s].states
    IN  /\ \A i, j \in 1..Len(e) : i < j => e[i] < e[j]
        /\ \A i \in 1..Len(d) : d[i] \in {e[i], None}
        /\ Halfway(s) => Len(e) = Len(d) + 1 /\ e[Len(e)] = Pose(lock[s])
        /\ ~Halfway(s) => Len(e) = Len(d)

Timeline == \A s \in Calls : TimelineIn(s)

\* What TimelineIn(s) is made of stands.
LEMMA TimelineStands ==
    ASSUME NEW s \in Calls, TimelineIn(s), Halfway(s)' = Halfway(s),
           Halfway(s) => Pose(lock[s])' = Pose(lock[s]),
           session'[s].ego = session[s].ego, session'[s].states = session[s].states
    PROVE  TimelineIn(s)'
  BY DEF TimelineIn

\* Only landing a batch and a registration change a session's timeline.
LEMMA EgoStands ==
    ASSUME Wiring, NEW c \in Calls, StepOf(c), ~Register(c), ~LandPose(c), ~LandState(c)
    PROVE  \A s \in Calls : /\ session'[s].ego = session[s].ego
                            /\ session'[s].states = session[s].states
  <1> USE DEF Wiring, TypeOK, SessionState, servicer, arrival, locals
  <1>1. CASE UNCHANGED session
    BY <1>1
  <1>2. CASE SubmitImage(c)
    <2>1. UNCHANGED session \/ RecordFrame(obj[c], req[c].frame)
      BY <1>2 DEF SubmitImage
    <2>2. obj[c] \in Calls /\ req[c].frame \in Frame
      BY <1>2, ObjectType, Serving DEF SubmitImage, Busy, Is
    <2>3. QED
      BY <2>1, <2>2, RecordKeeps
  <1>3. CASE RecordSweep(c)
    <2>1. obj[c] \in Calls /\ session[obj[c]] \in SessionState
      BY <1>3, ObjectType DEF RecordSweep, Busy
    <2>2. QED
      BY <1>3, <2>1 DEF RecordSweep, RecordFrame
  <1>4. CASE SubmitRoute(c)
    <2>1. obj[c] \in Calls /\ session[obj[c]] \in SessionState
      BY <1>4, ObjectType DEF SubmitRoute, Busy
    <2>2. QED
      BY <1>4, <2>1 DEF SubmitRoute, Target
  <1>5. CASE SubmitGroundTruth(c)
    <2>1. obj[c] \in Calls /\ session[obj[c]] \in SessionState
      BY <1>5, ObjectType DEF SubmitGroundTruth, Busy
    <2>2. QED
      BY <1>5, <2>1 DEF SubmitGroundTruth, Target
  <1>6. CASE Commit(c)
    <2>1. obj[c] \in Calls /\ session[obj[c]] \in SessionState
      BY <1>6, ObjectType DEF Commit, Busy
    <2>2. QED
      BY <1>6, <2>1 DEF Commit
  <1>7. QED
    BY <1>1, <1>2, <1>3, <1>4, <1>5, <1>6 DEF StepOf, Serve, PolicyReturns, Arrive,
       RefuseStart, RejectStart, CloseSession, RequireSession, BeginEgomotion, SkipPose,
       EndEgomotion, GetMap, OpenMap, GetVehicleCommand, CallPolicy, PolicyLocks,
       PolicyUnlocks, HookReturns, HookRaises, DriveReturns, DriveRaises

\* No other step is halfway, before it or after it.
LEMMA NotHalfway ==
    ASSUME Wiring, NEW c \in Calls, StepOf(c), ~LandPose(c), ~LandState(c)
    PROVE  pc[c] # "halfway" /\ pc'[c] # "halfway"
  <1> USE DEF Wiring, TypeOK, GoTo, Answer, arrival, locals
  <1>1. CASE Arrive(c)
    BY <1>1 DEF Arrive, InPolicy
  <1>2. CASE RefuseStart(c)
    BY <1>2 DEF RefuseStart, InPolicy
  <1>3. CASE Register(c)
    BY <1>3 DEF Register, InPolicy
  <1>4. CASE RejectStart(c)
    BY <1>4 DEF RejectStart, InPolicy
  <1>5. CASE CloseSession(c)
    BY <1>5 DEF CloseSession, InPolicy
  <1>6. CASE RequireSession(c)
    BY <1>6 DEF RequireSession, InPolicy
  <1>7. CASE SubmitImage(c)
    BY <1>7 DEF SubmitImage, InPolicy
  <1>8. CASE BeginEgomotion(c)
    BY <1>8 DEF BeginEgomotion, InPolicy
  <1>9. CASE SkipPose(c)
    BY <1>9 DEF SkipPose, InPolicy
  <1>10. CASE EndEgomotion(c)
    BY <1>10 DEF EndEgomotion, InPolicy
  <1>11. CASE SubmitRoute(c)
    BY <1>11 DEF SubmitRoute, InPolicy
  <1>12. CASE SubmitGroundTruth(c)
    BY <1>12 DEF SubmitGroundTruth, InPolicy
  <1>13. CASE RecordSweep(c)
    BY <1>13 DEF RecordSweep, InPolicy
  <1>14. CASE GetMap(c)
    BY <1>14 DEF GetMap, InPolicy
  <1>15. CASE OpenMap(c)
    BY <1>15 DEF OpenMap, InPolicy
  <1>16. CASE Commit(c)
    BY <1>16 DEF Commit, InPolicy
  <1>17. CASE GetVehicleCommand(c)
    BY <1>17 DEF GetVehicleCommand, InPolicy
  <1>18. CASE CallPolicy(c)
    BY <1>18 DEF CallPolicy, InPolicy
  <1>19. CASE PolicyLocks(c)
    BY <1>19 DEF PolicyLocks, InPolicy
  <1>20. CASE PolicyUnlocks(c)
    BY <1>20 DEF PolicyUnlocks, InPolicy
  <1>21. CASE HookReturns(c)
    BY <1>21 DEF HookReturns, InPolicy
  <1>22. CASE HookRaises(c)
    BY <1>22 DEF HookRaises, InPolicy
  <1>23. CASE DriveReturns(c)
    BY <1>23 DEF DriveReturns, InPolicy
  <1>24. CASE DriveRaises(c)
    BY <1>24 DEF DriveRaises, InPolicy
  <1>25. QED
    BY <1>1, <1>2, <1>3, <1>4, <1>5, <1>6, <1>7, <1>8, <1>9, <1>10, <1>11, <1>12,
       <1>13, <1>14, <1>15, <1>16, <1>17, <1>18, <1>19, <1>20, <1>21, <1>22, <1>23,
       <1>24 DEF StepOf, Serve, PolicyReturns

LEMMA HalfwayStands ==
    ASSUME Wiring, NEW c \in Calls, StepOf(c), ~LandPose(c), ~LandState(c),
           NEW s \in Calls
    PROVE  /\ Halfway(s)' = Halfway(s)
           /\ Halfway(s) => Pose(lock[s])' = Pose(lock[s])
  <1> USE DEF Wiring, TypeOK, Halfway
  <1>1. None \notin Calls /\ pc[c] # "halfway" /\ pc'[c] # "halfway" /\ OthersStand(c)
    BY ServicerAssumption, NotHalfway, Others
  <1>2. lock'[s] = lock[s] \/ (lock[s] \in {None, c} /\ lock'[s] \in {None, c})
    <2>1. CASE BeginEgomotion(c)
      BY <2>1, ObjectType DEF BeginEgomotion, Busy
    <2>2. CASE EndEgomotion(c)
      BY <2>2, ObjectType DEF EndEgomotion, Busy, LockWiring
    <2>3. CASE PolicyLocks(c)
      BY <2>3, ObjectType DEF PolicyLocks, InPolicy, Busy
    <2>4. CASE PolicyUnlocks(c)
      BY <2>4, ObjectType DEF PolicyUnlocks, InPolicy, Busy
    <2>5. QED
      BY <2>1, <2>2, <2>3, <2>4, LockStands
  <1>3. CASE lock'[s] = lock[s] /\ lock[s] \notin {None, c}
    <2>1. lock[s] \in Calls \ {c}
      BY <1>3
    <2>2. QED
      BY <1>1, <1>3, <2>1 DEF OthersStand, Pose
  <1>4. CASE lock[s] \in {None, c} /\ lock'[s] \in {None, c}
    BY <1>1, <1>4
  <1>5. QED
    BY <1>2, <1>3, <1>4

LEMMA TimelineStep == Wiring /\ Timeline /\ [Next]_vars => Timeline'
  <1> SUFFICES ASSUME Wiring, Timeline, [Next]_vars PROVE Timeline'
    OBVIOUS
  <1> USE DEF Wiring
  <1>0. None \notin Calls /\ Times \subseteq Nat
    BY ServicerAssumption
  <1>1. CASE UNCHANGED vars
    BY <1>1 DEF vars, arrival, locals, Timeline, TimelineIn, Halfway, Pose
  <1>2. ASSUME NEW c \in Calls, Register(c) PROVE Timeline'
    <2>1. obj[c] = None /\ lock' = lock
      BY <1>2 DEF Register, CallWiring, CallOK
    <2>2. lock[c] = None
      BY <1>0, <2>1 DEF LockWiring, ObjectWiring, TypeOK
    <2>3. session'[c].ego = <<>> /\ session'[c].states = <<>>
          /\ \A s \in Calls \ {c} : session'[s] = session[s]
      BY <1>2 DEF Register, NewSession, TypeOK
    <2>4. TimelineIn(c)'
      BY <2>1, <2>2, <2>3 DEF TimelineIn, Halfway
    <2>5. ASSUME NEW s \in Calls \ {c} PROVE TimelineIn(s)'
      <3>1. ~LandPose(c) /\ ~LandState(c) /\ StepOf(c)
        BY <1>2 DEF Register, LandPose, LandState, StepOf, Serve
      <3>2. QED
        BY <2>3, <3>1, HalfwayStands, TimelineStands DEF Timeline
    <2>6. QED
      BY <2>4, <2>5 DEF Timeline
  <1>3. ASSUME NEW c \in Calls, LandPose(c) PROVE Timeline'
    <2>1. PICK s \in Calls : s = obj[c]
      BY <1>3, ObjectType DEF LandPose, Busy
    <2> DEFINE e == session[s].ego
               d == session[s].states
    <2>2. e \in Seq(Times) /\ d \in Seq(Times \cup {None}) /\ Pose(c) \in Times
      <3>1. session[s] \in SessionState
        BY DEF TypeOK
      <3>2. QED
        BY <1>3, <3>1, PoseType DEF LandPose, SessionState
    <2>3. lock[s] = c /\ ~Halfway(s)
      BY <1>0, <1>3, <2>1 DEF LandPose, LockWiring, Halfway
    <2>4. /\ session'[s].ego = Append(e, Pose(c)) /\ session'[s].states = d
          /\ \A t \in Calls \ {s} : session'[t] = session[t]
      BY <1>3, <2>1 DEF LandPose, TypeOK, SessionState
    <2>5. /\ lock' = lock /\ Pose(c)' = Pose(c) /\ pc'[c] = "halfway"
          /\ \A k \in Calls \ {c} : pc'[k] = pc[k]
      BY <1>3 DEF LandPose, Pose, GoTo, TypeOK, arrival, locals
    <2>6. Halfway(s)'
      BY <1>0, <2>3, <2>5 DEF Halfway
    <2>7. Pose(c) \in Nat /\ \A i \in 1..Len(e) : e[i] \in Nat
      <3>1. \A t \in Times : t \in Nat
        BY <1>0
      <3>2. \A i \in 1..Len(e) : e[i] \in Times
        BY <2>2
      <3>3. QED
        BY <2>2, <3>1, <3>2
    <2>8. e # <<>> => e[Len(e)] < Pose(c)
      <3>1. ASSUME e # <<>> PROVE e[Len(e)] < Pose(c)
        <4>1. Len(e) \in 1..Len(e)
          BY <2>2, <3>1
        <4>2. ~(Pose(c) <= e[Len(e)])
          BY <1>3, <2>1, <3>1 DEF LandPose, Stale, Last
        <4>3. QED
          BY <2>7, <4>1, <4>2
      <3>2. QED
        BY <3>1
    <2>9. TimelineIn(s)
      BY DEF Timeline
    <2>10. TimelineIn(s)'
      <3> DEFINE f == Append(e, Pose(c))
      <3>1. Len(f) = Len(e) + 1 /\ f[Len(f)] = Pose(c) /\ \A i \in 1..Len(e) : f[i] = e[i]
        BY <2>2
      <3>2. Len(e) \in Nat /\ (Len(e) > 0 => e[Len(e)] < Pose(c))
        BY <2>2, <2>8
      <3>3. ASSUME NEW i \in 1..Len(e) PROVE e[i] < Pose(c)
        <4>1. i = Len(e) \/ e[i] < e[Len(e)]
          BY <2>9, <3>2 DEF TimelineIn
        <4>2. e[i] \in Nat /\ e[Len(e)] \in Nat /\ e[Len(e)] < Pose(c)
          BY <2>7, <3>2
        <4>3. QED
          BY <2>7, <4>1, <4>2
      <3>4. \A i, j \in 1..Len(f) : i < j => f[i] < f[j]
        BY <2>2, <2>9, <3>1, <3>3 DEF TimelineIn
      <3>5. Len(d) = Len(e) /\ \A i \in 1..Len(d) : d[i] \in {f[i], None}
        BY <2>3, <2>9, <3>1 DEF TimelineIn
      <3>6. QED
        BY <2>3, <2>4, <2>5, <2>6, <3>1, <3>4, <3>5 DEF TimelineIn
    <2>11. ASSUME NEW t \in Calls \ {s} PROVE TimelineIn(t)'
      <3>1. lock[t] # c
        BY <1>0, <2>1 DEF LockWiring
      <3>2. Halfway(t)' = Halfway(t) /\ (Halfway(t) => Pose(lock[t])' = Pose(lock[t]))
        BY <1>3, <2>5, <3>1 DEF Halfway, Pose, LandPose, TypeOK, arrival, locals
      <3>3. QED
        BY <2>4, <3>2, TimelineStands DEF Timeline
    <2>12. QED
      BY <2>10, <2>11 DEF Timeline
  <1>4. ASSUME NEW c \in Calls, LandState(c) PROVE Timeline'
    <2>1. PICK s \in Calls : s = obj[c]
      BY <1>4, ObjectType DEF LandState, Busy
    <2> DEFINE e == session[s].ego
               d == session[s].states
    <2>2. e \in Seq(Times) /\ d \in Seq(Times \cup {None})
      BY DEF TypeOK, SessionState
    <2>3. lock[s] = c /\ Halfway(s)
      BY <1>0, <1>4, <2>1 DEF LandState, LockWiring, Halfway
    <2>4. /\ session'[s].ego = e /\ session'[s].states = Append(d, StateOf(c))
          /\ \A t \in Calls \ {s} : session'[t] = session[t]
      BY <1>4, <2>1 DEF LandState, TypeOK, SessionState
    <2>5. /\ lock' = lock /\ pc'[c] = "landing" /\ req' = req
          /\ \A k \in Calls \ {c} : pc'[k] = pc[k] /\ step'[k] = step[k]
      BY <1>4 DEF LandState, GoTo, TypeOK, arrival, locals
    <2>6. ~Halfway(s)'
      BY <1>0, <2>3, <2>5 DEF Halfway
    <2>7. StateOf(c) \in {Pose(c), None}
      BY DEF StateOf
    <2>8. TimelineIn(s)
      BY DEF Timeline
    <2>9. TimelineIn(s)'
      <3> DEFINE g == Append(d, StateOf(c))
      <3>1. Len(e) = Len(d) + 1 /\ e[Len(e)] = Pose(c)
        BY <2>3, <2>8 DEF TimelineIn
      <3>2. Len(g) = Len(d) + 1 /\ g[Len(g)] = StateOf(c) /\ \A i \in 1..Len(d) : g[i] = d[i]
        BY <2>2
      <3>3. \A i \in 1..Len(g) : g[i] \in {e[i], None}
        BY <2>2, <2>7, <2>8, <3>1, <3>2 DEF TimelineIn
      <3>4. QED
        BY <2>4, <2>6, <2>8, <3>1, <3>2, <3>3 DEF TimelineIn
    <2>10. ASSUME NEW t \in Calls \ {s} PROVE TimelineIn(t)'
      <3>1. lock[t] # c
        BY <1>0, <2>1 DEF LockWiring
      <3>2. Halfway(t)' = Halfway(t) /\ (Halfway(t) => Pose(lock[t])' = Pose(lock[t]))
        BY <2>5, <3>1 DEF Halfway, Pose, TypeOK
      <3>3. QED
        BY <2>4, <3>2, TimelineStands DEF Timeline
    <2>11. QED
      BY <2>9, <2>10 DEF Timeline
  <1>5. ASSUME NEW c \in Calls, StepOf(c), ~Register(c), ~LandPose(c), ~LandState(c)
        PROVE  Timeline'
    BY <1>5, EgoStands, HalfwayStands, TimelineStands DEF Timeline
  <1>6. QED
    BY <1>1, <1>2, <1>3, <1>4, <1>5 DEF Next, Idle, StepOf

\* However egomotion batches overlap, repeat or go back in time, ego_trajectory is
\* strictly increasing and dynamic_states pairs each pose with its own state.
THEOREM EgoTimelineHolds == Spec => []EgoTimeline
  <1>1. Init => Timeline
    BY DEF Init, Timeline, TimelineIn, Halfway, NewSession
  <1>2. TypeOK /\ Timeline => EgoTimeline
    BY DEF Timeline, TimelineIn, Halfway, EgoTimeline, TypeOK, SessionState
  <1>3. QED
    BY <1>1, <1>2, TimelineStep, WiringHolds, TypeCorrect, PTL DEF Spec
-----------------------------------------------------------------------------
(* One map set per map id                                                  *)

Planning == {"plan", "planning", "commit"}

\* A map set a drive holds is the one _maps keeps for the map its request names, and a
\* map is opened by the holder of _sessions_lock, for an id nobody has opened.
MapOK(c) ==
    /\ mapset[c] # None =>
          /\ Is(c, "drive") /\ pc[c] # "unborn"
          /\ MapId(c) # None /\ mapset[c] = maps[MapId(c)]
    /\ pc[c] = "opening" =>
          sessionsLock = c /\ MapId(c) # None /\ maps[MapId(c)] = None
    /\ pc[c] \in Planning => (mapset[c] = None <=> MapId(c) = None)

MapsOK == \A c \in Calls : MapOK(c)

\* Only an arrival and the two steps of _map touch what MapOK reads.
LEMMA MapsStand ==
    ASSUME Wiring, NEW c \in Calls, StepOf(c), ~Arrive(c), ~GetMap(c), ~OpenMap(c)
    PROVE  /\ UNCHANGED <<sessionsLock, maps, mapset, req>>
           /\ pc'[c] \notin {"opening", "unborn"}
           /\ pc'[c] \in Planning => pc[c] \in Planning
  <1> USE DEF Wiring, TypeOK, GoTo, Answer, servicer, arrival, locals, Planning
  <1>1. CASE RefuseStart(c) \/ Register(c) \/ RejectStart(c) \/ CloseSession(c)
    BY <1>1 DEF RefuseStart, Register, RejectStart, CloseSession
  <1>2. CASE RequireSession(c) \/ SubmitImage(c) \/ BeginEgomotion(c) \/ SkipPose(c)
    BY <1>2 DEF RequireSession, SubmitImage, BeginEgomotion, SkipPose
  <1>3. CASE LandPose(c) \/ LandState(c) \/ EndEgomotion(c) \/ RecordSweep(c)
    BY <1>3 DEF LandPose, LandState, EndEgomotion, RecordSweep
  <1>4. CASE SubmitRoute(c) \/ SubmitGroundTruth(c) \/ GetVehicleCommand(c)
    BY <1>4 DEF SubmitRoute, SubmitGroundTruth, GetVehicleCommand
  <1>5. CASE Commit(c) \/ CallPolicy(c) \/ DriveReturns(c) \/ DriveRaises(c)
    BY <1>5 DEF Commit, CallPolicy, DriveReturns, DriveRaises
  <1>6. CASE PolicyLocks(c) \/ PolicyUnlocks(c)
    BY <1>6 DEF PolicyLocks, PolicyUnlocks, InPolicy
  <1>7. CASE HookReturns(c) \/ HookRaises(c)
    BY <1>7 DEF HookReturns, HookRaises
  <1>8. QED
    BY <1>1, <1>2, <1>3, <1>4, <1>5, <1>6, <1>7 DEF StepOf, Serve, PolicyReturns

LEMMA MapsStep == Wiring /\ MapsOK /\ [Next]_vars => MapsOK'
  <1> SUFFICES ASSUME Wiring, MapsOK, [Next]_vars PROVE MapsOK'
    OBVIOUS
  <1> USE DEF Wiring, TypeOK, MapsOK, MapOK
  <1>0. None \notin Calls
    BY ServicerAssumption
  <1>1. CASE UNCHANGED vars
    BY <1>1 DEF vars, servicer, arrival, locals, MapId, RendererData, Is
  <1>2. ASSUME NEW c \in Calls, Arrive(c) PROVE MapsOK'
    <2>1. pc[c] = "unborn" /\ mapset[c] = None /\ pc'[c] = "arrived"
      BY <1>2 DEF Arrive
    <2>2. UNCHANGED <<sessionsLock, maps, mapset>>
      BY <1>2 DEF Arrive, servicer, locals
    <2>3. OthersStand(c)
      BY <1>2, Others DEF StepOf
    <2>4. QED
      BY <2>1, <2>2, <2>3 DEF OthersStand, MapId, RendererData, Is, Planning
  <1>3. ASSUME NEW c \in Calls, GetMap(c) PROVE MapsOK'
    <2>1. Is(c, "drive") /\ pc[c] = "found" /\ req' = req /\ maps' = maps
      BY <1>3 DEF GetMap, arrival
    <2>2. MapId(c)' = MapId(c)
      BY <2>1 DEF MapId, RendererData
    <2>3. MapOK(c)'
      <3>1. CASE MapId(c) = None /\ GoTo(c, "plan") /\ UNCHANGED <<sessionsLock, mapset>>
        BY <2>1, <2>2, <3>1 DEF GoTo, Is
      <3>2. CASE /\ MapId(c) # None /\ Opened(MapId(c)) /\ GoTo(c, "plan")
                 /\ mapset' = [mapset EXCEPT ![c] = maps[MapId(c)]]
        BY <2>1, <2>2, <3>2 DEF GoTo, Is, Opened
      <3>3. CASE /\ MapId(c) # None /\ ~Opened(MapId(c)) /\ GoTo(c, "opening")
                 /\ sessionsLock' = c /\ mapset' = mapset
        BY <2>1, <2>2, <3>3 DEF GoTo, Is, Opened, Planning
      <3>4. QED
        BY <1>3, <3>1, <3>2, <3>3 DEF GetMap
    <2>4. ASSUME NEW d \in Calls \ {c} PROVE MapOK(d)'
      <3>1. pc'[d] = pc[d] /\ mapset'[d] = mapset[d] /\ MapId(d)' = MapId(d)
        BY <1>3, <2>1, Others DEF StepOf, Serve, OthersStand, MapId, RendererData
      <3>2. sessionsLock' = sessionsLock \/ sessionsLock = None
        BY <1>3 DEF GetMap
      <3>3. QED
        BY <1>0, <2>1, <3>1, <3>2 DEF Is
    <2>5. QED
      BY <2>3, <2>4
  <1>4. ASSUME NEW c \in Calls, OpenMap(c) PROVE MapsOK'
    <2>1. pc[c] = "opening" /\ sessionsLock = c /\ maps[MapId(c)] = None /\ req' = req
          /\ MapId(c) # None
      BY <1>4 DEF OpenMap, arrival
    <2>2. req[c].rpc = "drive" /\ req[c] # None
      BY <2>1, Serving DEF CallWiring, CallOK
    <2>3. MapId(c) \in MapIds /\ MapId(c)' = MapId(c)
      BY <2>1, <2>2, SweepsType DEF MapId, RendererData
    <2>4. mapset[c] = None
      BY <2>1
    <2>5. /\ \A m \in MapIds \ {MapId(c)} : maps'[m] = maps[m]
          /\ \/ maps'[MapId(c)] = c /\ mapset'[c] = c /\ pc'[c] = "plan"
             \/ maps' = maps /\ mapset' = mapset /\ pc'[c] = "done"
      BY <1>4, <2>3 DEF OpenMap, GoTo, Answer
    <2>6. MapOK(c)'
      BY <1>0, <2>1, <2>2, <2>3, <2>4, <2>5 DEF Planning, Is
    <2>7. ASSUME NEW d \in Calls \ {c} PROVE MapOK(d)'
      <3>1. pc'[d] = pc[d] /\ mapset'[d] = mapset[d] /\ MapId(d)' = MapId(d)
        BY <1>4, <2>1, Others DEF StepOf, Serve, OthersStand, MapId, RendererData
      <3>2. pc[d] # "opening"
        BY <2>1
      <3>3. mapset[d] # None => MapId(d) \in MapIds /\ MapId(d) # MapId(c)
        BY <2>1, SweepsType DEF Is
      <3>4. QED
        BY <2>1, <2>5, <3>1, <3>2, <3>3 DEF Is
    <2>8. QED
      BY <2>6, <2>7
  <1>5. ASSUME NEW c \in Calls, StepOf(c), ~Arrive(c), ~GetMap(c), ~OpenMap(c)
        PROVE  MapsOK'
    <2>1. UNCHANGED <<sessionsLock, maps, mapset, req>> /\ OthersStand(c)
      BY <1>5, MapsStand, Others
    <2>2. \A d \in Calls : MapId(d)' = MapId(d) /\ Is(d, "drive")' = Is(d, "drive")
      BY <2>1 DEF MapId, RendererData, Is
    <2>3. \A d \in Calls : /\ pc'[d] = "opening" => pc[d] = "opening"
                           /\ pc'[d] \in Planning => pc[d] \in Planning
                           /\ pc'[d] = "unborn" => pc[d] = "unborn"
      BY <1>5, <2>1, MapsStand DEF OthersStand
    <2>4. QED
      BY <2>1, <2>2, <2>3
  <1>6. QED
    BY <1>1, <1>2, <1>3, <1>4, <1>5 DEF Next, Idle, StepOf, Serve

\* Drives that name one map share one opened map set, however many race to open it and
\* however many opens fail, and a drive plans with a map set exactly when a policy that
\* asks for maps is sent a map id.
THEOREM OneMap == Spec => []OneMapPerId
  <1>1. Init => MapsOK
    BY DEF Init, MapsOK, MapOK, Planning
  <1>2. MapsOK => OneMapPerId
    BY DEF MapsOK, MapOK, OneMapPerId, Planning
  <1>3. QED
    BY <1>1, <1>2, MapsStep, WiringHolds, PTL DEF Spec

-----------------------------------------------------------------------------
(* An ended session stays ended                                            *)

\* A call that ended a session and was answered.
Ended(k) ==
    /\ pc[k] = "done" /\ obj[k] # None
    /\ Is(k, "close_session") \/ reply[k].status = "FAILED_PRECONDITION"

\* What an ended session left, no uuid leads back to.
Gone == \A k \in Calls : Ended(k) => \A u \in Uuids : sessions[u] # obj[k]

\* The calls a client had seen answered are answered.
Past == \A c \in Calls : \A k \in before[c] : pc[k] = "done"

\* Of the calls that work on a session, only a refused start answers
\* FAILED_PRECONDITION.
LEMMA OnlyRejected ==
    ASSUME Wiring, NEW c \in Calls, StepOf(c), ~RejectStart(c), Ended(c)'
    PROVE  CloseSession(c) \/ Is(c, "close_session")
  <1> USE DEF Wiring, TypeOK, GoTo, Answer, servicer, arrival, locals, Ended, Is
  <1>1. CASE Arrive(c) \/ RequireSession(c) \/ CloseSession(c)
    BY <1>1 DEF Arrive, RequireSession, CloseSession
  <1>2. CASE RefuseStart(c) \/ Register(c)
    BY <1>2 DEF RefuseStart, Register, CallWiring, CallOK
  <1>3. CASE SubmitImage(c) \/ BeginEgomotion(c) \/ SkipPose(c) \/ RecordSweep(c)
    BY <1>3 DEF SubmitImage, BeginEgomotion, SkipPose, RecordSweep
  <1>4. CASE LandPose(c) \/ LandState(c) \/ EndEgomotion(c) \/ CallPolicy(c)
    BY <1>4 DEF LandPose, LandState, EndEgomotion, CallPolicy
  <1>5. CASE SubmitRoute(c) \/ SubmitGroundTruth(c) \/ GetVehicleCommand(c)
    BY <1>5 DEF SubmitRoute, SubmitGroundTruth, GetVehicleCommand
  <1>6. CASE GetMap(c) \/ OpenMap(c) \/ Commit(c)
    BY <1>6 DEF GetMap, OpenMap, Commit
  <1>7. CASE PolicyLocks(c) \/ PolicyUnlocks(c)
    BY <1>7 DEF PolicyLocks, PolicyUnlocks, InPolicy
  <1>8. CASE HookReturns(c) \/ HookRaises(c)
    BY <1>8 DEF HookReturns, HookRaises
  <1>9. CASE DriveReturns(c) \/ DriveRaises(c)
    BY <1>9 DEF DriveReturns, DriveRaises
  <1>10. QED
    BY <1>1, <1>2, <1>3, <1>4, <1>5, <1>6, <1>7, <1>8, <1>9 DEF StepOf, Serve,
       PolicyReturns

\* Only an arrival looks at what is answered.
LEMMA BeforeStands ==
    ASSUME Wiring, NEW c \in Calls, StepOf(c), ~Arrive(c)
    PROVE  before' = before
  BY DEF StepOf, Serve, PolicyReturns, arrival, RefuseStart, Register, RejectStart,
     CloseSession, RequireSession, SubmitImage, BeginEgomotion, SkipPose, LandPose, LandState,
     EndEgomotion, SubmitRoute, SubmitGroundTruth, RecordSweep, GetMap, OpenMap, Commit,
     GetVehicleCommand, CallPolicy, PolicyLocks, PolicyUnlocks, HookReturns, HookRaises,
     DriveReturns, DriveRaises

\* Only an arrival gives a call its request.
LEMMA RequestStands ==
    ASSUME Wiring, NEW c \in Calls, StepOf(c), ~Arrive(c)
    PROVE  pc[c] # "unborn" /\ req' = req
  BY DEF StepOf, Serve, PolicyReturns, arrival, RefuseStart, Register, RejectStart,
     CloseSession, RequireSession, SubmitImage, BeginEgomotion, SkipPose, LandPose, LandState,
     EndEgomotion, SubmitRoute, SubmitGroundTruth, RecordSweep, GetMap, OpenMap, Commit,
     GetVehicleCommand, CallPolicy, PolicyLocks, PolicyUnlocks, HookReturns, HookRaises,
     DriveReturns, DriveRaises, InPolicy

\* A step puts into the registry nothing but the object it creates.
LEMMA RegistryStands ==
    ASSUME Wiring, NEW c \in Calls, StepOf(c), NEW u \in Uuids, sessions'[u] # None
    PROVE  sessions'[u] = sessions[u] \/ (Register(c) /\ sessions'[u] = c)
  <1> USE DEF Wiring, TypeOK, servicer
  <1>1. CASE Arrive(c) \/ RequireSession(c)
    BY <1>1 DEF Arrive, RequireSession
  <1>2. CASE Register(c)
    BY <1>2 DEF Register
  <1>3. CASE RejectStart(c) \/ CloseSession(c)
    BY <1>3 DEF RejectStart, CloseSession, WithoutSession
  <1>4. QED
    BY <1>1, <1>2, <1>3, ObjectStands

\* Nobody has the object a start is about to create.
LEMMA Fresh ==
    ASSUME Wiring, NEW c \in Calls, obj[c] = None
    PROVE  \A k \in Calls : obj[k] # c
  BY ServicerAssumption DEF Wiring, ObjectWiring

LEMMA GoneStep == Wiring /\ Taken /\ Gone /\ [Next]_vars => Gone'
  <1> SUFFICES ASSUME Wiring, Taken, Gone, [Next]_vars PROVE Gone'
    OBVIOUS
  <1>0. None \notin Calls /\ Taken' /\ Wiring'
    BY TakenStep, WiringStep, ServicerAssumption
  <1>1. CASE UNCHANGED vars
    BY <1>1 DEF vars, servicer, arrival, locals, Gone, Ended, Is
  <1>2. ASSUME NEW c \in Calls, StepOf(c), NEW k \in Calls, Ended(k)', NEW u \in Uuids
        PROVE  sessions'[u] # obj'[k]
    <2>1. CASE Is(k, "close_session")'
      BY <1>0, <1>2, <2>1 DEF Taken, Takeable, Ended
    <2>2. CASE ~Is(k, "close_session")' /\ k # c
      <3>1. Ended(k) /\ obj'[k] = obj[k]
        BY <1>2, <2>2, Others DEF Wiring, OthersStand, Ended, Is
      <3>2. Register(c) => obj[k] # c
        BY <3>1, Fresh DEF Register, Wiring, CallWiring, CallOK
      <3>3. QED
        BY <1>2, <3>1, <3>2, RegistryStands DEF Gone, Ended
    <2>3. CASE ~Is(k, "close_session")' /\ k = c
      <3>1. CASE RejectStart(c)
        <4>1. obj' = obj /\ req' = req /\ pc[c] = "reject"
          BY <3>1 DEF RejectStart, arrival, locals
        <4>2. obj[c] \in Calls /\ req[c].rpc = "start_session" /\ req[c] # None
              /\ req[c].uuid \in Uuids
          BY <4>1, Serving, ObjectType DEF Busy, Wiring, CallWiring, CallOK
        <4>3. obj[c] = c
          BY <1>0, <4>2 DEF Wiring, ObjectWiring, Is
        <4>4. sessions'[req[c].uuid] = None
          BY <3>1, <4>2 DEF RejectStart, WithoutSession, Wiring, TypeOK
        <4>5. sessions'[u] = c => req'[c].uuid = u
          BY <1>0 DEF Wiring, ObjectWiring
        <4>6. QED
          BY <1>0, <2>3, <4>1, <4>3, <4>4, <4>5
      <3>2. CASE ~RejectStart(c)
        <4>1. CloseSession(c) \/ Is(c, "close_session")
          BY <1>2, <2>3, <3>2, OnlyRejected
        <4>2. Is(c, "close_session") /\ ~Arrive(c)
          BY <1>2, <2>3, <4>1 DEF CloseSession, Arrive, Ended, Answer, GoTo, Wiring, TypeOK
        <4>3. req'[c] = req[c]
          BY <1>2, <4>2, MapsStand DEF GetMap, OpenMap, arrival
        <4>4. QED
          BY <2>3, <4>2, <4>3 DEF Is
      <3>3. QED
        BY <3>1, <3>2
    <2>4. QED
      BY <2>1, <2>2, <2>3
  <1>3. QED
    BY <1>1, <1>2 DEF Next, Idle, StepOf, Gone

\* What a client saw answered before it called stays what it was.
LEMMA BeforeWas ==
    ASSUME Wiring, Past, NEW c \in Calls, StepOf(c), NEW d \in Calls, NEW k \in before'[d]
    PROVE  /\ k \in Calls \ {c} /\ pc[k] = "done" /\ (k \in before[d] \/ Arrive(d))
           /\ pc'[k] = pc[k] /\ req'[k] = req[k] /\ obj'[k] = obj[k] /\ reply'[k] = reply[k]
  <1>0. before \in [Calls -> SUBSET Calls]
    BY DEF Wiring, TypeOK
  <1>1. OthersStand(c) /\ pc[c] # "done"
    BY Others, DoneStands DEF Wiring
  <1>2. CASE Arrive(c) /\ d = c
    <2>1. before'[c] \subseteq Answered
      BY <1>0, <1>2 DEF Arrive
    <2>2. QED
      BY <1>1, <1>2, <2>1 DEF Answered, OthersStand
  <1>3. CASE Arrive(c) /\ d # c
    <2>1. before'[d] = before[d]
      BY <1>0, <1>3 DEF Arrive
    <2>2. QED
      BY <1>0, <1>1, <2>1 DEF Past, OthersStand
  <1>4. CASE ~Arrive(c)
    BY <1>0, <1>1, <1>4, BeforeStands DEF Past, OthersStand
  <1>5. QED
    BY <1>2, <1>3, <1>4

LEMMA PastStep == Wiring /\ Past /\ [Next]_vars => Past'
  <1> SUFFICES ASSUME Wiring, Past, [Next]_vars PROVE Past'
    OBVIOUS
  <1>1. CASE UNCHANGED vars
    BY <1>1 DEF vars, arrival, Past
  <1>2. ASSUME NEW c \in Calls, StepOf(c) PROVE Past'
    BY <1>2, BeforeWas DEF Past
  <1>3. QED
    BY <1>1, <1>2 DEF Next, Idle, StepOf

LEMMA EndedStep ==
    Wiring /\ Gone /\ Past /\ EndedStaysEnded /\ [Next]_vars => EndedStaysEnded'
  <1> SUFFICES ASSUME Wiring, Gone, Past, EndedStaysEnded, [Next]_vars
               PROVE  EndedStaysEnded'
    OBVIOUS
  <1>1. CASE UNCHANGED vars
    BY <1>1 DEF vars, servicer, arrival, locals, EndedStaysEnded, Is
  <1>2. ASSUME NEW c \in Calls, StepOf(c), NEW d \in Calls, NEW k \in before'[d],
               obj'[k] # None,
               Is(k, "close_session")' \/ reply'[k].status = "FAILED_PRECONDITION"
        PROVE  obj'[d] # obj'[k]
    <2>1. /\ k \in Calls \ {c} /\ Ended(k) /\ obj'[k] = obj[k]
          /\ k \in before[d] \/ Arrive(d)
      BY <1>2, BeforeWas DEF Ended, Is
    <2>2. CASE Arrive(d)
      BY <1>2, <2>1, <2>2 DEF Arrive, locals, Ended, Wiring, CallWiring, CallOK
    <2>3. CASE ~Arrive(d) /\ obj'[d] = obj[d]
      BY <2>1, <2>3 DEF EndedStaysEnded, Ended
    <2>4. CASE ~Arrive(d) /\ obj'[d] # obj[d]
      <3>1. d = c
        BY <1>2, <2>4, Others DEF OthersStand, Wiring
      <3>2. CASE Register(c)
        <4>1. obj[k] # c
          BY <2>1, <3>2, Fresh DEF Register, Wiring, CallWiring, CallOK
        <4>2. QED
          BY <2>1, <3>1, <3>2, <4>1 DEF Register, Wiring, TypeOK
      <3>3. CASE CloseSession(c) \/ RequireSession(c)
        <4>1. req[c].uuid \in Uuids
          BY <3>3, Serving DEF CloseSession, RequireSession
        <4>2. obj'[c] = sessions[req[c].uuid]
          BY <2>4, <3>1, <3>3 DEF CloseSession, RequireSession, Wiring, TypeOK
        <4>3. QED
          BY <2>1, <3>1, <4>1, <4>2 DEF Gone
      <3>4. CASE RejectStart(c)
        BY <2>4, <3>1, <3>4 DEF RejectStart, locals
      <3>5. QED
        BY <1>2, <2>4, <3>1, <3>2, <3>3, <3>4, ObjectStands DEF locals
    <2>5. QED
      BY <2>2, <2>3, <2>4
  <1>3. QED
    BY <1>1, <1>2 DEF Next, Idle, StepOf, EndedStaysEnded

\* Once the close of a session, or the start its policy refused, is answered, no later
\* call for the uuid reaches that session, however many sessions follow it there.
THEOREM EndedIsFinal == Spec => []EndedStaysEnded
  <1>1. Init => Taken /\ Gone /\ Past /\ EndedStaysEnded
    BY DEF Init, Taken, Takeable, ClosedOnce, Gone, Ended, Past, EndedStaysEnded, Is
  <1>2. QED
    BY <1>1, TakenStep, GoneStep, PastStep, EndedStep, WiringHolds, PTL DEF Spec

-----------------------------------------------------------------------------
(* How a start ends, and whose session a call works on                     *)

\* What a step does to a start_session that has arrived.
StartMoves(c) ==
    \/ /\ pc[c] = "arrived" /\ pc'[c] = "done" /\ obj' = obj /\ reply'[c].status # "OK"
    \/ /\ pc[c] = "arrived" /\ pc'[c] = "announce" /\ obj'[c] = c /\ UNCHANGED reply
    \/ /\ pc[c] = "announce" /\ pc'[c] = "policy" /\ UNCHANGED <<obj, reply>>
    \/ /\ UNCHANGED <<pc, obj, reply>> /\ pc[c] # "arrived"
    \/ /\ pc[c] = "policy" /\ pc'[c] = "done" /\ obj' = obj /\ reply'[c].status = "OK"
    \/ /\ pc[c] = "policy" /\ pc'[c] = "reject" /\ UNCHANGED <<obj, reply>>
    \/ /\ pc[c] = "reject" /\ pc'[c] = "done" /\ obj' = obj
       /\ reply'[c].status = "FAILED_PRECONDITION"
       /\ sessions' = WithoutSession(req[c].uuid)

LEMMA StartSteps ==
    ASSUME Wiring, NEW c \in Calls, StepOf(c), ~Arrive(c), Is(c, "start_session")
    PROVE  StartMoves(c)
  <1> USE DEF Wiring, TypeOK, GoTo, Answer, locals, Is, StartMoves
  <1>1. CASE RefuseStart(c)
    BY <1>1 DEF RefuseStart
  <1>2. CASE Register(c)
    BY <1>2 DEF Register
  <1>3. CASE RejectStart(c)
    BY <1>3 DEF RejectStart
  <1>4. CASE CallPolicy(c)
    BY <1>4 DEF CallPolicy, CallWiring, CallOK
  <1>5. CASE PolicyLocks(c) \/ PolicyUnlocks(c)
    BY <1>5 DEF PolicyLocks, PolicyUnlocks, InPolicy
  <1>6. CASE HookReturns(c) \/ HookRaises(c)
    BY <1>6 DEF HookReturns, HookRaises
  <1>7. ~CloseSession(c) /\ ~RequireSession(c) /\ ~SubmitImage(c) /\ ~BeginEgomotion(c)
        /\ ~SkipPose(c) /\ ~LandPose(c) /\ ~LandState(c) /\ ~EndEgomotion(c)
    BY DEF CloseSession, RequireSession, SubmitImage, BeginEgomotion, SkipPose, LandPose,
       LandState, EndEgomotion, CallWiring, CallOK
  <1>8. ~SubmitRoute(c) /\ ~SubmitGroundTruth(c) /\ ~RecordSweep(c) /\ ~GetMap(c)
        /\ ~OpenMap(c) /\ ~Commit(c) /\ ~GetVehicleCommand(c) /\ ~DriveReturns(c)
        /\ ~DriveRaises(c)
    BY DEF SubmitRoute, SubmitGroundTruth, RecordSweep, GetMap, OpenMap, Commit,
       GetVehicleCommand, DriveReturns, DriveRaises, CallWiring, CallOK
  <1>9. QED
    BY <1>1, <1>2, <1>3, <1>4, <1>5, <1>6, <1>7, <1>8 DEF StepOf, Serve, PolicyReturns

\* A start that registered a session is answered by its policy: OK, or refused.
StartAnswered ==
    \A s \in Calls :
        Is(s, "start_session") /\ pc[s] = "done" /\ obj[s] # None
        => reply[s].status \in {"OK", "FAILED_PRECONDITION"}

LEMMA StartAnsweredStep == Wiring /\ StartAnswered /\ [Next]_vars => StartAnswered'
  <1> SUFFICES ASSUME Wiring, StartAnswered, [Next]_vars PROVE StartAnswered'
    OBVIOUS
  <1>1. CASE UNCHANGED vars
    BY <1>1 DEF vars, arrival, locals, StartAnswered, Is
  <1>2. ASSUME NEW c \in Calls, StepOf(c), NEW s \in Calls, Is(s, "start_session")',
               pc'[s] = "done", obj'[s] # None
        PROVE  reply'[s].status \in {"OK", "FAILED_PRECONDITION"}
    <2>1. CASE s # c
      BY <1>2, <2>1, Others DEF Wiring, OthersStand, StartAnswered, Is
    <2>2. CASE s = c
      <3>1. ~Arrive(c)
        BY <1>2, <2>2 DEF Arrive, Wiring, TypeOK
      <3>2. Is(c, "start_session") /\ pc[c] # "done"
        BY <1>2, <2>2, <3>1, RequestStands, DoneStands DEF Is
      <3>3. StartMoves(c)
        BY <1>2, <3>1, <3>2, StartSteps
      <3>4. pc[c] = "arrived" => obj[c] = None
        BY DEF Wiring, CallWiring, CallOK
      <3>5. QED
        BY <1>2, <2>2, <3>2, <3>3, <3>4 DEF StartMoves
    <2>3. QED
      BY <2>1, <2>2
  <1>3. QED
    BY <1>1, <1>2 DEF Next, Idle, StepOf, StartAnswered

LEMMA StartAnsweredHolds == Spec => []StartAnswered
  <1>1. Init => StartAnswered
    BY DEF Init, StartAnswered
  <1>2. QED
    BY <1>1, StartAnsweredStep, WiringHolds, PTL DEF Spec

\* A call works on the session of its uuid.
OwnUuid == \A c \in Calls : obj[c] # None => req[obj[c]].uuid = req[c].uuid

LEMMA OwnUuidStep == Wiring /\ OwnUuid /\ [Next]_vars => OwnUuid'
  <1> SUFFICES ASSUME Wiring, OwnUuid, [Next]_vars PROVE OwnUuid'
    OBVIOUS
  <1>0. None \notin Calls
    BY ServicerAssumption
  <1>1. CASE UNCHANGED vars
    BY <1>1 DEF vars, arrival, locals, OwnUuid
  <1>2. ASSUME NEW c \in Calls, StepOf(c), NEW k \in Calls, obj'[k] # None
        PROVE  req'[obj'[k]].uuid = req'[k].uuid
    <2>1. CASE obj[k] # None
      <3>1. obj[k] \in Calls /\ obj[obj[k]] # None
        BY <1>0, <2>1 DEF Wiring, TypeOK, ObjectWiring
      <3>2. obj'[k] = obj[k] /\ req'[k] = req[k] /\ req'[obj[k]] = req[obj[k]]
        BY <1>2, <2>1, <3>1, ObjectKept
      <3>3. QED
        BY <2>1, <3>2 DEF OwnUuid
    <2>2. CASE obj[k] = None
      <3>1. k = c /\ obj' # obj
        BY <1>2, <2>2, Others DEF Wiring, OthersStand
      <3>2. CASE Register(c)
        BY <3>1, <3>2 DEF Register, Wiring, TypeOK
      <3>3. CASE CloseSession(c) \/ RequireSession(c)
        <4>1. obj'[c] = sessions[req[c].uuid] /\ req' = req /\ req[c].uuid \in Uuids
          BY <1>2, <2>2, <3>1, <3>3, Serving
          DEF CloseSession, RequireSession, arrival, Wiring, TypeOK
        <4>2. QED
          BY <1>2, <3>1, <4>1 DEF Wiring, ObjectWiring
      <3>4. CASE RejectStart(c) \/ Arrive(c)
        BY <3>1, <3>4 DEF RejectStart, Arrive, locals
      <3>5. QED
        BY <1>2, <3>1, <3>2, <3>3, <3>4, ObjectStands DEF locals
    <2>3. QED
      BY <2>1, <2>2
  <1>3. QED
    BY <1>1, <1>2 DEF Next, Idle, StepOf, OwnUuid

LEMMA OwnUuidHolds == Spec => []OwnUuid
  <1>1. Init => OwnUuid
    BY DEF Init, OwnUuid
  <1>2. QED
    BY <1>1, OwnUuidStep, WiringHolds, PTL DEF Spec

-----------------------------------------------------------------------------
(* Frames                                                                  *)

\* Trimming keeps the newest frames: at least one of a history that has any, at most
\* frame_history_length, and none the history did not have.
LEMMA TrimKeeps ==
    ASSUME NEW h \in Seq(Times)
    PROVE  /\ Len(Trim(h)) <= 1 \/ Len(Trim(h)) <= FrameHistoryLength
           /\ h # <<>> => Trim(h) # <<>>
           /\ \A i \in 1..Len(Trim(h)) : \E j \in 1..Len(h) : Trim(h)[i] = h[j]
  <1>1. FrameHistoryLength \in Int
    BY ServicerAssumption
  <1> DEFINE n == IF FrameHistoryLength > 1 THEN FrameHistoryLength ELSE 1
             first == Len(h) - n + 1
  <1>2. n \in Nat /\ n > 0 /\ (n <= 1 \/ n <= FrameHistoryLength)
    BY <1>1
  <1>3. CASE Len(h) > n
    <2>1. Trim(h) = SubSeq(h, first, Len(h))
      BY <1>3 DEF Trim, Trimmed
    <2>2. first \in 1..Len(h)
      BY <1>2, <1>3
    <2>3. Len(SubSeq(h, first, Len(h))) = n
      BY <1>2, <2>2
    <2>4. \A i \in 1..n : SubSeq(h, first, Len(h))[i] = h[first + i - 1]
                          /\ first + i - 1 \in 1..Len(h)
      BY <1>2, <2>2
    <2>5. Len(Trim(h)) = n
      BY <2>1, <2>3
    <2>6. ASSUME NEW i \in 1..n PROVE \E j \in 1..Len(h) : Trim(h)[i] = h[j]
      <3>1. Trim(h)[i] = h[first + i - 1] /\ first + i - 1 \in 1..Len(h)
        BY <2>1, <2>4
      <3>2. QED
        BY <3>1
    <2>7. Trim(h) # <<>>
      BY <1>2, <2>5
    <2>8. QED
      BY <1>2, <2>5, <2>6, <2>7
  <1>4. CASE ~(Len(h) > n)
    <2>1. Trim(h) = h
      BY <1>4 DEF Trim, Trimmed
    <2>2. Len(h) \in Nat /\ Len(h) <= n
      BY <1>2, <1>4
    <2>3. QED
      BY <1>1, <1>2, <2>1, <2>2
  <1>5. QED
    BY <1>3, <1>4

\* Recording a frame changes one history of one session.
LEMMA RecordOne ==
    ASSUME Wiring, NEW s \in Calls, NEW f \in Frame, RecordFrame(s, f)
    PROVE  /\ \A t \in Calls : /\ session'[t].cameras = session[t].cameras
                               /\ session'[t].ego = session[t].ego
                               /\ session'[t].route = session[t].route
                               /\ session'[t].truth = session[t].truth
           /\ \A t \in Calls, k \in Sensors :
                 t # s \/ k # f.sensor => session'[t].frames[k] = session[t].frames[k]
           /\ session'[s].frames[f.sensor] = Trim(Append(session[s].frames[f.sensor], f.time))
  <1> DEFINE old == session[s]
             kept == Trim(Append(old.frames[f.sensor], f.time))
  <1>1. session \in [Calls -> SessionState] /\ f.sensor \in Sensors
    BY DEF Wiring, TypeOK, Frame
  <1>2. session' = [session EXCEPT ![s] =
                      [old EXCEPT !.frames = [old.frames EXCEPT ![f.sensor] = kept]]]
    BY <1>1 DEF RecordFrame, SessionState
  <1>3. old.frames \in [Sensors -> Seq(Times)]
    BY <1>1 DEF SessionState
  <1>4. session'[s] = [old EXCEPT !.frames = [old.frames EXCEPT ![f.sensor] = kept]]
        /\ \A t \in Calls \ {s} : session'[t] = session[t]
    BY <1>1, <1>2
  <1>5. session'[s].frames = [old.frames EXCEPT ![f.sensor] = kept]
        /\ session'[s].cameras = old.cameras /\ session'[s].ego = old.ego
        /\ session'[s].route = old.route /\ session'[s].truth = old.truth
    BY <1>1, <1>4 DEF SessionState
  <1>6. QED
    BY <1>1, <1>3, <1>4, <1>5, ZenonT(60)

\* The frame a submit_image or a drive records is one of a sensor.
LEMMA Recorded ==
    ASSUME Wiring, NEW c \in Calls, pc[c] = "found"
    PROVE  /\ obj[c] \in Calls
           /\ Is(c, "submit_image") => req[c].frame \in Frame
           /\ Is(c, "drive") /\ step[c] < Len(Sweeps(c)) =>
                 /\ step[c] + 1 \in 1..Len(Sweeps(c))
                 /\ Sweeps(c)[step[c] + 1] \in Frame
  <1>1. obj[c] \in Calls /\ (Is(c, "submit_image") => req[c].frame \in Frame)
    BY ObjectType, Serving DEF Busy, Is
  <1>2. ASSUME Is(c, "drive"), step[c] < Len(Sweeps(c))
        PROVE  step[c] + 1 \in 1..Len(Sweeps(c)) /\ Sweeps(c)[step[c] + 1] \in Frame
    <2>1. Sweeps(c) \in Seq(Frame) /\ step[c] \in Nat
      BY <1>2, SweepsType DEF Is, Wiring, TypeOK
    <2>2. step[c] + 1 \in 1..Len(Sweeps(c))
      BY <1>2, <2>1
    <2>3. QED
      BY <2>1, <2>2
  <1>3. QED
    BY <1>1, <1>2

\* A step that records no frame and creates no session leaves every history alone,
\* and the cameras sessions declared.
LEMMA FramesStand ==
    ASSUME Wiring, NEW c \in Calls, StepOf(c), ~Register(c), ~SubmitImage(c), ~RecordSweep(c)
    PROVE  \A s \in Calls : /\ session'[s].frames = session[s].frames
                            /\ session'[s].cameras = session[s].cameras
  <1> USE DEF Wiring, TypeOK, SessionState, servicer, arrival, locals
  <1>1. CASE UNCHANGED session
    BY <1>1
  <1>2. CASE LandPose(c)
    <2>1. obj[c] \in Calls /\ session[obj[c]] \in SessionState
      BY <1>2, ObjectType DEF LandPose, Busy
    <2>2. QED
      BY <1>2, <2>1 DEF LandPose
  <1>3. CASE LandState(c)
    <2>1. obj[c] \in Calls /\ session[obj[c]] \in SessionState
      BY <1>3, ObjectType DEF LandState, Busy
    <2>2. QED
      BY <1>3, <2>1 DEF LandState
  <1>4. CASE SubmitRoute(c)
    <2>1. obj[c] \in Calls /\ session[obj[c]] \in SessionState
      BY <1>4, ObjectType DEF SubmitRoute, Busy
    <2>2. QED
      BY <1>4, <2>1 DEF SubmitRoute, Target
  <1>5. CASE SubmitGroundTruth(c)
    <2>1. obj[c] \in Calls /\ session[obj[c]] \in SessionState
      BY <1>5, ObjectType DEF SubmitGroundTruth, Busy
    <2>2. QED
      BY <1>5, <2>1 DEF SubmitGroundTruth, Target
  <1>6. CASE Commit(c)
    <2>1. obj[c] \in Calls /\ session[obj[c]] \in SessionState
      BY <1>6, ObjectType DEF Commit, Busy
    <2>2. QED
      BY <1>6, <2>1 DEF Commit
  <1>7. QED
    BY <1>1, <1>2, <1>3, <1>4, <1>5, <1>6 DEF StepOf, Serve, PolicyReturns, Arrive,
       RefuseStart, RejectStart, CloseSession, RequireSession, BeginEgomotion, SkipPose,
       EndEgomotion, GetMap, OpenMap, GetVehicleCommand, CallPolicy, PolicyLocks,
       PolicyUnlocks, HookReturns, HookRaises, DriveReturns, DriveRaises

\* A registration resets only the session it creates, which no call works on yet.
LEMMA RegisterOne ==
    ASSUME Wiring, NEW c \in Calls, Register(c)
    PROVE  /\ session'[c] = NewSession(req[c].cameras)
           /\ \A s \in Calls \ {c} : session'[s] = session[s]
           /\ \A k \in Calls : obj[k] # c
  BY Fresh DEF Register, Wiring, TypeOK, CallWiring, CallOK

\* A history with a frame keeps one.
LEMMA FrameStays ==
    ASSUME Wiring, NEW c \in Calls, StepOf(c), NEW d \in Calls, obj[d] \in Calls,
           NEW k \in Sensors, session[obj[d]].frames[k] # <<>>
    PROVE  session'[obj[d]].frames[k] # <<>>
  <1>1. CASE Register(c)
    BY <1>1, RegisterOne
  <1>2. ASSUME NEW s \in Calls, NEW f \in Frame, RecordFrame(s, f)
        PROVE  session'[obj[d]].frames[k] # <<>>
    <2>1. CASE obj[d] = s /\ k = f.sensor
      <3>1. session[s].frames[k] \in Seq(Times) /\ f.time \in Times
        BY DEF Wiring, TypeOK, SessionState, Frame
      <3>2. /\ Append(session[s].frames[k], f.time) \in Seq(Times)
            /\ Append(session[s].frames[k], f.time) # <<>>
        BY <3>1
      <3>3. QED
        BY <1>2, <2>1, <3>2, RecordOne, TrimKeeps
    <2>2. QED
      BY <1>2, <2>1, RecordOne
  <1>3. CASE SubmitImage(c)
    <2>1. session' = session \/ RecordFrame(obj[c], req[c].frame)
      BY <1>3 DEF SubmitImage
    <2>2. QED
      BY <1>2, <1>3, <2>1, Recorded DEF SubmitImage
  <1>4. CASE RecordSweep(c)
    BY <1>2, <1>4, Recorded DEF RecordSweep
  <1>5. QED
    BY <1>1, <1>3, <1>4, FramesStand

\* A call of an observation hook has recorded the frame the hook is about.
Held(c) ==
    pc[c] \in {"announce", "policy"} =>
        /\ Is(c, "submit_image") => session[obj[c]].frames[req[c].frame.sensor] # <<>>
        /\ Is(c, "drive") => /\ step[c] \in 1..Len(Sweeps(c))
                             /\ session[obj[c]].frames[Sweeps(c)[step[c]].sensor] # <<>>

Short(s) ==
    \A k \in Sensors :
        Len(session[s].frames[k]) <= 1 \/ Len(session[s].frames[k]) <= FrameHistoryLength

Framed == \A c \in Calls : Short(c) /\ Held(c)

\* The hook of a frame is only reached by recording one.
LEMMA ToTheHook ==
    ASSUME Wiring, NEW c \in Calls, StepOf(c), ~SubmitImage(c), ~RecordSweep(c),
           Is(c, "submit_image")' \/ Is(c, "drive")', pc'[c] \in {"announce", "policy"}
    PROVE  pc[c] \in {"announce", "policy"} /\ UNCHANGED <<session, obj, req, step>>
  <1> USE DEF Wiring, TypeOK, GoTo, Answer, servicer, arrival, locals, Is
  <1>1. CASE RefuseStart(c) \/ Register(c) \/ RejectStart(c) \/ CloseSession(c)
    BY <1>1 DEF RefuseStart, Register, RejectStart, CloseSession
  <1>2. CASE Arrive(c) \/ RequireSession(c) \/ BeginEgomotion(c) \/ SkipPose(c)
    BY <1>2 DEF Arrive, RequireSession, BeginEgomotion, SkipPose
  <1>3. CASE LandPose(c) \/ LandState(c) \/ EndEgomotion(c)
    BY <1>3 DEF LandPose, LandState, EndEgomotion, CallWiring, CallOK
  <1>4. CASE SubmitRoute(c) \/ SubmitGroundTruth(c) \/ GetVehicleCommand(c)
    BY <1>4 DEF SubmitRoute, SubmitGroundTruth, GetVehicleCommand
  <1>5. CASE Commit(c) \/ CallPolicy(c) \/ DriveReturns(c) \/ DriveRaises(c)
    BY <1>5 DEF Commit, CallPolicy, DriveReturns, DriveRaises
  <1>6. CASE PolicyLocks(c) \/ PolicyUnlocks(c)
    BY <1>6 DEF PolicyLocks, PolicyUnlocks, InPolicy
  <1>7. CASE HookReturns(c) \/ HookRaises(c) \/ GetMap(c) \/ OpenMap(c)
    BY <1>7 DEF HookReturns, HookRaises, GetMap, OpenMap
  <1>8. QED
    BY <1>1, <1>2, <1>3, <1>4, <1>5, <1>6, <1>7 DEF StepOf, Serve, PolicyReturns

\* What a history holds after a frame was recorded.
LEMMA RecordShort ==
    ASSUME Wiring, NEW s \in Calls, NEW f \in Frame, RecordFrame(s, f), \A t \in Calls : Short(t)
    PROVE  /\ \A t \in Calls : Short(t)'
           /\ session'[s].frames[f.sensor] # <<>>
  <1> DEFINE new == Append(session[s].frames[f.sensor], f.time)
  <1>1. f.sensor \in Sensors /\ session[s].frames[f.sensor] \in Seq(Times) /\ f.time \in Times
    BY DEF Wiring, TypeOK, SessionState, Frame
  <1>2. new \in Seq(Times) /\ new # <<>>
    <2>1. ASSUME NEW h \in Seq(Times), NEW t \in Times
          PROVE  Append(h, t) \in Seq(Times) /\ Append(h, t) # <<>>
      OBVIOUS
    <2>2. QED
      BY <1>1, <2>1
  <1>3. /\ session'[s].frames[f.sensor] = Trim(new) /\ Trim(new) # <<>>
        /\ Len(Trim(new)) <= 1 \/ Len(Trim(new)) <= FrameHistoryLength
    BY <1>2, RecordOne, TrimKeeps
  <1>4. QED
    BY <1>3, RecordOne DEF Short

LEMMA FramedStep == Wiring /\ Framed /\ [Next]_vars => Framed'
  <1> SUFFICES ASSUME Wiring, Framed, [Next]_vars PROVE Framed'
    OBVIOUS
  <1>1. CASE UNCHANGED vars
    BY <1>1 DEF vars, servicer, arrival, locals, Framed, Short, Held, Is, Sweeps, RendererData
  <1>2. ASSUME NEW c \in Calls, StepOf(c) PROVE Framed'
    <2>1. OthersStand(c)
      BY <1>2, Others DEF Wiring
    <2>2. ASSUME NEW d \in Calls \ {c} PROVE Held(d)'
      <3>1. /\ pc'[d] = pc[d] /\ obj'[d] = obj[d] /\ step'[d] = step[d] /\ req'[d] = req[d]
            /\ Sweeps(d)' = Sweeps(d) /\ Is(d, "drive")' = Is(d, "drive")
            /\ Is(d, "submit_image")' = Is(d, "submit_image")
        BY <2>1 DEF OthersStand, Sweeps, RendererData, Is
      <3>2. ASSUME pc[d] \in {"announce", "policy"}, Is(d, "submit_image")
            PROVE  session'[obj[d]].frames[req[d].frame.sensor] # <<>>
        <4>1. obj[d] \in Calls /\ req[d].frame.sensor \in Sensors
          BY <3>2, ObjectType, Serving DEF Busy, Is, Frame
        <4>2. QED
          BY <1>2, <3>2, <4>1, FrameStays DEF Framed, Held
      <3>3. ASSUME pc[d] \in {"announce", "policy"}, Is(d, "drive")
            PROVE  session'[obj[d]].frames[Sweeps(d)[step[d]].sensor] # <<>>
        <4>1. Sweeps(d) \in Seq(Frame) /\ step[d] \in 1..Len(Sweeps(d))
          BY <3>3, SweepsType DEF Is, Framed, Held
        <4>2. obj[d] \in Calls /\ Sweeps(d)[step[d]] \in Frame
          BY <3>3, <4>1, ObjectType DEF Busy
        <4>3. Sweeps(d)[step[d]].sensor \in Sensors
          BY <4>2 DEF Frame
        <4>4. QED
          BY <1>2, <3>3, <4>2, <4>3, FrameStays DEF Framed, Held
      <3>4. QED
        BY <3>1, <3>2, <3>3 DEF Framed, Held
    <2>3. CASE Register(c)
      <3>1. \A s \in Calls : Short(s)'
        <4>1. \A k \in Sensors : session'[c].frames[k] = <<>>
          <5>1. session'[c] = NewSession(req[c].cameras)
            BY <2>3, RegisterOne
          <5>2. session'[c].frames = [k \in Sensors |-> <<>>]
            BY <5>1 DEF NewSession
          <5>3. QED
            BY <5>2
        <4>2. QED
          BY <2>3, <4>1, RegisterOne DEF Framed, Short
      <3>2. Is(c, "start_session")'
        BY <2>3 DEF Register, Is, arrival
      <3>3. Held(c)'
        BY <3>2 DEF Held, Is
      <3>4. QED
        BY <2>2, <3>1, <3>3 DEF Framed
    <2>4. CASE SubmitImage(c)
      <3>1. CASE session' = session /\ pc'[c] = "done"
        BY <2>2, <3>1 DEF Framed, Short, Held
      <3>2. CASE RecordFrame(obj[c], req[c].frame) /\ pc'[c] = "announce"
        <4>1. obj[c] \in Calls /\ req[c].frame \in Frame /\ obj' = obj /\ req' = req
              /\ Is(c, "submit_image")
          BY <2>4, Recorded DEF SubmitImage, arrival, locals
        <4>2. Held(c)' /\ \A s \in Calls : Short(s)'
          BY <3>2, <4>1, RecordShort DEF Framed, Held, Is
        <4>3. QED
          BY <2>2, <4>2 DEF Framed
      <3>3. QED
        BY <2>4, <3>1, <3>2 DEF SubmitImage, Answer, GoTo, Wiring, TypeOK
    <2>5. CASE RecordSweep(c)
      <3> DEFINE f == Sweeps(c)[step[c] + 1]
      <3>1. obj[c] \in Calls /\ f \in Frame /\ step[c] + 1 \in 1..Len(Sweeps(c))
        BY <2>5, Recorded DEF RecordSweep
      <3>2. /\ RecordFrame(obj[c], f) /\ obj' = obj /\ req' = req
            /\ step'[c] = step[c] + 1 /\ Is(c, "drive")
        BY <2>5 DEF RecordSweep, arrival, Wiring, TypeOK
      <3>3. Sweeps(c)' = Sweeps(c)
        BY <3>2 DEF Sweeps, RendererData
      <3>4. Held(c)' /\ \A s \in Calls : Short(s)'
        BY <3>1, <3>2, <3>3, RecordShort DEF Framed, Held, Is
      <3>5. QED
        BY <2>2, <3>4 DEF Framed
    <2>6. CASE ~Register(c) /\ ~SubmitImage(c) /\ ~RecordSweep(c)
      <3>1. \A s \in Calls : Short(s)'
        BY <1>2, <2>6, FramesStand DEF Framed, Short
      <3>2. Held(c)'
        BY <1>2, <2>6, ToTheHook DEF Framed, Held, Is, Sweeps, RendererData
      <3>3. QED
        BY <2>2, <3>1, <3>2 DEF Framed
    <2>7. QED
      BY <2>3, <2>4, <2>5, <2>6
  <1>3. QED
    BY <1>1, <1>2 DEF Next, Idle, StepOf

\* Whoever records beside it, a policy in on_frame finds a frame of that sensor, and no
\* history outgrows frame_history_length.
THEOREM FrameIsKept == Spec => []FrameHistory
  <1>1. Init => Framed
    BY DEF Init, Framed, Short, Held, NewSession
  <1>2. Framed => FrameHistory
    BY DEF Framed, Short, Held, FrameHistory
  <1>3. QED
    BY <1>1, <1>2, FramedStep, WiringHolds, PTL DEF Spec

-----------------------------------------------------------------------------
(* The pose a plan is anchored at                                          *)

\* The timeline of session s has reached time t.
Reached(s, t) == session[s].ego # <<>> /\ t <= Last(session[s].ego)

\* How many poses of its batch a call has put behind it.
Landed(e) ==
    CASE pc[e] = "landing" -> step[e]
      [] pc[e] = "halfway" -> step[e] + 1
      [] pc[e] \in {"announce", "policy"} -> Len(req[e].poses)
      [] pc[e] = "done" -> IF reply[e].status = "OK" THEN Len(req[e].poses) ELSE 0
      [] OTHER -> 0

BatchReached(e) ==
    Is(e, "submit_egomotion") /\ obj[e] # None =>
        \A i \in 1..Landed(e) : i <= Len(req[e].poses) => Reached(obj[e], req[e].poses[i])

BatchesReached == \A e \in Calls : BatchReached(e)

\* A timeline never goes back.
LEMMA ReachedStays ==
    ASSUME Wiring, NEW c \in Calls, StepOf(c), NEW d \in Calls, obj[d] \in Calls,
           NEW t \in Times, Reached(obj[d], t)
    PROVE  Reached(obj[d], t)'
  <1>0. \A u \in Times : u \in Nat
    BY ServicerAssumption
  <1>1. obj'[d] = obj[d]
    BY ObjectKept, ServicerAssumption
  <1>2. CASE Register(c)
    BY <1>1, <1>2, RegisterOne DEF Reached
  <1>3. CASE LandPose(c) /\ obj[c] = obj[d]
    <2>1. session[obj[d]].ego \in Seq(Times) /\ Pose(c) \in Times
      BY <1>3, PoseType DEF LandPose, Wiring, TypeOK, SessionState
    <2>2. session'[obj[d]].ego = Append(session[obj[d]].ego, Pose(c))
      BY <1>3 DEF LandPose, Wiring, TypeOK, SessionState
    <2>3. t <= Pose(c)
      <3>1. Last(session[obj[d]].ego) \in Times
        BY <2>1 DEF Reached, Last
      <3>2. ~(Pose(c) <= Last(session[obj[d]].ego))
        BY <1>3 DEF LandPose, Stale, Reached
      <3>3. QED
        BY <1>0, <2>1, <3>1, <3>2 DEF Reached
    <2>4. QED
      BY <1>1, <2>1, <2>2, <2>3 DEF Reached, Last
  <1>4. CASE LandPose(c) /\ obj[c] # obj[d]
    BY <1>1, <1>4 DEF LandPose, Reached, Wiring, TypeOK
  <1>5. CASE LandState(c)
    <2>1. session'[obj[d]].ego = session[obj[d]].ego
      BY <1>5, ObjectType DEF LandState, Busy, Wiring, TypeOK, SessionState
    <2>2. QED
      BY <1>1, <2>1 DEF Reached
  <1>6. CASE ~Register(c) /\ ~LandPose(c) /\ ~LandState(c)
    BY <1>1, <1>6, EgoStands DEF Reached
  <1>7. QED
    BY <1>2, <1>3, <1>4, <1>5, <1>6

\* A step that lands no pose and skips none puts no pose behind its call.
LEMMA LandedStands ==
    ASSUME Wiring, NEW c \in Calls, StepOf(c), ~SkipPose(c), ~LandPose(c),
           Is(c, "submit_egomotion")'
    PROVE  Landed(c)' = 0 \/ (Landed(c)' = Landed(c) /\ UNCHANGED <<req, obj>>)
  <1> USE DEF Wiring, TypeOK, GoTo, Answer, servicer, arrival, locals, Is, Landed
  <1>1. CASE RefuseStart(c) \/ Register(c) \/ RejectStart(c) \/ CloseSession(c)
    BY <1>1 DEF RefuseStart, Register, RejectStart, CloseSession, CallWiring, CallOK
  <1>2. CASE Arrive(c) \/ RequireSession(c)
    BY <1>2 DEF Arrive, RequireSession
  <1>3. CASE BeginEgomotion(c)
    BY <1>3 DEF BeginEgomotion, CallWiring, CallOK
  <1>4. CASE LandState(c)
    BY <1>4 DEF LandState
  <1>5. CASE EndEgomotion(c)
    BY <1>5 DEF EndEgomotion
  <1>6. CASE SubmitImage(c) \/ RecordSweep(c) \/ SubmitRoute(c) \/ SubmitGroundTruth(c)
    BY <1>6 DEF SubmitImage, RecordSweep, SubmitRoute, SubmitGroundTruth
  <1>7. CASE GetMap(c) \/ OpenMap(c) \/ Commit(c) \/ GetVehicleCommand(c)
    BY <1>7 DEF GetMap, OpenMap, Commit, GetVehicleCommand, CallWiring, CallOK
  <1>8. CASE DriveReturns(c) \/ DriveRaises(c)
    BY <1>8 DEF DriveReturns, DriveRaises, CallWiring, CallOK
  <1>9. CASE CallPolicy(c)
    BY <1>9 DEF CallPolicy, CallWiring, CallOK
  <1>10. CASE PolicyLocks(c) \/ PolicyUnlocks(c)
    BY <1>10 DEF PolicyLocks, PolicyUnlocks
  <1>11. CASE HookReturns(c) \/ HookRaises(c)
    BY <1>11 DEF HookReturns, HookRaises
  <1>12. QED
    BY <1>1, <1>2, <1>3, <1>4, <1>5, <1>6, <1>7, <1>8, <1>9, <1>10, <1>11 DEF StepOf,
       Serve, PolicyReturns

\* The pose a call is at is behind it once landed or skipped.
LEMMA PoseReached ==
    ASSUME Wiring, NEW c \in Calls, StepOf(c), SkipPose(c) \/ LandPose(c)
    PROVE  session'[obj[c]].ego # <<>> /\ Pose(c) <= Last(session'[obj[c]].ego)
  <1>1. obj[c] \in Calls /\ pc[c] = "landing" /\ step[c] < Len(req[c].poses)
    BY ObjectType DEF SkipPose, LandPose, Busy
  <1>2. Pose(c) \in Times /\ session[obj[c]].ego \in Seq(Times)
    BY <1>1, PoseType DEF Wiring, TypeOK, SessionState
  <1>3. CASE SkipPose(c)
    BY <1>3 DEF SkipPose, Stale
  <1>4. CASE LandPose(c)
    <2>1. session'[obj[c]].ego = Append(session[obj[c]].ego, Pose(c))
      BY <1>1, <1>4 DEF LandPose, Wiring, TypeOK, SessionState
    <2>2. Last(session'[obj[c]].ego) = Pose(c) /\ session'[obj[c]].ego # <<>>
      BY <1>2, <2>1 DEF Last
    <2>3. \A t \in Times : t \in Nat
      BY ServicerAssumption
    <2>4. Pose(c) <= Pose(c)
      BY <1>2, <2>3
    <2>5. QED
      BY <2>2, <2>4
  <1>5. QED
    BY <1>3, <1>4

LEMMA BatchStep == Wiring /\ BatchesReached /\ [Next]_vars => BatchesReached'
  <1> SUFFICES ASSUME Wiring, BatchesReached, [Next]_vars PROVE BatchesReached'
    OBVIOUS
  <1>0. None \notin Calls
    BY ServicerAssumption
  <1>1. CASE UNCHANGED vars
    BY <1>1 DEF vars, servicer, arrival, locals, BatchesReached, BatchReached, Reached,
       Landed, Is
  <1>2. ASSUME NEW c \in Calls, StepOf(c), NEW e \in Calls, obj[e] \in Calls, obj'[e] = obj[e],
               req'[e] = req[e], Is(e, "submit_egomotion"), pc[e] # "unborn",
               NEW i \in 1..Landed(e), i <= Len(req[e].poses)
        PROVE  Reached(obj[e], req[e].poses[i])'
    <2>1. req[e].poses \in Seq(Times)
      BY <1>2, Serving DEF Is
    <2>2. i \in 1..Len(req[e].poses)
      BY <1>2, <2>1
    <2>3. req[e].poses[i] \in Times
      BY <2>1, <2>2
    <2>4. Reached(obj[e], req[e].poses[i])
      BY <1>0, <1>2 DEF BatchesReached, BatchReached
    <2>5. Reached(obj[e], req[e].poses[i])' <=> (session'[obj[e]].ego # <<>>
                /\ req[e].poses[i] <= Last(session'[obj[e]].ego))
      BY <1>2 DEF Reached
    <2>6. \A t \in Times : Reached(obj[e], t) => session'[obj[e]].ego # <<>>
                /\ t <= Last(session'[obj[e]].ego)
      BY <1>2, ReachedStays DEF Reached
    <2>7. QED
      BY <2>3, <2>4, <2>5, <2>6
  <1>3. ASSUME NEW c \in Calls, StepOf(c), NEW e \in Calls,
               Is(e, "submit_egomotion")', obj'[e] # None,
               NEW i \in 1..Landed(e)', i <= Len(req'[e].poses)
        PROVE  Reached(obj[e], req[e].poses[i])'
    <2>1. CASE e # c
      <3>1. /\ pc'[e] = pc[e] /\ req'[e] = req[e] /\ obj'[e] = obj[e]
            /\ step'[e] = step[e] /\ reply'[e] = reply[e]
        BY <1>3, <2>1, Others DEF OthersStand, Wiring
      <3>2. Landed(e)' = Landed(e) /\ Is(e, "submit_egomotion") /\ obj[e] \in Calls
        BY <1>3, <3>1 DEF Landed, Is, Wiring, TypeOK
      <3>3. pc[e] # "unborn"
        BY <1>0, <3>2 DEF Wiring, CallWiring, CallOK
      <3>4. QED
        BY <1>2, <1>3, <3>1, <3>2, <3>3
    <2>2. CASE e = c /\ ~SkipPose(c) /\ ~LandPose(c)
      <3>1. Landed(c)' = Landed(c) /\ UNCHANGED <<req, obj>>
        BY <1>3, <2>2, LandedStands
      <3>2. Is(c, "submit_egomotion") /\ obj[c] \in Calls
        BY <1>3, <2>2, <3>1 DEF Is, Wiring, TypeOK
      <3>3. pc[c] # "unborn"
        BY <1>0, <3>2 DEF Wiring, CallWiring, CallOK
      <3>4. QED
        BY <1>2, <1>3, <2>2, <3>1, <3>2, <3>3
    <2>3. CASE e = c /\ (SkipPose(c) \/ LandPose(c))
      <3>1. /\ req' = req /\ obj' = obj /\ pc[c] = "landing" /\ obj[c] \in Calls
            /\ Landed(c) = step[c] /\ Landed(c)' = step[c] + 1 /\ step[c] \in Nat
            /\ Is(c, "submit_egomotion")
        BY <1>3, <2>3, ObjectType DEF SkipPose, LandPose, Landed, GoTo, arrival, locals,
           Busy, Wiring, TypeOK, Is
      <3>2. CASE i = step[c] + 1
        <4>1. session'[obj[c]].ego # <<>> /\ Pose(c) <= Last(session'[obj[c]].ego)
          BY <1>3, <2>3, PoseReached
        <4>2. Pose(c) = req[c].poses[i]
          BY <3>2 DEF Pose
        <4>3. QED
          BY <2>3, <3>1, <4>1, <4>2 DEF Reached
      <3>3. CASE i # step[c] + 1
        <4>1. i \in 1..Landed(c)
          BY <1>3, <2>3, <3>1, <3>3
        <4>2. QED
          BY <1>2, <1>3, <2>3, <3>1, <4>1
      <3>4. QED
        BY <3>2, <3>3
    <2>4. QED
      BY <2>1, <2>2, <2>3
  <1>4. ASSUME NEW c \in Calls, StepOf(c) PROVE BatchesReached'
    BY <1>3, <1>4 DEF BatchesReached, BatchReached
  <1>5. QED
    BY <1>1, <1>4 DEF Next, Idle, StepOf

LEMMA AnchorStep ==
    Wiring /\ Past /\ BatchesReached /\ PlanAnchorFresh /\ [Next]_vars => PlanAnchorFresh'
  <1> SUFFICES ASSUME Wiring, Past, BatchesReached, PlanAnchorFresh, [Next]_vars
               PROVE  PlanAnchorFresh'
    OBVIOUS
  <1>0. None \notin Calls /\ None \notin Plans
    BY ServicerAssumption
  <1>1. CASE UNCHANGED vars
    BY <1>1 DEF vars, servicer, arrival, locals, PlanAnchorFresh, Is
  <1>2. ASSUME NEW c \in Calls, StepOf(c), NEW d \in Calls, NEW e \in before'[d],
               Planned(d)', Is(e, "submit_egomotion")', reply'[e].status = "OK",
               obj'[e] = obj'[d], NEW i \in 1..Len(req'[e].poses)
        PROVE  /\ reply'[d].body # None
               /\ req'[e].poses[i] <= req'[d].now =>
                     req'[e].poses[i] <= reply'[d].body.anchor
    <2>1. /\ e \in Calls \ {c} /\ pc[e] = "done" /\ (e \in before[d] \/ Arrive(d))
          /\ req'[e] = req[e] /\ obj'[e] = obj[e] /\ reply'[e] = reply[e]
      BY <1>2, BeforeWas
    <2>2. ~Arrive(d)
      BY <1>2 DEF Planned, Arrive, Wiring, TypeOK
    <2>3. CASE d # c
      <3>1. Planned(d) /\ obj'[d] = obj[d] /\ reply'[d] = reply[d] /\ req'[d] = req[d]
        BY <1>2, <2>3, Others DEF Wiring, OthersStand, Planned, Is
      <3>2. QED
        BY <1>2, <2>1, <2>2, <3>1 DEF PlanAnchorFresh, Planned, Is
    <2>4. CASE d = c
      <3>1. Commit(c)
        BY <1>2, <2>4, OthersPlan
      <3>2. obj[c] \in Calls /\ obj' = obj /\ req' = req /\ req[c].now \in Times
        BY <3>1, ObjectType, Serving DEF Commit, Busy, arrival, locals, Wiring, CallWiring,
           CallOK
      <3>3. Is(e, "submit_egomotion") /\ obj[e] # None /\ Landed(e) = Len(req[e].poses)
        BY <1>0, <1>2, <2>1, <2>4, <3>2 DEF Is, Landed
      <3>4. req[e].poses \in Seq(Times) /\ i \in 1..Len(req[e].poses)
        BY <1>2, <2>1, <3>3, Serving DEF Is
      <3>5. Reached(obj[c], req[e].poses[i])
        <4>1. i \in 1..Landed(e) /\ i <= Len(req[e].poses) /\ obj[e] = obj[c]
          <5>1. obj[e] = obj[c]
            BY <1>2, <2>1, <2>4, <3>2
          <5>2. Len(req[e].poses) \in Nat
            BY <3>4
          <5>3. QED
            BY <3>3, <3>4, <5>1, <5>2
        <4>2. QED
          BY <2>1, <3>3, <4>1 DEF BatchesReached, BatchReached
      <3>6. reply'[c].body = PlanFrom(req[c].now, session[obj[c]].ego)
        BY <1>2, <2>4, <3>1 DEF Commit, Answer, Planned, Wiring, TypeOK
      <3>7. PlanFrom(req[c].now, session[obj[c]].ego)
              = [lead |-> req[c].now, anchor |-> Last(session[obj[c]].ego)]
        BY <3>5 DEF Reached, PlanFrom
      <3>8. Last(session[obj[c]].ego) \in Times
        <4>1. session[obj[c]].ego \in Seq(Times)
          BY <3>2 DEF Wiring, TypeOK, SessionState
        <4>2. QED
          BY <3>5, <4>1 DEF Reached, Last
      <3>9. reply'[c].body \in Plans
        BY <3>2, <3>6, <3>7, <3>8 DEF Plans
      <3>10. QED
        BY <1>0, <2>1, <2>4, <3>5, <3>6, <3>7, <3>9 DEF Reached
    <2>5. QED
      BY <2>3, <2>4
  <1>3. ASSUME NEW c \in Calls, StepOf(c) PROVE PlanAnchorFresh'
    BY <1>2, <1>3 DEF PlanAnchorFresh, Planned
  <1>4. QED
    BY <1>1, <1>3 DEF Next, Idle, StepOf

\* A plan is never empty once its client knew of a pose, nor led by a pose older than
\* one it knew to have landed by the drive's time, however many batches land meanwhile.
THEOREM AnchorIsFresh == Spec => []PlanAnchorFresh
  <1>1. Init => Past /\ BatchesReached /\ PlanAnchorFresh
    BY DEF Init, Past, BatchesReached, BatchReached, PlanAnchorFresh, Is
  <1>2. QED
    BY <1>1, PastStep, BatchStep, AnchorStep, WiringHolds, PTL DEF Spec

-----------------------------------------------------------------------------
(* Whose the observations are                                              *)

\* The frames of sensor k, the poses and the stamps that came with calls which
\* addressed session s.
FrameTimes(s, k) ==
    {t \in Times :
        \/ \E c \in Calls : /\ Is(c, "submit_image") /\ obj[c] = s
                            /\ req[c].frame = [sensor |-> k, time |-> t]
                            /\ k \in session[s].cameras
        \/ \E c \in Calls : /\ Is(c, "drive") /\ obj[c] = s
                            /\ [sensor |-> k, time |-> t] \in Range(Sweeps(c))}

PoseTimes(s) ==
    {t \in Times : \E c \in Calls : /\ Is(c, "submit_egomotion") /\ obj[c] = s
                                    /\ t \in Range(req[c].poses)}

Stamps(s, rpc) == {t \in Times : \E c \in Calls : Is(c, rpc) /\ obj[c] = s /\ t = req[c].time}

FramesOwn(s) ==
    \A k \in Sensors : \A i \in 1..Len(session[s].frames[k]) :
        session[s].frames[k][i] \in FrameTimes(s, k)

RestOwn(s) ==
    /\ \A i \in 1..Len(session[s].ego) : session[s].ego[i] \in PoseTimes(s)
    /\ session[s].route \in Stamps(s, "submit_route") \cup {None}
    /\ session[s].truth \in Stamps(s, "submit_ground_truth") \cup {None}

Owned == \A s \in Calls : FramesOwn(s) /\ RestOwn(s)

\* A call that addressed a session always did.
LEMMA CameStands ==
    ASSUME Wiring, NEW c \in Calls, StepOf(c), NEW s \in Calls, s # c \/ ~Register(c)
    PROVE  /\ \A k \in Sensors : FrameTimes(s, k) \subseteq FrameTimes(s, k)'
           /\ PoseTimes(s) \subseteq PoseTimes(s)'
           /\ Stamps(s, "submit_route") \subseteq Stamps(s, "submit_route")'
           /\ Stamps(s, "submit_ground_truth") \subseteq Stamps(s, "submit_ground_truth")'
  <1>1. \A d \in Calls : obj[d] = s => obj'[d] = obj[d] /\ req'[d] = req[d]
    BY ObjectKept, ServicerAssumption
  <1>2. \A d \in Calls : obj[d] = s => Sweeps(d)' = Sweeps(d)
    BY <1>1 DEF Sweeps, RendererData
  <1>3. session'[s].cameras = session[s].cameras
    <2>1. CASE Register(c)
      BY <2>1, RegisterOne
    <2>2. CASE SubmitImage(c)
      BY <2>2, Recorded, RecordOne DEF SubmitImage
    <2>3. CASE RecordSweep(c)
      BY <2>3, Recorded, RecordOne DEF RecordSweep
    <2>4. QED
      BY <2>1, <2>2, <2>3, FramesStand
  <1>4. \A k \in Sensors : FrameTimes(s, k) \subseteq FrameTimes(s, k)'
    BY <1>1, <1>2, <1>3 DEF FrameTimes, Is
  <1>5. PoseTimes(s) \subseteq PoseTimes(s)'
    BY <1>1 DEF PoseTimes, Is
  <1>6. QED
    BY <1>1, <1>4, <1>5 DEF Stamps, Is

\* Recording a frame that came keeps every frame one that came.
LEMMA RecordOwn ==
    ASSUME Wiring, NEW c \in Calls, StepOf(c), ~Register(c), NEW s \in Calls, NEW f \in Frame,
           RecordFrame(s, f), f.time \in FrameTimes(s, f.sensor), \A t \in Calls : FramesOwn(t)
    PROVE  \A t \in Calls : FramesOwn(t)'
  <1> DEFINE old == session[s].frames[f.sensor]
             new == Append(old, f.time)
  <1>1. f.sensor \in Sensors /\ old \in Seq(Times) /\ f.time \in Times
    BY DEF Wiring, TypeOK, SessionState, Frame
  <1>2. ASSUME NEW h \in Seq(Times), NEW u \in Times
        PROVE  /\ Append(h, u) \in Seq(Times)
               /\ \A j \in 1..Len(Append(h, u)) :
                     Append(h, u)[j] = u \/ (j \in 1..Len(h) /\ Append(h, u)[j] = h[j])
    OBVIOUS
  <1>3. new \in Seq(Times)
        /\ \A j \in 1..Len(new) : new[j] = f.time \/ (j \in 1..Len(old) /\ new[j] = old[j])
    BY <1>1, <1>2
  <1>4. ASSUME NEW t \in Calls, NEW k \in Sensors, t # s \/ k # f.sensor,
               NEW i \in 1..Len(session'[t].frames[k])
        PROVE  session'[t].frames[k][i] \in FrameTimes(t, k)'
    <2>1. session'[t].frames[k] = session[t].frames[k]
      BY <1>4, RecordOne
    <2>2. session[t].frames[k][i] \in FrameTimes(t, k)
      BY <1>4, <2>1 DEF FramesOwn
    <2>3. QED
      BY <2>1, <2>2, CameStands
  <1>5. ASSUME NEW i \in 1..Len(session'[s].frames[f.sensor])
        PROVE  session'[s].frames[f.sensor][i] \in FrameTimes(s, f.sensor)'
    <2>1. session'[s].frames[f.sensor] = Trim(new)
      BY RecordOne
    <2>2. \E j \in 1..Len(new) : Trim(new)[i] = new[j]
      BY <1>3, <1>5, <2>1, TrimKeeps, ZenonT(60)
    <2>3. \A j \in 1..Len(new) : new[j] \in FrameTimes(s, f.sensor)
      BY <1>1, <1>3 DEF FramesOwn
    <2>4. QED
      BY <1>1, <2>1, <2>2, <2>3, CameStands
  <1>6. QED
    BY <1>4, <1>5 DEF FramesOwn

LEMMA FramesOwnStep ==
    ASSUME Wiring, NEW c \in Calls, StepOf(c), \A s \in Calls : FramesOwn(s)
    PROVE  \A s \in Calls : FramesOwn(s)'
  <1>1. ASSUME NEW s \in Calls, s # c \/ ~Register(c),
               session'[s].frames = session[s].frames
        PROVE  FramesOwn(s)'
    BY <1>1, CameStands DEF FramesOwn
  <1>2. CASE Register(c)
    <2>1. session'[c] = NewSession(req[c].cameras)
      BY <1>2, RegisterOne
    <2>2. session'[c].frames = [k \in Sensors |-> <<>>]
      BY <2>1 DEF NewSession
    <2>3. FramesOwn(c)'
      BY <2>2 DEF FramesOwn
    <2>4. QED
      BY <1>1, <1>2, <2>3, RegisterOne
  <1>3. CASE SubmitImage(c)
    <2>1. CASE UNCHANGED session
      BY <1>1, <1>3, <2>1 DEF SubmitImage, Register
    <2>2. CASE Declared(c) /\ RecordFrame(obj[c], req[c].frame)
      <3>1. req[c].frame \in Frame /\ obj[c] \in Calls /\ Is(c, "submit_image") /\ ~Register(c)
        BY <1>3, Recorded DEF SubmitImage, Register
      <3>2. req[c].frame.time \in FrameTimes(obj[c], req[c].frame.sensor)
        BY <2>2, <3>1 DEF FrameTimes, Declared, Frame
      <3>3. QED
        BY <2>2, <3>1, <3>2, RecordOwn
    <2>3. QED
      BY <1>3, <2>1, <2>2 DEF SubmitImage
  <1>4. CASE RecordSweep(c)
    <2> DEFINE f == Sweeps(c)[step[c] + 1]
    <2>1. /\ Is(c, "drive") /\ obj[c] \in Calls /\ f \in Frame /\ RecordFrame(obj[c], f)
          /\ step[c] + 1 \in 1..Len(Sweeps(c)) /\ ~Register(c)
      BY <1>4, Recorded DEF RecordSweep, Register
    <2>2. Sweeps(c) \in Seq(Frame)
      BY <1>4, <2>1, SweepsType DEF RecordSweep, Is
    <2>3. f \in Range(Sweeps(c)) /\ f = [sensor |-> f.sensor, time |-> f.time] /\ f.time \in Times
      BY <2>1, <2>2 DEF Range, Frame
    <2>4. f.time \in FrameTimes(obj[c], f.sensor)
      BY <2>1, <2>3 DEF FrameTimes
    <2>5. QED
      BY <2>1, <2>4, RecordOwn
  <1>5. CASE ~Register(c) /\ ~SubmitImage(c) /\ ~RecordSweep(c)
    BY <1>1, <1>5, FramesStand
  <1>6. QED
    BY <1>2, <1>3, <1>4, <1>5

\* Which steps write the rest of a session's observations.
LEMMA RestStands ==
    ASSUME Wiring, NEW c \in Calls, StepOf(c), ~Register(c), ~LandPose(c), ~SubmitRoute(c),
           ~SubmitGroundTruth(c)
    PROVE  \A s \in Calls : /\ session'[s].ego = session[s].ego
                            /\ session'[s].route = session[s].route
                            /\ session'[s].truth = session[s].truth
  <1> USE DEF Wiring, TypeOK, SessionState
  <1>1. CASE UNCHANGED session
    BY <1>1
  <1>2. CASE SubmitImage(c)
    BY <1>1, <1>2, Recorded, RecordOne DEF SubmitImage
  <1>3. CASE RecordSweep(c)
    BY <1>3, Recorded, RecordOne DEF RecordSweep
  <1>4. CASE LandState(c)
    BY <1>4, ObjectType DEF LandState, Busy
  <1>5. CASE Commit(c)
    BY <1>5, ObjectType DEF Commit, Busy
  <1>6. QED
    BY <1>1, <1>2, <1>3, <1>4, <1>5 DEF StepOf, Serve, PolicyReturns, Arrive,
       RefuseStart, RejectStart, CloseSession, RequireSession, BeginEgomotion, SkipPose,
       EndEgomotion, GetMap, OpenMap, GetVehicleCommand, CallPolicy, PolicyLocks,
       PolicyUnlocks, HookReturns, HookRaises, DriveReturns, DriveRaises

LEMMA RestOwnStep ==
    ASSUME Wiring, NEW c \in Calls, StepOf(c), NEW s \in Calls, RestOwn(s)
    PROVE  RestOwn(s)'
  <1> USE DEF Wiring, TypeOK, RestOwn
  <1>1. ASSUME s # c \/ ~Register(c), session'[s].ego = session[s].ego,
               session'[s].route = session[s].route, session'[s].truth = session[s].truth
        PROVE  RestOwn(s)'
    BY <1>1, CameStands
  <1>2. CASE Register(c)
    <2>1. session'[c] = NewSession(req[c].cameras)
          /\ (s # c => session'[s] = session[s])
      BY <1>2, RegisterOne
    <2>2. s = c => RestOwn(s)'
      BY <2>1 DEF NewSession
    <2>3. QED
      BY <1>1, <2>1, <2>2
  <1>3. CASE LandPose(c)
    <2>1. obj[c] \in Calls /\ Is(c, "submit_egomotion") /\ ~Register(c) /\ Pose(c) \in Times
          /\ obj' = obj /\ req' = req
      BY <1>3, ObjectType, PoseType, Serving DEF LandPose, Register, Busy, CallWiring, CallOK,
         Is, arrival, locals
    <2>2. CASE s # obj[c]
      BY <1>1, <1>3, <2>1, <2>2 DEF LandPose
    <2>3. CASE s = obj[c]
      <3>1. /\ session'[s].ego = Append(session[s].ego, Pose(c))
            /\ session'[s].route = session[s].route /\ session'[s].truth = session[s].truth
        BY <1>3, <2>1, <2>3 DEF LandPose, SessionState
      <3>2. req[c].poses \in Seq(Times) /\ step[c] + 1 \in 1..Len(req[c].poses)
        BY <1>3, <2>1, Serving DEF LandPose, Is
      <3>3. Pose(c) \in Range(req[c].poses)
        BY <3>2 DEF Pose, Range
      <3>4. Pose(c) \in PoseTimes(s)'
        BY <2>1, <2>3, <3>3 DEF PoseTimes, Is
      <3>5. session[s].ego \in Seq(Times)
        BY DEF SessionState
      <3>6. \A i \in 1..Len(session'[s].ego) :
              session'[s].ego[i] = Pose(c)
              \/ (i \in 1..Len(session[s].ego) /\ session'[s].ego[i] = session[s].ego[i])
        BY <2>1, <3>1, <3>5
      <3>7. QED
        BY <2>1, <3>1, <3>4, <3>6, CameStands
    <2>4. QED
      BY <2>2, <2>3
  <1>4. CASE SubmitRoute(c)
    <2>1. obj[c] \in Calls /\ Is(c, "submit_route") /\ ~Register(c) /\ req[c].time \in Times
          /\ obj' = obj /\ req' = req
      BY <1>4, ObjectType, Serving DEF SubmitRoute, Register, Busy, Is, arrival, locals
    <2>2. CASE s # obj[c]
      BY <1>1, <1>4, <2>1, <2>2 DEF SubmitRoute, Target
    <2>3. CASE s = obj[c]
      <3>1. /\ session'[s].ego = session[s].ego /\ session'[s].truth = session[s].truth
            /\ session'[s].route = req[c].time
        BY <1>4, <2>1, <2>3 DEF SubmitRoute, Target, SessionState
      <3>2. req[c].time \in Stamps(s, "submit_route")'
        BY <2>1, <2>3 DEF Stamps, Is
      <3>3. QED
        BY <2>1, <3>1, <3>2, CameStands
    <2>4. QED
      BY <2>2, <2>3
  <1>5. CASE SubmitGroundTruth(c)
    <2>1. obj[c] \in Calls /\ Is(c, "submit_ground_truth") /\ ~Register(c)
          /\ req[c].time \in Times /\ obj' = obj /\ req' = req
      BY <1>5, ObjectType, Serving DEF SubmitGroundTruth, Register, Busy, Is, arrival, locals
    <2>2. CASE s # obj[c]
      BY <1>1, <1>5, <2>1, <2>2 DEF SubmitGroundTruth, Target
    <2>3. CASE s = obj[c]
      <3>1. /\ session'[s].ego = session[s].ego /\ session'[s].route = session[s].route
            /\ session'[s].truth = req[c].time
        BY <1>5, <2>1, <2>3 DEF SubmitGroundTruth, Target, SessionState
      <3>2. req[c].time \in Stamps(s, "submit_ground_truth")'
        BY <2>1, <2>3 DEF Stamps, Is
      <3>3. QED
        BY <2>1, <3>1, <3>2, CameStands
    <2>4. QED
      BY <2>2, <2>3
  <1>6. CASE ~Register(c) /\ ~LandPose(c) /\ ~SubmitRoute(c) /\ ~SubmitGroundTruth(c)
    BY <1>1, <1>6, RestStands
  <1>7. QED
    BY <1>2, <1>3, <1>4, <1>5, <1>6

LEMMA OwnedStep == Wiring /\ Owned /\ [Next]_vars => Owned'
  <1> SUFFICES ASSUME Wiring, Owned, [Next]_vars PROVE Owned'
    OBVIOUS
  <1>1. CASE UNCHANGED vars
    <2>1. session' = session /\ \A s \in Calls, k \in Sensors : FrameTimes(s, k)' = FrameTimes(s, k)
      BY <1>1 DEF vars, arrival, locals, FrameTimes, Is, Sweeps, RendererData
    <2>2. \A s \in Calls : PoseTimes(s)' = PoseTimes(s)
          /\ Stamps(s, "submit_route")' = Stamps(s, "submit_route")
          /\ Stamps(s, "submit_ground_truth")' = Stamps(s, "submit_ground_truth")
      BY <1>1 DEF vars, arrival, locals, PoseTimes, Stamps, Is
    <2>3. QED
      BY <2>1, <2>2 DEF Owned, FramesOwn, RestOwn
  <1>2. ASSUME NEW c \in Calls, StepOf(c) PROVE Owned'
    BY <1>2, FramesOwnStep, RestOwnStep DEF Owned
  <1>3. QED
    BY <1>1, <1>2 DEF Next, Idle, StepOf

LEMMA OwnedHolds == Spec => []Owned
  <1>1. Init => Owned
    BY DEF Init, Owned, FramesOwn, RestOwn, NewSession
  <1>2. QED
    BY <1>1, OwnedStep, WiringHolds, PTL DEF Spec

\* Whatever a session keeps came with a call that addressed it: a handler still at work
\* when its session is closed never writes into the next one under the same uuid.
THEOREM ObservationsAreOwn == Spec => []OwnObservations
  <1>1. Owned => OwnObservations
    BY ZenonT(60) DEF Owned, FramesOwn, RestOwn, FrameTimes, PoseTimes, Stamps, OwnObservations
  <1>2. QED
    BY <1>1, OwnedHolds, PTL
=============================================================================
