------------------------- MODULE EgodriverServicer -------------------------
(***************************************************************************)
(* The policy server: service.py's EgodriverServicer under concurrent RPCs *)
(* on gRPC worker threads, with the session objects of driver.py it keeps  *)
(* for the policy.                                                         *)
(*                                                                         *)
(* A call is one RPC on one worker thread.  Its handler is cut where       *)
(* another thread can come between: at the two locks (the servicer's       *)
(* _sessions_lock, each session's lock) and around every call into the     *)
(* policy, which runs outside both.  A critical section nothing blocks in  *)
(* is one step guarded by its lock; the two a thread can wait in, or that  *)
(* a policy reading without the lock can look into, hold the lock          *)
(* explicitly: opening a map, and landing an egomotion batch.              *)
(*                                                                         *)
(* A session object is named by the start_session call that created it, so *)
(* objects are never reused while uuids may be.                            *)
(***************************************************************************)
EXTENDS Integers, Sequences, FiniteSets, SequencesExt

CONSTANTS
    Calls,              \* every RPC the clients make (bounds a run)
    Uuids,              \* session uuids
    Sensors,            \* logical ids of cameras and LiDARs
    Times,              \* timestamps (us)
    MapIds,             \* names of map sets
    Indicators,         \* driver.TurnIndicator
    NoCommand,          \* TurnIndicator.NO_COMMAND
    PolicyIndicators,   \* what a policy may put in DriveResult.turn_indicator
    Requests,           \* the requests the clients may send
    Mode,               \* the runtime on the other end: "carla" or "alpasim"
    HasMapDir,          \* the policy sets map_dir
    FrameHistoryLength, \* BaseDriver.frame_history_length
    MaxWorkers,         \* threads of the server's pool
    FailingHooks,       \* policy hooks that may raise; a drive that may raise may
                        \* also return what no DriveResponse can be made of
    LockingHooks,       \* policy hooks that may take session.lock
    None                \* Python's None

Hooks == {"on_session_start", "on_session_close", "on_frame", "on_egomotion",
          "on_route", "on_ground_truth", "drive"}

\* A camera request's frames, an egomotion batch and a renderer payload are
\* what the servicer reads of them: stamps, whether dynamic states came with
\* the poses, the sweeps and the map's name.
Frame == [sensor : Sensors, time : Times]

Payload == [lidar : Seq(Frame), map : MapIds \cup {None}]

Request ==
    [rpc : {"start_session"}, uuid : Uuids, supported : BOOLEAN,
     cameras : SUBSET Sensors]
    \cup [rpc : {"close_session", "get_vehicle_command"}, uuid : Uuids]
    \cup [rpc : {"submit_image"}, uuid : Uuids, frame : Frame]
    \cup [rpc : {"submit_egomotion"}, uuid : Uuids, poses : Seq(Times),
          states : {"absent", "paired", "mismatched"}]
    \cup [rpc : {"submit_route", "submit_ground_truth"}, uuid : Uuids,
          time : Times]
    \cup [rpc : {"drive"}, uuid : Uuids, now : Times,
          payload : Payload \cup {None}]

Plans == [lead : Times, anchor : Times]

ASSUME ServicerAssumption ==
    /\ None \notin Calls /\ None \notin MapIds /\ None \notin Times
    /\ None \notin Payload /\ None \notin Request /\ None \notin Plans
    /\ Times \subseteq Nat
    /\ None \notin Indicators
    /\ NoCommand \in Indicators
    /\ Requests \subseteq Request
    /\ Mode \in {"carla", "alpasim"}
    /\ HasMapDir \in BOOLEAN
    /\ FrameHistoryLength \in Int
    /\ MaxWorkers \in Nat \ {0}
    /\ FailingHooks \subseteq Hooks /\ LockingHooks \subseteq Hooks

VARIABLES
    \* the servicer
    sessions,     \* _sessions: uuid -> session object or None
    sessionsLock, \* _sessions_lock: the call holding it or None
    maps,         \* _maps: map id -> the call that opened it or None
    \* session objects, by the call that created them
    session,      \* driver.SessionState
    lock,         \* session.lock: the call holding it or None
    \* calls
    pc,           \* where the handler is
    req,          \* its request
    obj,          \* the session object it works on
    step,         \* poses or sweeps behind it
    decided,      \* the indicator its drive decided, None before it has
    mapset,       \* the map set its drive got
    reply,        \* what it answered
    before        \* history: its uuid's calls already answered when it arrived

servicer == <<sessions, sessionsLock, maps>>
arrival == <<req, before>>
locals == <<obj, step, decided, mapset>>
vars == <<servicer, session, lock, pc, arrival, locals, reply>>

Commands == [time : Times \cup {0}, indicator : Indicators]

\* A handler's SessionState: stamps stand for the poses, frames, route and ground
\* truth; states holds the pose stamp each dynamic state was sent with.
SessionState ==
    [cameras : SUBSET Sensors, frames : [Sensors -> Seq(Times)],
     ego : Seq(Times), states : Seq(Times \cup {None}),
     route : Times \cup {None}, truth : Times \cup {None},
     driveCount : Nat, command : Commands]

NewSession(declared) ==
    [cameras |-> declared, frames |-> [k \in Sensors |-> <<>>],
     ego |-> <<>>, states |-> <<>>, route |-> None, truth |-> None,
     driveCount |-> 0, command |-> [time |-> 0, indicator |-> NoCommand]]

Statuses == {"OK", "NOT_FOUND", "ALREADY_EXISTS", "INVALID_ARGUMENT",
             "FAILED_PRECONDITION", "UNKNOWN"}

Replies == [status : Statuses, body : Commands \cup Plans \cup {None}]

Places == {"unborn", "arrived", "found", "landing", "halfway", "announce",
           "policy", "reject", "opening", "plan", "planning", "commit", "done"}

Init ==
    /\ sessions = [u \in Uuids |-> None]
    /\ sessionsLock = None
    /\ maps = [m \in MapIds |-> None]
    /\ lock = [c \in Calls |-> None]
    /\ session = [c \in Calls |-> NewSession({})]
    /\ pc = [c \in Calls |-> "unborn"]
    /\ req = [c \in Calls |-> None]
    /\ obj = [c \in Calls |-> None]
    /\ step = [c \in Calls |-> 0]
    /\ decided = [c \in Calls |-> None]
    /\ mapset = [c \in Calls |-> None]
    /\ reply = [c \in Calls |-> None]
    /\ before = [c \in Calls |-> {}]

-----------------------------------------------------------------------------
(* Calls, and what their handlers share                                    *)

Is(c, rpc) == req[c] # None /\ req[c].rpc = rpc

Answered == {c \in Calls : pc[c] = "done"}

Running == {c \in Calls : pc[c] \notin {"unborn", "done"}}

\* A client's RPC reaches a free worker thread.
Arrive(c) ==
    /\ pc[c] = "unborn"
    /\ Cardinality(Running) < MaxWorkers
    /\ \E r \in Requests :
          /\ req' = [req EXCEPT ![c] = r]
          /\ before' = [before EXCEPT ![c] = {k \in Answered : req[k].uuid = r.uuid}]
    /\ pc' = [pc EXCEPT ![c] = "arrived"]
    /\ UNCHANGED <<servicer, session, lock, locals, reply>>

GoTo(c, place) == pc' = [pc EXCEPT ![c] = place]

Answer(c, status, body) ==
    /\ GoTo(c, "done")
    /\ reply' = [reply EXCEPT ![c] = [status |-> status, body |-> body]]

\* Seeded bug: start_session does not look for a live session.
BugRegistered(u) == FALSE

Registered(u) == sessions[u] # None

\* _require_session: the handler keeps the object it finds.
RequireSession(c) ==
    /\ pc[c] = "arrived"
    /\ req[c].rpc \notin {"start_session", "close_session"}
    /\ sessionsLock = None
    /\ \/ /\ sessions[req[c].uuid] = None
          /\ Answer(c, "NOT_FOUND", None)
          /\ UNCHANGED obj
       \/ /\ sessions[req[c].uuid] # None
          /\ obj' = [obj EXCEPT ![c] = sessions[req[c].uuid]]
          /\ GoTo(c, "found")
          /\ UNCHANGED reply
    /\ UNCHANGED <<servicer, session, lock, arrival, step, decided, mapset>>

-----------------------------------------------------------------------------
(* start_session and close_session                                         *)

RefuseStart(c) ==
    /\ pc[c] = "arrived" /\ Is(c, "start_session")
    /\ \/ /\ ~req[c].supported
          /\ Answer(c, "FAILED_PRECONDITION", None)
       \/ /\ req[c].supported
          /\ sessionsLock = None /\ Registered(req[c].uuid)
          /\ Answer(c, "ALREADY_EXISTS", None)
    /\ UNCHANGED <<servicer, session, lock, arrival, locals>>

\* The session is reachable from here on, before the policy hears of it.
Register(c) ==
    /\ pc[c] = "arrived" /\ Is(c, "start_session")
    /\ req[c].supported
    /\ sessionsLock = None /\ ~Registered(req[c].uuid)
    /\ sessions' = [sessions EXCEPT ![req[c].uuid] = c]
    /\ session' = [session EXCEPT ![c] = NewSession(req[c].cameras)]
    /\ obj' = [obj EXCEPT ![c] = c]
    /\ GoTo(c, "announce")
    /\ UNCHANGED <<sessionsLock, maps, lock, arrival, step, decided, mapset, reply>>

\* Seeded bug: the session is looked up, not popped.
BugWithoutSession(u) == sessions

\* _sessions.pop(uuid, None)
WithoutSession(u) == [sessions EXCEPT ![u] = None]

\* on_session_start raised: the uuid leaves the registry.
RejectStart(c) ==
    /\ pc[c] = "reject"
    /\ sessionsLock = None
    /\ sessions' = WithoutSession(req[c].uuid)
    /\ Answer(c, "FAILED_PRECONDITION", None)
    /\ UNCHANGED <<sessionsLock, maps, session, lock, arrival, locals>>

CloseSession(c) ==
    /\ pc[c] = "arrived" /\ Is(c, "close_session")
    /\ sessionsLock = None
    /\ sessions' = WithoutSession(req[c].uuid)
    /\ \/ /\ sessions[req[c].uuid] = None
          /\ Answer(c, "OK", None)
          /\ UNCHANGED obj
       \/ /\ sessions[req[c].uuid] # None
          /\ obj' = [obj EXCEPT ![c] = sessions[req[c].uuid]]
          /\ GoTo(c, "announce")
          /\ UNCHANGED reply
    /\ UNCHANGED <<sessionsLock, maps, session, lock, arrival, step, decided, mapset>>

-----------------------------------------------------------------------------
(* Observations                                                            *)

Trimmed(history, n) ==
    IF Len(history) > n
    THEN SubSeq(history, Len(history) - n + 1, Len(history))
    ELSE history

\* Seeded bug: del history[:-N] without max(1, N), which deletes nothing at N = 0.
BugTrim(history) ==
    IF FrameHistoryLength = 0 THEN history ELSE Trimmed(history, FrameHistoryLength)

\* del history[: -max(1, N)]
Trim(history) ==
    Trimmed(history, IF FrameHistoryLength > 1 THEN FrameHistoryLength ELSE 1)

\* _record_frame's critical section.
RecordFrame(s, f) ==
    /\ lock[s] = None
    /\ session' = [session EXCEPT ![s].frames[f.sensor] = Trim(Append(@, f.time))]

Declared(c) == req[c].frame.sensor \in session[obj[c]].cameras

SubmitImage(c) ==
    /\ pc[c] = "found" /\ Is(c, "submit_image")
    /\ \/ /\ ~Declared(c)
          /\ Answer(c, "INVALID_ARGUMENT", None)
          /\ UNCHANGED session
       \/ /\ Declared(c)
          /\ RecordFrame(obj[c], req[c].frame)
          /\ GoTo(c, "announce")
          /\ UNCHANGED reply
    /\ UNCHANGED <<servicer, lock, arrival, locals>>

\* submit_egomotion_observation takes session.lock, or refuses the batch.
BeginEgomotion(c) ==
    /\ pc[c] = "found" /\ Is(c, "submit_egomotion")
    /\ \/ /\ req[c].states = "mismatched"
          /\ Answer(c, "INVALID_ARGUMENT", None)
          /\ UNCHANGED lock
       \/ /\ req[c].states # "mismatched"
          /\ lock[obj[c]] = None
          /\ lock' = [lock EXCEPT ![obj[c]] = c]
          /\ GoTo(c, "landing")
          /\ UNCHANGED reply
    /\ UNCHANGED <<servicer, session, arrival, locals>>

\* The pose the loop is at.
Pose(c) == req[c].poses[step[c] + 1]

\* Seeded bug: the resent pose at the step boundary is not skipped.
BugStale(s, t) == session[s].ego # <<>> /\ t < Last(session[s].ego)

Stale(s, t) == session[s].ego # <<>> /\ t <= Last(session[s].ego)

SkipPose(c) ==
    /\ pc[c] = "landing" /\ step[c] < Len(req[c].poses)
    /\ Stale(obj[c], Pose(c))
    /\ step' = [step EXCEPT ![c] = @ + 1]
    /\ UNCHANGED <<servicer, session, lock, pc, arrival, obj, decided, mapset, reply>>

LandPose(c) ==
    /\ pc[c] = "landing" /\ step[c] < Len(req[c].poses)
    /\ ~Stale(obj[c], Pose(c))
    /\ session' = [session EXCEPT ![obj[c]].ego = Append(@, Pose(c))]
    /\ GoTo(c, "halfway")
    /\ UNCHANGED <<servicer, lock, arrival, locals, reply>>

\* states[i] if states else DynamicState()
StateOf(c) == IF req[c].states = "paired" THEN Pose(c) ELSE None

LandState(c) ==
    /\ pc[c] = "halfway"
    /\ session' = [session EXCEPT ![obj[c]].states = Append(@, StateOf(c))]
    /\ step' = [step EXCEPT ![c] = @ + 1]
    /\ GoTo(c, "landing")
    /\ UNCHANGED <<servicer, lock, arrival, obj, decided, mapset, reply>>

EndEgomotion(c) ==
    /\ pc[c] = "landing" /\ step[c] = Len(req[c].poses)
    /\ lock' = [lock EXCEPT ![obj[c]] = None]
    /\ GoTo(c, "announce")
    /\ UNCHANGED <<servicer, session, arrival, locals, reply>>

\* Seeded bug: the handler looks its uuid up again when it writes.
BugTarget(c) ==
    IF Registered(req[c].uuid) THEN sessions[req[c].uuid] ELSE obj[c]

\* The session a handler writes to.
Target(c) == obj[c]

SubmitRoute(c) ==
    /\ pc[c] = "found" /\ Is(c, "submit_route")
    /\ lock[Target(c)] = None
    /\ session' = [session EXCEPT ![Target(c)].route = req[c].time]
    /\ GoTo(c, "announce")
    /\ UNCHANGED <<servicer, lock, arrival, locals, reply>>

SubmitGroundTruth(c) ==
    /\ pc[c] = "found" /\ Is(c, "submit_ground_truth")
    /\ lock[Target(c)] = None
    /\ session' = [session EXCEPT ![Target(c)].truth = req[c].time]
    /\ GoTo(c, "announce")
    /\ UNCHANGED <<servicer, lock, arrival, locals, reply>>

-----------------------------------------------------------------------------
(* drive and get_vehicle_command                                           *)

\* unpack_renderer_data: nothing under an upstream alpasim runtime.
RendererData(c) == IF Mode = "alpasim" THEN None ELSE req[c].payload

Sweeps(c) == IF RendererData(c) = None THEN <<>> ELSE RendererData(c).lidar

MapId(c) ==
    IF ~HasMapDir \/ RendererData(c) = None THEN None ELSE RendererData(c).map

RecordSweep(c) ==
    /\ pc[c] = "found" /\ Is(c, "drive")
    /\ step[c] < Len(Sweeps(c))
    /\ RecordFrame(obj[c], Sweeps(c)[step[c] + 1])
    /\ step' = [step EXCEPT ![c] = @ + 1]
    /\ GoTo(c, "announce")
    /\ UNCHANGED <<servicer, lock, arrival, obj, decided, mapset, reply>>

\* Seeded bug: every drive opens its map again.
BugOpened(m) == FALSE

\* _map
Opened(m) == maps[m] # None

GetMap(c) ==
    /\ pc[c] = "found" /\ Is(c, "drive")
    /\ step[c] = Len(Sweeps(c))
    /\ \/ /\ MapId(c) = None
          /\ GoTo(c, "plan")
          /\ UNCHANGED <<sessionsLock, mapset>>
       \/ /\ MapId(c) # None
          /\ sessionsLock = None /\ Opened(MapId(c))
          /\ mapset' = [mapset EXCEPT ![c] = maps[MapId(c)]]
          /\ GoTo(c, "plan")
          /\ UNCHANGED sessionsLock
       \/ /\ MapId(c) # None
          /\ sessionsLock = None /\ ~Opened(MapId(c))
          /\ sessionsLock' = c
          /\ GoTo(c, "opening")
          /\ UNCHANGED mapset
    /\ UNCHANGED <<sessions, maps, session, lock, arrival, obj, step, decided, reply>>

\* Seeded bug: a map that cannot be opened leaves _sessions_lock held.
BugOpenMap(c) ==
    /\ pc[c] = "opening"
    /\ Answer(c, "UNKNOWN", None)
    /\ UNCHANGED <<servicer, session, lock, arrival, locals>>

\* MapFiles.open answers or raises; the lock is released either way.
OpenMap(c) ==
    /\ pc[c] = "opening"
    /\ sessionsLock' = None
    /\ \/ /\ maps' = [maps EXCEPT ![MapId(c)] = c]
          /\ mapset' = [mapset EXCEPT ![c] = c]
          /\ GoTo(c, "plan")
          /\ UNCHANGED reply
       \/ /\ Answer(c, "UNKNOWN", None)
          /\ UNCHANGED <<maps, mapset>>
    /\ UNCHANGED <<sessions, session, lock, arrival, obj, step, decided>>

\* Seeded bug: the drive that finishes last decides the command.
BugSupersedes(now, cmd) == TRUE

\* Seeded bug: the comparison is strict, which loses a drive at time 0.
BugStrictlySupersedes(now, cmd) == now > cmd.time

\* A drive that finishes after a later one does not undo its command.
Supersedes(now, cmd) == now >= cmd.time

\* Seeded bug: the plan is anchored at the oldest pose.
BugPlanFrom(now, timeline) ==
    IF timeline = <<>> THEN None ELSE [lead |-> now, anchor |-> Head(timeline)]

\* The plan is led by the newest pose; no pose, empty plan.
PlanFrom(now, timeline) ==
    IF timeline = <<>> THEN None ELSE [lead |-> now, anchor |-> Last(timeline)]

\* The command is decided under the lock.  Only then is the policy's result put
\* into a DriveResponse, which raises if it holds no Trajectory, a scalar past
\* the floats or no Boolean to terminate by.
Commit(c) ==
    /\ pc[c] = "commit"
    /\ lock[obj[c]] = None
    /\ session' = [session EXCEPT
                     ![obj[c]].driveCount = @ + 1,
                     ![obj[c]].command =
                        IF Supersedes(req[c].now, @)
                        THEN [time |-> req[c].now, indicator |-> decided[c]]
                        ELSE @]
    /\ \/ Answer(c, "OK", PlanFrom(req[c].now, session[obj[c]].ego))
       \/ "drive" \in FailingHooks /\ Answer(c, "UNKNOWN", None)
    /\ UNCHANGED <<servicer, lock, arrival, locals>>

GetVehicleCommand(c) ==
    /\ pc[c] = "found" /\ Is(c, "get_vehicle_command")
    /\ lock[obj[c]] = None
    /\ Answer(c, "OK", session[obj[c]].command)
    /\ UNCHANGED <<servicer, session, lock, arrival, locals>>

-----------------------------------------------------------------------------
(* The policy's hooks, called outside both locks                           *)

Hook(c) ==
    CASE req[c].rpc = "start_session" -> "on_session_start"
      [] req[c].rpc = "close_session" -> "on_session_close"
      [] req[c].rpc = "submit_image" -> "on_frame"
      [] req[c].rpc = "submit_egomotion" -> "on_egomotion"
      [] req[c].rpc = "submit_route" -> "on_route"
      [] req[c].rpc = "submit_ground_truth" -> "on_ground_truth"
      [] OTHER -> IF pc[c] \in {"plan", "planning"} THEN "drive" ELSE "on_frame"

InPolicy(c) == pc[c] \in {"policy", "planning"}

CallPolicy(c) ==
    /\ \/ pc[c] = "announce" /\ GoTo(c, "policy")
       \/ pc[c] = "plan" /\ GoTo(c, "planning")
    /\ UNCHANGED <<servicer, session, lock, arrival, locals, reply>>

PolicyLocks(c) ==
    /\ InPolicy(c) /\ Hook(c) \in LockingHooks
    /\ lock[obj[c]] = None
    /\ lock' = [lock EXCEPT ![obj[c]] = c]
    /\ UNCHANGED <<servicer, session, pc, arrival, locals, reply>>

PolicyUnlocks(c) ==
    /\ InPolicy(c) /\ lock[obj[c]] = c
    /\ lock' = [lock EXCEPT ![obj[c]] = None]
    /\ UNCHANGED <<servicer, session, pc, arrival, locals, reply>>

\* An observation hook, on_session_start or on_session_close returns.
HookReturns(c) ==
    /\ pc[c] = "policy" /\ lock[obj[c]] # c
    /\ \/ /\ Is(c, "drive")
          /\ GoTo(c, "found")
          /\ UNCHANGED reply
       \/ /\ ~Is(c, "drive")
          /\ Answer(c, "OK", None)
    /\ UNCHANGED <<servicer, session, lock, arrival, locals>>

HookRaises(c) ==
    /\ pc[c] = "policy" /\ lock[obj[c]] # c
    /\ Hook(c) \in FailingHooks
    /\ \/ /\ Is(c, "start_session")
          /\ GoTo(c, "reject")
          /\ UNCHANGED reply
       \/ /\ ~Is(c, "start_session")
          /\ Answer(c, "UNKNOWN", None)
    /\ UNCHANGED <<servicer, session, lock, arrival, locals>>

\* Seeded bug: the policy's value reaches the session unchecked.
BugTurnIndicator(value) == value

\* _turn_indicator
TurnIndicator(value) == IF value \in Indicators THEN value ELSE NoCommand

DriveReturns(c) ==
    /\ pc[c] = "planning" /\ lock[obj[c]] # c
    /\ \E value \in PolicyIndicators :
         decided' = [decided EXCEPT ![c] = TurnIndicator(value)]
    /\ GoTo(c, "commit")
    /\ UNCHANGED <<servicer, session, lock, arrival, obj, step, mapset, reply>>

DriveRaises(c) ==
    /\ pc[c] = "planning" /\ lock[obj[c]] # c
    /\ "drive" \in FailingHooks
    /\ Answer(c, "UNKNOWN", None)
    /\ UNCHANGED <<servicer, session, lock, arrival, locals>>

-----------------------------------------------------------------------------
Serve(c) ==
    \/ RefuseStart(c) \/ Register(c) \/ RejectStart(c) \/ CloseSession(c)
    \/ RequireSession(c) \/ SubmitImage(c) \/ BeginEgomotion(c) \/ SkipPose(c)
    \/ LandPose(c) \/ LandState(c) \/ EndEgomotion(c) \/ SubmitRoute(c)
    \/ SubmitGroundTruth(c) \/ RecordSweep(c) \/ GetMap(c) \/ OpenMap(c)
    \/ Commit(c) \/ GetVehicleCommand(c) \/ CallPolicy(c)

PolicyReturns(c) ==
    HookReturns(c) \/ HookRaises(c) \/ DriveReturns(c) \/ DriveRaises(c)

\* Every call of the run is answered: the server idles.
Idle ==
    /\ Calls = Answered
    /\ UNCHANGED vars

Next ==
    \/ \E c \in Calls : \/ Arrive(c) \/ Serve(c)
                        \/ PolicyLocks(c) \/ PolicyUnlocks(c) \/ PolicyReturns(c)
    \/ Idle

Spec == Init /\ [][Next]_vars

-----------------------------------------------------------------------------
(* Properties                                                              *)

\* Every variable holds what the code keeps in it.
TypeOK ==
    /\ sessions \in [Uuids -> Calls \cup {None}]
    /\ sessionsLock \in Calls \cup {None}
    /\ maps \in [MapIds -> Calls \cup {None}]
    /\ session \in [Calls -> SessionState]
    /\ lock \in [Calls -> Calls \cup {None}]
    /\ pc \in [Calls -> Places]
    /\ req \in [Calls -> Requests \cup {None}]
    /\ obj \in [Calls -> Calls \cup {None}]
    /\ step \in [Calls -> Nat]
    /\ decided \in [Calls -> Indicators \cup {None}]
    /\ mapset \in [Calls -> Calls \cup {None}]
    /\ reply \in [Calls -> Replies \cup {None}]
    /\ before \in [Calls -> SUBSET Calls]

\* close_session takes a session at most once, however many closes race for its
\* uuid, so on_session_close is never called twice for a rollout.
ClosedOnce ==
    \A j, k \in Calls :
        /\ Is(j, "close_session") /\ Is(k, "close_session")
        /\ obj[j] # None /\ obj[j] = obj[k]
        => j = k

\* Once the call that ended a session is answered -- its close, or its own
\* start_session when the policy refused it -- no later call for its uuid reaches
\* that session object.
EndedStaysEnded ==
    \A c \in Calls : \A k \in before[c] :
        /\ obj[k] # None
        /\ Is(k, "close_session") \/ reply[k].status = "FAILED_PRECONDITION"
        => obj[c] # obj[k]

\* A session object its start_session registered and its policy has not refused.
Standing(s) ==
    /\ Is(s, "start_session") /\ obj[s] # None /\ pc[s] # "reject"
    /\ pc[s] = "done" => reply[s].status = "OK"

TakenByClose(s) == \E k \in Calls : Is(k, "close_session") /\ obj[k] = s

\* A start_session of its uuid whose own session the policy refused.
RejectedBeside(s) ==
    \E k \in Calls \ {s} :
        /\ Is(k, "start_session") /\ req[k].uuid = req[s].uuid /\ obj[k] = k
        /\ pc[k] = "done" /\ reply[k].status = "FAILED_PRECONDITION"

\* Starts that race for one uuid lose no session: one that stands is found under its
\* uuid until a close takes it, unless another start of the uuid was refused.
SessionsReachable ==
    \A s \in Calls :
        Standing(s) => \/ sessions[req[s].uuid] = s
                       \/ TakenByClose(s)
                       \/ RejectedBeside(s)

\* A session leaves the registry by its own close_session or by the failure of
\* its own start_session, never because of another session under its uuid.
LeavesByOwnCall ==
    [][\A u \in Uuids : sessions'[u] # sessions[u] /\ sessions[u] # None =>
            /\ sessions'[u] = None
            /\ \E c \in Calls : /\ obj'[c] = sessions[u]
                                /\ pc'[c] # pc[c]
                                /\ Is(c, "close_session") \/ pc[c] = "reject"]_vars

\* Late and resent batches leave ego_trajectory strictly increasing, and
\* dynamic_states pairs each pose with the state that came with it, except for
\* the pose a batch holding session.lock is just landing.
EgoTimeline ==
    \A s \in Calls :
        LET e == session[s].ego
            d == session[s].states
        IN  /\ \A i, j \in 1..Len(e) : i < j => e[i] < e[j]
            /\ \/ Len(d) = Len(e)
               \/ /\ Len(d) + 1 = Len(e)
                  /\ lock[s] # None /\ pc[lock[s]] = "halfway"
            /\ \A i \in 1..Len(d) : d[i] \in {e[i], None}

\* The drives of a session the policy answered, whether or not that answer could
\* be sent.
Committed(s) ==
    {c \in Calls : /\ Is(c, "drive") /\ obj[c] = s /\ pc[c] = "done"
                   /\ decided[c] # None}

NewestIn(s) ==
    LET cmd == session[s].command
    IN  /\ \A c \in Committed(s) : req[c].now <= cmd.time
        /\ \/ \E c \in Committed(s) : cmd = [time |-> req[c].now, indicator |-> decided[c]]
           \/ Committed(s) = {} /\ cmd = [time |-> 0, indicator |-> NoCommand]

\* Whatever order drives finish in, the session's vehicle command is the one of
\* the drive with the latest planning time, be its plan delivered or lost to an
\* error; NO_COMMAND at 0 before any.
CommandNewest == \A s \in Calls : NewestIn(s)

\* A plan is empty only when the client knew of no pose, and it is never led by a
\* pose older than one the client knew to have landed by the drive's own time.
PlanAnchorFresh ==
    \A c \in Calls : \A e \in before[c] :
        /\ Is(c, "drive") /\ pc[c] = "done" /\ reply[c].status = "OK"
        /\ Is(e, "submit_egomotion") /\ reply[e].status = "OK" /\ obj[e] = obj[c]
        => \A i \in 1..Len(req[e].poses) :
              /\ reply[c].body # None
              /\ req[e].poses[i] <= req[c].now =>
                    req[e].poses[i] <= reply[c].body.anchor

\* The poses of its session a client knew to have landed when it sent a call.
PosesKnownTo(c) ==
    UNION {Range(req[e].poses) : e \in
             {e \in before[c] : /\ Is(e, "submit_egomotion") /\ obj[e] = obj[c]
                                /\ reply[e].status = "OK"}}

\* driver.py:184 and service.py:458: a plan is led by the ego pose at time_now_us.
\* Asked of a drive at the newest pose its client had seen land and the session has
\* kept, so that only a pose landing during the drive can come between.
AnchoredAtPlanningTime ==
    \A c \in Calls :
        /\ Is(c, "drive") /\ pc[c] = "done" /\ reply[c].status = "OK"
        /\ req[c].now \in PosesKnownTo(c)
        /\ \A t \in PosesKnownTo(c) : t <= req[c].now
        /\ req[c].now \in Range(session[obj[c]].ego)
        => reply[c].body = [lead |-> req[c].now, anchor |-> req[c].now]

\* Every frame, pose, route and ground truth of a session came with a call that
\* addressed that session: a handler still at work when its session is closed
\* never writes into the next session under the same uuid, and no frame of a
\* camera the session did not declare is kept.
OwnObservations ==
    \A s \in Calls :
        LET sent(rpc) == {c \in Calls : Is(c, rpc) /\ obj[c] = s}
            kept == session[s]
        IN  /\ \A k \in Sensors : \A i \in 1..Len(kept.frames[k]) :
                  LET f == [sensor |-> k, time |-> kept.frames[k][i]] IN
                  \/ \E c \in sent("submit_image") :
                        req[c].frame = f /\ k \in kept.cameras
                  \/ \E c \in sent("drive") : f \in Range(Sweeps(c))
            /\ \A i \in 1..Len(kept.ego) : \E c \in sent("submit_egomotion") :
                  kept.ego[i] \in Range(req[c].poses)
            /\ kept.route = None
               \/ \E c \in sent("submit_route") : kept.route = req[c].time
            /\ kept.truth = None
               \/ \E c \in sent("submit_ground_truth") : kept.truth = req[c].time

\* The history of a sensor stays within frame_history_length, and a policy in
\* on_frame always finds a frame of that sensor, whoever recorded since.
FrameHistory ==
    /\ \A s \in Calls, k \in Sensors :
          Len(session[s].frames[k]) <= 1 \/ Len(session[s].frames[k]) <= FrameHistoryLength
    /\ \A c \in Calls : pc[c] = "policy" =>
          /\ Is(c, "submit_image") =>
                session[obj[c]].frames[req[c].frame.sensor] # <<>>
          /\ Is(c, "drive") =>
                session[obj[c]].frames[Sweeps(c)[step[c]].sensor] # <<>>

\* driver.py:130: the history of a sensor is kept oldest first, which service.py:383
\* leaves to the clients: it appends in the order threads get the lock.
FramesOldestFirst ==
    \A s \in Calls, k \in Sensors :
        LET f == session[s].frames[k] IN
        \A i, j \in 1..Len(f) : i < j => f[i] <= f[j]

\* Drives that name the same map plan with the same opened map set, and a policy
\* that asks for maps never plans without the one its request names.
OneMapPerId ==
    \A c, d \in Calls :
        Is(c, "drive") /\ Is(d, "drive") =>
            /\ mapset[c] # None /\ mapset[d] # None /\ MapId(c) = MapId(d)
               => mapset[c] = mapset[d]
            /\ pc[c] \in {"plan", "planning", "commit"} =>
                  (mapset[c] = None <=> MapId(c) = None)
=============================================================================
