# TLA+ models of carla_driver_interface

carla_driver_interface lets a driving policy be driven by a simulation runtime
over alpasim's `egodriver` gRPC contract: the server around the policy, a client
for tests, an in-process transport, what both ends need to understand one another
(cameras, maps), a policy that wraps a T4 scene driver, and the packaging and
release of all that.  These modules model its control: what happens to sessions,
observations and commands when RPCs of several clients are served by a pool of
threads that call into somebody else's policy, and what happens to the files,
images and releases that several commands and workflow runs share.

Line numbers are those of `src/src/carla_driver_interface/`, unless a path is given.

## The system

### Components

| Component | State it keeps | Operations | Modelled in |
|---|---|---|---|
| Policy server, `service.py` | `_sessions` (uuid → session), `_maps`, `_sessions_lock` | `start_session`, `close_session`, the four `submit_*` RPCs, `drive`, `get_vehicle_command` | `EgodriverServicer` |
| Policy interface, `driver.py` | `SessionState`: frame history, ego trajectory and dynamic states, route, ground truth, drive count, vehicle command, `lock` | seven hooks of `BaseDriver` | `EgodriverServicer`, `PolicyLifecycle` (partly) |
| gRPC server, `server.py` | worker pool, stop event, grace | `build_server`, `serving`, `run_server` | pool in `EgodriverServicer`, stop in `ServerStop` |
| Closed-loop client, `testing.py` | session uuid, step, `LoopResult` | `FakeLoop.run`: negotiate, start, per step observe, drive, fetch the command; close | `ClosedLoop` (partly) |
| Contract revision, `contract.py` | none of its own; the revision agreed on is the client's | `negotiate`, `client_revision`, `camera_to_revision` | `ContractRevision` |
| In-process transport, `inprocess.py` | per channel `_closed` and the handlers; per call status, metadata, `aborted`, `_active`, callbacks | `_invoke`, `_serve`, the servicer context's methods, the three forms of a call | `InProcessCall`, `WireCall` (partly) |
| HD map, `hdmap.py` | parsed map files, traces, the cache `_resolved` | opening a set, reading a Lanelet2 map, `stop_lines`, `rules_ahead` | `GivenLanelet2`, `MapFiles`; not `polyline.py` |
| T4 scene driver, `t4_scene.py` | `_lock`, maps read and registered, the T4 driver's sessions | `drive`, `scene`, `on_session_start`, `on_session_close` | `T4SceneDriver` |
| Geometry, `geometry.py` | none | reading a pose, the two camera turns; pose algebra, `Trajectory` | `Geometry` (partly) |
| Packaging, `alpasim.py`, and command line, `cli.py` | build contexts, Dockerfiles, images, wizard configs | `alpasim build-image`, `alpasim wizard-config`, `serve` | `DriverImage` (partly) |
| Release workflow, `.github/workflows/release.yml` | main, tags, Releases, *latest*, PyPI | bump, tag, release, upload | `ReleasePipeline` |
| Bundled policies, `policies/` | a session read under its lock | `drive` | their use of `session.lock`; `load_policy` in `DriverImage` |
| Protocol helpers, `protocol.py` | none | conversions of payloads | whether a payload unpacks, in `EgodriverServicer` (partly) |
| Protobuf definitions and stubs | none | generated | no |

### How they interact

A runtime calls the policy server's RPCs.  Every RPC runs on a worker thread of
the pool; several RPCs of one session may run at once, since nothing in the
contract forbids a client to send observations on several connections, and an RPC
the client has given up on goes on running.  Handlers share the registry under
`_sessions_lock` and each session object under its own `lock`, both
non-reentrant.  They call the policy's hooks with **neither** lock held, and a
policy may take `session.lock` itself (`route_follower` does) or read the session
without it.  The vehicle command travels back in an RPC of its own
(`get_vehicle_command`), because the contract has no field for it.

The T4 scene driver is one such policy, with a lock of its own around `drive` and
none around the session hooks, and with a store of map resources that forgets.
`MapFiles` is shared by the drives of all sessions, and so is its cache, which no
lock protects.  The main thread waits in `run_server` for a signal and stops the
server under the handlers' feet.  The same servicer runs behind gRPC or behind an
`InProcessChannel`, on the caller's thread.

Outside one process, `build-image`, `wizard-config` and the containers share
directories and image tags, and release runs share main, its tags, the Releases
and PyPI; neither has a lock.

### What is hard

* **Interleaving.** Two starts and two closes race for one uuid; the uuid may be
  reused while a handler still holds the previous session object; a rejected
  start removes by uuid; drives of one session finish in any order; two drives
  open one map or fill the cache for one stop point; release runs overlap.
* **Ordering.** Egomotion batches overlap, are resent at step boundaries and may
  arrive late; frames are recorded in the order threads get the lock; the light
  search visits lanelets in order of hops, not of metres.
* **Partial failure.** A hook raises; a map cannot be opened while
  `_sessions_lock` is held; a policy refuses its session after the session is
  already reachable; a drive fails after it has decided the command; a T4 drive
  fails in any of five places under its lock; a build, a config or a release stops
  half way and is resumed.
* **Timeouts.** The client gives up on a call the server completes; a deadline
  passes during an in-process call; the server's grace ends with calls in the policy.
* **Deadlock.** The policy takes `session.lock` in a hook.
* **Stale values.** The pose a plan is anchored at, the command a loop fetches,
  the revision a client negotiated before its server was replaced, the context
  directory of an earlier build, the arguments baked for another policy.

`PROJECT.json` lists each of these at its line with the properties that cover it.

## The modules

    WireCall                     PolicyLifecycle
       ^ implements                  ^ implements
    InProcessCall                ClosedLoop   T4SceneDriver   ServerStop
       ^                              \            |            /
    InProcessCallProofs                 EXTENDS EgodriverServicer
                                                   ^
                                        EgodriverServicerProofs
                                             ^              ^
                                   ClosedLoopProofs   T4SceneDriverProofs

    Geometry <- ContractRevision <- ContractRevisionProofs
    GivenLanelet2 <- MapFiles <- MapFilesProofs
    DriverImage <- DriverImageProofs
    ReleasePipeline <- ReleasePipelineProofs

Every arrow that is not marked is an EXTENDS; `ClosedLoopProofs` and
`T4SceneDriverProofs` extend `ClosedLoop` and `T4SceneDriver` too.  Each module that is
model-checked has a module `MC...` with the instance: the requests, the map files, the orders.

Definitions whose name starts with `Bug` are seeded bugs: each is a form of the
definition after it that no action uses, kept to show that the properties notice it.

### EgodriverServicer

A *call* is one RPC on one worker thread; the constant `Calls` is the set of all
calls of a behaviour.  `pc[c]` is where the handler of `c` is, `req[c]` its
request, `obj[c]` the session object it holds, and `session[s]`, `lock[s]` are the
session object created by the `start_session` call `s` and its lock.  Naming
objects by the call that created them keeps objects apart that had one uuid one
after the other, which is what half of the hazards are about.

A handler is cut into actions where another thread can come between:

| code | actions |
|---|---|
| `_require_session`, 401-411 | `RequireSession` |
| `start_session`, 113-171 | `RefuseStart`, `Register`, hook, `RejectStart` |
| `close_session`, 173-185 | `CloseSession`, hook |
| `submit_image_observation`, 198-218 | `SubmitImage` (with `_record_frame`), hook |
| `submit_egomotion_observation`, 220-247 | `BeginEgomotion`, `SkipPose`, `LandPose`, `LandState`, `EndEgomotion`, hook |
| `submit_route`, `submit_recording_ground_truth`, 249-273 | `SubmitRoute`, `SubmitGroundTruth`, hook |
| `drive`, 277-340 | per sweep `RecordSweep` and `on_frame`; `GetMap`, `OpenMap`; hook; `Commit` |
| `get_vehicle_command`, 344-356 | `GetVehicleCommand` |
| hooks of the policy | `CallPolicy`, `PolicyLocks`, `PolicyUnlocks`, `HookReturns`, `HookRaises`, `DriveReturns`, `DriveRaises` |

A critical section nothing waits in is one action that requires its lock to be
free.  Two are held across actions: `_sessions_lock` while a map is opened, since
opening takes long and may raise, and `session.lock` while a batch lands, since a
policy that reads without the lock can look into it.  A pose is appended to
`ego_trajectory` (`LandPose`) before its state is appended to `dynamic_states`
(`LandState`): between the two the lists differ in length.  `Commit` decides the
command and then answers, with the plan or with `UNKNOWN`: what turns the policy's
result into a `DriveResponse` (315-340) comes after the lock and raises on a plan
that is no `Trajectory`, on a debug value past the floats, or on a flag to terminate
by that is no Boolean.  A policy that may raise in `drive` (`"drive"` in
`FailingHooks`) may return such a result, too.

Data is cut down to what the properties tell apart.  A pose, a frame and a plan
are their time stamps; a map set is the call that opened it; images, points,
covariances, speed and the debug payload are left out.  A conversion that decides
something is kept: `_turn_indicator` turns what is no indicator into `NO_COMMAND`.

### PolicyLifecycle and ClosedLoop

`PolicyLifecycle` is what `BaseDriver` promises a policy: `on_session_start`
first, then observations and drives from any threads, `on_session_close` once and
after all of them, and nothing for a rollout the policy refused.  A call its client
gave up on (`stray`) is the one exception: nobody waits for it, so its hook may run,
or be called, beside the close and after it.  `ClosedLoop` puts `FakeLoop.run` in front of `EgodriverServicer`: each loop makes its calls one
at a time, gives up on those that time out, and leaves through its `finally`.
The mapping `Lifecycle` reads the phase of a rollout off the start and close calls
of its loop, and the calls given up on off the history variable `late`.  The
constant `Overruns` says which RPCs may outlast the client's timeout, so that a
run can say exactly what a property depends on.

### T4SceneDriver

The policy of `t4_scene.py` in the servicer's hooks.  Every action is a step of
`EgodriverServicer` (a hook that returns or raises) with what the policy does in
it, or a step of the policy alone.  `state` is what the T4 driver keeps by *uuid*;
its values are the start calls it was made for, so that a state that outlived its
session is told from the one of the next session.  `drive` is cut at the lock
(`Enter`), the reading of the map (`MapStore`), the decoding, which registers a map
the store has let go again (`Decode`), the model (`BeginModel`, `EndModel`) and the
plan made of its answer (`Result`), each with the ways it may raise.

### ServerStop

`run_server` and its main thread around the servicer: `Signal` is SIGTERM, which
sets the event, or Ctrl-C, which raises out of the wait; then `server.stop(grace)`,
`Cancel` when the grace is over, `Return` and the join of the worker threads at
`Exit`.  A handler cannot be cancelled: what has begun runs on.  The constant
`HangingHooks` names hooks that may never return, of which at most one call at a
time hangs.

### InProcessCall and WireCall

`WireCall` is a unary call over gRPC as both ends see it; the client's end and the
server's end may come in any order once the deadline has passed.  `InProcessCall`
is `_invoke` and `_serve` on the calling thread: the look-up of the handler among
the registered and the generic ones, the checks before the servicer
runs, everything a servicer can do to its context (set a status, send metadata
once, abort, swallow its own abort, raise, register termination callbacks, also
from other threads while the call ends), the two looks at the clock after it, and
what is handed to a caller that used `__call__`, `with_call` or `future`.

### ContractRevision and Geometry

Clients of release 1.x, of this release, of a newer one, and upstream alpasim
runtimes talk to a server whose release may be replaced at any step.  A camera is
a pose with an exact rotation matrix, and the two turns multiply it by
`BODY_TO_OPTICAL` or its inverse, so that a pose turned twice, or the wrong way, is
*not* mistaken for a right one; a message whose quaternion nobody filled in (the
zero matrix) is read as the identity where the code reads it, and passed on
untouched where the code copies the message.  The actions are `negotiate`,
`start_session` on this release and on 1.x, the replacement of the server, and a
client's next session.  The 1.x behaviour is what `contract.py` says of it, and is
marked external in the map.

### GivenLanelet2 and MapFiles

`Read` is the constructor of `_GivenLanelet2`, in decimetres: the right bound is
turned along the left, both are turned so that the left is on the left, the length
is the mean of the bounds, and the successors are looked up in a grid of cells
around each end.  The truth it is checked against, `from` and `to`, is the drawn
road of the instance.  `stop_lines` is cut into the points of a light: `TakeResolved`
finds one in the cache, `BeginSearch` starts `rules_ahead` in the order the set of
its lanelets iterates (any order, but the same each time in one process), `Visit`
is one turn of the search's loop and `EndSearch` writes the cache.  `MapFiles`
opens a set in a format, and answers for a converted set from its two traces
(`AnswerConverted`).

### DriverImage

Builds, wizard configs and containers as processes on one machine.  `build-image`
is cut where it touches the context directory (`Clear`, `MakePackages`, one `Copy`
per requirement, `WriteDockerfile`), and docker reads the whole context at once
(`Send`) and tags the image at the end (`Build`).  `wizard-config` writes one file
and then the other (`StartConfig`, `EndConfig`).  Any of these may stop on the way,
of its own accord too (a full disk, a signal): a removal leaves some of the
packages, a copy some of the files, and `write_text`, which empties a file before it
writes it, leaves the file as it was or empty (`Torn`).  `Run` starts a container and
serves: which policy, with which arguments, and whether `load_policy` would load it.

### ReleasePipeline

A run of the workflow for a merge or a dispatch; `Fail` ends it before any of its
steps and `Rerun` starts a failed merge's run again from its old commit.  main is
the sequence of its commits.  The workflow looks before it acts (`LookForTag` and
`PushTag`, `LookForRelease` and `CreateRelease`), with whatever other runs do in between.

## What is checked

| Run | Instance | Shows |
|---|---|---|
| `registry` | 4 calls, 1 uuid, 4 workers; starts the policy may refuse, unsupported starts, closes, routes, ground truths, frames of a declared and an undeclared camera, a drive with two sweeps, history length 0 | `ClosedOnce`, `EndedStaysEnded`, `SessionsReachable`, `OwnObservations`, `FrameHistory` |
| `drives` | 4 calls, 3 workers; drives at 0 and at 2 (on a map), batches `1,2`, `2,1,3` and a mismatched one, command readers; policies that raise, that return no indicator, or a result no response can be made of | `TypeOK`, `CommandNewest`, `PlanAnchorFresh`, `OneMapPerId`, `EgoTimeline` |
| `closed_loop` | 2 loops of 2 steps, 2 workers; sessions refused, drives that fail, drives and command fetches that time out and go on | `ImplementsLifecycle`, `NoSessionLeft`, `CommandOfItsDrive`, `FramesOldestFirst` |
| `t4_scene` | 4 calls, 3 workers; drives without a scene and on two map sets, a store of one map | `OneDriveAtATime`, `MapAlwaysResolved`, `OwnT4State`, `NoT4StateLeft` |
| `liveness` | 3 calls on 2 workers, of three kinds; hooks and maps that fail, hooks that lock, one that may hang; a signal at any moment | `EveryCallAnswered`, `StopsCleanly` |
| `in_process` | 1 call, clock 0-2, 2 callbacks, a request for every check of `_invoke` | `ImplementsWire`, `CallbacksRunOnce`, `AbortedNeverAnswers` |
| `contract` | 2 clients of any release, one camera turned, one with an unset rotation; any sequence of servers | `PolicySeesOptical`, `OlderPolicySeesBody`, `RefusedOnlyUnknown` |
| `map_lights` | 2 drives, 2 questions; 31 given Lanelet2 maps and 3 converted sets, in two formats | `DirectionAsDriven`, `SuccessorsJoin`, `OnlyLightsAhead`, `MissedOnlyByDetour`, `AnswersAgree`, `TracedExactly` |
| `driver_image` | 2 builds, 2 wizard configs; two tags that share a context directory; a policy of one's own, a misspelt one, a bundled one | `ImageOfItsOrder`, `ArgsOfItsPolicy`, `CheckedPolicyLoads`, `ConfigsPaired` |
| `release` | 3 runs, merges or dispatches, one re-run | `VersionsIncrease`, `ReleasedFromBump`, `LatestNotBack`, `DoneIsComplete` |
| `stale_pop` | 4 calls, 1 uuid; starts that may be refused, closes | that `LeavesByOwnCall` is *violated* |
| `moving_anchor` | 4 calls; poses at 1 and 2, drives at 1 | that `AnchoredAtPlanningTime` is *violated* |

What `get_vehicle_command` must answer is said where a client waits for its drive first:
`CommandOfItsDrive` in `closed_loop`.  In `drives` `CommandNewest` is about the command itself.

Three properties read like weaker forms of what one would like, and say why:
`SessionsReachable` excuses a session beside whose start another start of the uuid was
refused (see `stale_pop`), and `MissedOnlyByDetour` a light the search reaches by
the longer of two ways, over fewer lanelets, before the shorter one: rules_ahead
visits a lanelet once, and what lies behind it is then measured along the detour.
`PlanAnchorFresh` asks that a plan's anchor is not *behind* any pose up to its planning
time that its client knew to have landed; that it is not ahead of that time is what
`moving_anchor` refutes.

### Bounds, and why they are enough

* **Calls.** Every safety property of the servicer relates at most two calls to
  one session, and a session needs a call to start it; a fourth call is the one
  that comes between (a close, a second start under the same uuid).  The uuid
  matters only for equality and the code touches one at a time, so the runs have
  one uuid and put all calls on it; `closed_loop` has two.  The theorems need no
  bound.
* **Times.** 0 is a legal planning time and equals the initial command's stamp;
  1, 2 and 3 allow equal, overlapping and backward batches.
* **Workers.** In the safety runs there are enough for every race the run is
  about; `liveness` and `closed_loop` have fewer workers than calls that may be
  under way, those given up on included, so calls wait for a thread.
* **History length.** 0 in `registry`, where `del history[:-N]` without `max(1, N)`
  would delete nothing.
* **Store.** One map where the code has 64: with two map sets, every drive on one
  evicts the other.
* **InProcessCall.** Calls on one channel share nothing but `closed`, which any
  other thread may set; one call therefore stands for all.  Three instants give a
  call before, at and past its deadline.
* **Maps.** Diamonds whose straight way has as many lanelets as a detour of 18 m or
  48 m, or more, against a search of 50 m over lanelets of 5 m to 10 m; a loop; a
  two-way road across the origin, where the grid's cells change sign; every bound
  written either way.  Two questions are enough for one to use what the other
  cached, or to search for it at the same time.
* **Images.** Two builds share a directory or one follows the other; `MCOrders` has
  one order for every way an order can differ.
* **Releases.** Three runs: one bumps, one merges over it or bumps next, one
  finishes by hand; one re-run.  The theorems need no bound.
* **Symmetry.** `Calls` is symmetric in the runs of the servicer and the T4 driver,
  `Drives` and `Runs` in theirs, `Builds` and `Wizards` each among themselves in
  `driver_image`, and the loops, with their uuids, in `closed_loop`.  Of the runs with a
  temporal property only `closed_loop` and `stale_pop` use it, whose properties are
  safety: a refinement without fairness and an action property.

### Fairness

Only `StopSpec` states fairness.  A thread that can go on does (`WF` of `Begin` and
`Serve`), a policy releases the lock it took (`WF` of `PolicyUnlocks`), and every hook that does
not hang returns: `SF` of `PolicyReturns`, because a hook may take and release the
lock any number of times before it leaves, and `server.py` has no limit on a hook.
A lock is not fair in Python, but a critical section needs only that the lock is
free when the thread is scheduled, and every holder leaves after finitely many
steps in a run of finitely many calls.  The main thread goes on once the stop has begun, and
the grace ends (`WF` of `Stop`): it is one second by the clock.  Nothing is assumed
of signals, nor of a hook that hangs: `EveryCallAnswered` excuses a hanging
policy in a server nobody stops, and `StopsCleanly` promises that `run_server`
returns even so.  The calls of this module are those the server has accepted, so
it is fair that the pool begins them.

Deadlock checking is off in `liveness` only, where the server ends; a state in
which threads are stuck is there a violation of `EveryCallAnswered`.

## What is proved

Every theorem is proved for **any** values of the constants that meet the named
assumptions, each of which TLC evaluates in the runs: `ServicerAssumption` (`None` is none of
the values it stands in for, stamps are naturals, requests are well formed, and
there is a worker), `MaxMapsAssumption`, `ChannelAssumption`, `RevisionAssumption`,
`PipelineAssumption`, `ImageAssumption` (an order has its requirements in a sequence and a
directory to be laid out in, a package only has policies whose arguments are known, and `None` is
none of the values it stands in for), `LoopAssumption` (a loop takes at least one
step, declares a sensor, and the calls and requests of the server are those of its
loops), `TablesAssumption` (the tables of a map set are lists) and `FilesAssumption` (a
file names a lanelet once, and a way that is there is drawn over at least one point).

Three theorems about maps have one hypothesis more, in their statement, since no code
makes it true of a map somebody else drew or converted; `MCMapFiles` has TLC evaluate both
on its maps (`LightsTraced`, `LaneletsDriven`).

### The servicer: `EgodriverServicerProofs`

| Theorem | States | Inductive with `Wiring` and |
|---|---|---|
| `TypeCorrect` | `[]TypeOK` | |
| `SessionsClosedOnce` | `[]ClosedOnce` | `Takeable` |
| `NoSessionLost` | `[]SessionsReachable` | |
| `CommandIsNewest` | `[]CommandNewest` | |
| `EgoTimelineHolds` | `[]EgoTimeline` | `Timeline` |
| `OneMap` | `[]OneMapPerId` | `MapsOK` |
| `EndedIsFinal` | `[]EndedStaysEnded` | `Taken`, `Past`, `Gone` |
| `FrameIsKept` | `[]FrameHistory` | `Framed` |
| `AnchorIsFresh` | `[]PlanAnchorFresh` | `Past`, `BatchesReached` |
| `ObservationsAreOwn` | `[]OwnObservations` | `Owned` |

For any number of calls, uuids, sensors, maps and workers, any history length, any
subset of failing and locking hooks and in both modes.

They rest on one inductive invariant, `Wiring`, which says how calls, objects and
locks hang together: a call has an object exactly while its handler has found or
made one (`CallWiring`), an object is the one its own start created
(`ObjectWiring`), and a lock is held by a call on that very object that is landing
a batch or is inside the policy (`LockWiring`).  `TypeOK` is not inductive without
it: that `session[obj[c]]` is a session needs `obj[c]` to be a call.  The four
parts are proved by `TypeStep`, `CallStep`, `ObjectStep` and `LockStep`, one case
per action, with `Others` for the calls that do not move.  On top of it:

* `ClosedOnce` needs that no session still in the registry has been taken by a
  close (`Takeable`); the two together are `Taken`.
* What excuses a session from being found in `SessionsReachable` (a close that took
  it, a refused start beside it) never passes (`ExcuseStands`), since a call keeps
  its object (`ObjectKept`).
* For `CommandNewest`, only a commit adds to the drives that have decided a command,
  whatever it answers (`OthersDecide`), and it compares with the maximum of them.
* `EgoTimeline` needs that between `LandPose` and `LandState` it is the holder of
  the lock who is halfway and that the last pose is the one at its hand.
* `OneMapPerId`: a drive's map set is the one its map id is registered with, and only
  the holder of `_sessions_lock` registers one, for an id that has none (`MapsOK`).
* `EndedStaysEnded`: a session that has ended is under no uuid (`Gone`), and calls asked for
  before a call was are those answered by then (`Past`).
* `FrameHistory`: what a call has just recorded is still the last of its sensor, or another
  frame has taken its place (`Framed`); a history is never trimmed to nothing.
* `PlanAnchorFresh`: the timeline has reached every batch that is answered
  (`BatchesReached`), and it only grows.  So a plan has an anchor when a batch with a pose
  is among them, and it is no older than any pose in them.
* `OwnObservations`: every frame, pose, route and ground truth of a session has a call of
  that session that carried it (`Owned`).

### The closed loop: `ClosedLoopProofs`

`LoopsAreClients`: `LoopSpec => Spec`, so the ten theorems above hold of a servicer
under closed loops.  The other theorems are for any number of loops and steps:

| Theorem | States | Given that these do not outlast their timeout |
|---|---|---|
| `LoopsLeaveNoSession` | `NoSessionLeft` | `start_session`, `close_session` |
| `CommandIsItsDrives` | `[]CommandOfItsDrive` | |
| `LoopsSendOldestFirst` | `[]FramesOldestFirst` | |
| `LoopsFollowLifecycle` | `ImplementsLifecycle` | |

Both RPCs are needed for `LoopsLeaveNoSession`: with either of them in `Overruns`, TLC finds
a counterexample on the instance of `closed_loop`.

* They rest on `InTurn`, which ties a loop to its calls: a call is made when those before it
  have succeeded (the close, when the start has), and one that runs is the one its loop
  waits for or may outlast its timeout.
* `NoSessionLeft`: a close that got past the registry has its loop's session out of it for
  good (`Popped`), a session that stays registered was not refused (`Kept`), and a loop
  that has ended had its close answered or its start refused (`Ending`).
* `CommandOfItsDrive`: the times of a loop's drives increase, and the drive before a command
  has succeeded when the command is asked for and no later one has been made, so it is
  the newest committed one, and `CommandNewest` says whose command the session has.
* `FramesOldestFirst`: when a frame is recorded, every other frame of its session came with a
  call of the same loop (`Owned`, of the servicer) that had succeeded, so with an earlier one.
* `ImplementsLifecycle` is a refinement step by step: each hook that is called or left is the
  action of `PolicyLifecycle` of that name, a timeout is `GiveUp` (`Strays`), and every other step leaves
  `Phase`, `Active` and `late` as they are.  A call at work is the one its loop waits
  for or one it gave up on (`WaitedFor`); while the loop waits for its close, what is at
  work besides is given up on, which is what lets the close begin and is all that may call
  the policy from then on (`OpenOrLater`, `Undisturbed`).

### The T4 driver: `T4SceneDriverProofs`

* `T4IsAPolicy`: `T4Spec => Spec`.  Every step of the composition is a step of the
  servicer or leaves it alone, so **the ten theorems above hold of a servicer with
  the T4 driver as its policy**.
* `OneDriveHolds`: `[]OneDriveAtATime`, inductive with the places a drive can be in
  (`DriveInv`).
* `NoStateLeft`: `[]NoT4StateLeft`, from `CloseInv`, with `Past` of the servicer: a close
  asked for after its session had started meets the state of that session or of a
  later one.
* `MapsResolve`: `[]MapAlwaysResolved`, from `MapInv`: a drive past the reading of the map plans
  with one that was read (`MapRead`), and what was read is registered again before
  it is looked up.
* `DrivesOnOwnState`: `[]OwnT4State`.  What the drive needs is `StatesOwn`: the T4 driver has the
  state of every session that has started, unless a close took the session or another
  start or close of the uuid came beside its start; and each of these excuses stays one
  (`Rightful`), since calls keep their objects.

### The in-process transport: `InProcessCallProofs`

* `ChannelIsAWire`: `Spec => ImplementsWire`, the refinement of `WireCall`.
  `WireInv` ties where a call is to what the two ends know of it, and each action
  is one of the wire's or a stutter.
* `CallbacksHold`, `AbortsHold`: `[]CallbacksRunOnce` and `[]AbortedNeverAnswers`, from
  the balance of accepted, pending and run callbacks and from the ways an aborted
  call may go on (`Inv`).

### The contract revision: `ContractRevisionProofs`

`PolicyIsHandedOptical`, `OlderPolicyIsHandedBody` and `KnownReleasesPair` state the three
properties of `ContractRevision` for any number of clients, any mounts and any sequence of
servers.  They rest on `Agreement`: a client that has negotiated has a supported
revision, and it has the newer one beside a 1.x server only if that server came
after the newer one had been asked.  The turns themselves are lemmas on integer
matrices: one undoes the other, and each is what `FramesOfOneCamera` says of a
body and its optical frame.

### The release workflow: `ReleasePipelineProofs`

`VersionsOnlyIncrease`, `OnlyBumpsReleased`, `LatestNeverBack` and `DoneReleasesAll`
state the four properties, for any number of runs and re-runs.  The heart is
that versions along main never go down and a bump raises them: so a version has
one bump commit, which is what a tag, a resolved commit and a run that is
releasing have each found (`Inv`), and what they still find after any other run's
step since main only grows (`Grows`).

### Images and configs: `DriverImageProofs`

| Theorem | States | Inductive |
|---|---|---|
| `ImagesAsOrdered` | `[]ImageOfItsOrder` | `LayInv`, `PackInv` |
| `CheckedImagesLoad` | `[]CheckedPolicyLoads` | `LayInv`, `CheckInv` |
| `ConfigsInPairs` | `[]ConfigsPaired` | `ConfigInv` |
| `ArgsGoToTheirPolicy` | `[]ArgsOfItsPolicy` | the property itself |

For any number of builds, configs, tags and directories, and any sharing of the
directories between tags.

* `LayInv`: a build has laid out the first packages of its own order, in order.  That is
  in its own memory, so it holds whoever writes into the directory.
* `ImageOfItsOrder` needs that a build which knows of no other in its directory has none there
  (`Apart`); then the directory holds what the build has laid out, docker reads that, and
  the image is that (`Packing`, `Tagged`).
* `CheckedPolicyLoads` must hold of builds that do share a directory: whatever
  Dockerfile docker reads, the list of requirements in it is one some build wrote, and
  the check in it was made against that very list (`Vetted`).
  A Dockerfile may also be empty, when the build that wrote it stopped; no image comes
  of it (`Readable`).
* `ConfigsPaired`: a config half way has its name to itself, with the driver's file in place, or
  knows of the other (`HalfAlone`).  Where a step makes the two files differ, the config
  that took it is the `Excuse`; an excuse lasts as long as nobody touches the two files
  (`ExcuseStays`), and whoever does excuses what it leaves itself.

### The maps: `MapFilesProofs`

| Theorem | States | From | Given |
|---|---|---|---|
| `CacheUnseen` | `[]AnswersAgree` | `CacheInv` | |
| `TracesFollowed` | `[]TracedExactly` | `CacheInv`, `LightsInv` | `TracedOnce` |
| `DirectionKept` | `[]DirectionAsDriven` | `FileRead` | `DrawnAsDriven` |
| `GridJoins` | `[](DirectionAsDriven => SuccessorsJoin)` | `FileRead` | |
| `SuccessorsFound` | `[]SuccessorsJoin` | the two above | `DrawnAsDriven` |
| `SearchStops` | `[]OnlyLightsAhead` | `AheadInv` | |
| `SearchThorough` | `[]MissedOnlyByDetour` | `AheadInv`, `ThoroughInv` | |

For any map set, any number of drives and any questions; the lanelets may lie anywhere, be
drawn over any number of points and branch in any way.

* `AnswersAgree`: a light has one answer, what its points come to one by one, each by the
  search that its point has in this process.  `CacheInv` says that whatever is in the cache
  is what *any* search of that point would end in (`Entered`), that a search under way ends
  where one begun now would (`Underway`), and that a drive has kept what the cache has for
  the points behind it (`KeptSoFar`).  Where a search ends is what every set closed under
  its turns has in common (`Reaches`, `EndsIn`).
* `TracedExactly`: what a list of links comes to, filtered, each once and in a row.
  `TracedOnce` asks that no two entries of the trace that lead from the light's objects or
  from their rules name one element: nothing in `_ids` would keep such a name from being
  answered twice.
* `DirectionAsDriven`: `DrawnAsDriven` says what a drawn road is, without saying how it is
  written: each of the two ways, or it written back, runs along the drive; the ends
  that belong together are nearer to each other, in sum, than those that do not; and the
  area between them is to be walked with the left way on the left.  `BoundsFound` goes
  through the four ways to write it.  That the second turn turns the right ones rests on
  `TurnedArea`: drawn the other way round, an outline of any number of points has the
  opposite area (its edges are paired, `OppositeSums`, and a sum may be taken in any
  order, `AnyTaken`).
* `SuccessorsJoin`: points within `Join` lie in neighbouring cells, on both sides of zero
  (`CellsReach`), and no two of the nine cells are one (`CellsApart`).
* `OnlyLightsAhead`: everything a search has queued or found is at the end of a way from its
  point that has no light before it and is as long as the search says (`OnItsWay`).
* `MissedOnlyByDetour`: the search goes through the lanelets in the order of how many lie
  before them (`InBreadth`: the queue spans two neighbouring numbers of lanelets), so each is
  first come to over as few lanelets as any way has; by going along the way to a missed light, the
  first lanelet of it that the search left out was left out for its metres.  For this
  distances are whole numbers (`DistanceIs`, `RootExists`) and so are lengths (`LengthIs`).

None of this needs the induction theorems of the library.  A fold, a sum and the ways over
some number of lanelets are chosen functions; that one exists, that it is typed, and that two of
them agree is proved by a least number at which it would fail (`LeastOf`, from the
well-foundedness of `<` on the naturals, and `UpTo`).

### Only model-checked

* `EveryCallAnswered` and `StopsCleanly`: liveness under fairness, which the provers do not
  reach.
* That `LeavesByOwnCall` and `AnchoredAtPlanningTime` fail: a counterexample is a matter of one
  instance.
* Whether the operators the theorems are stated with say what the code computes: that
  `Distance` is rounded down to decimetres, or that `Inside` is the crossing number, is
  a translation, which the runs exercise on maps whose answers can be read off the drawing.

## Where code and documentation disagree

Two are runs that end in a counterexample:

* `stale_pop`: a start that the policy rejects pops *whatever* has its uuid
  (service.py:167).  If the session was closed and the uuid started anew meanwhile,
  an accepted session disappears.  `SessionsReachable` holds up to just this case.
* `moving_anchor`: a plan is led by the newest pose at the commit (service.py:309), not by
  the pose at `time_now_us` as driver.py:184 and service.py:458 say: a pose that
  lands while the policy plans is what the plan is anchored at, stamped with the
  earlier time.  The run asks only drives sent at the newest pose their client knew of, so a
  client that sends its poses late, or drives in the past, is not what refutes it.

The others are met where a run's bounds or a property's excuse leave them out:

* The history of a sensor is in order of arrival (service.py:383), not "oldest
  first" (driver.py:130), when frames come on two threads.  In a closed loop, which
  sends one at a time, `FramesOldestFirst` holds.
* A loop that gives up on a drive closes the session while the policy is still in
  `drive`; driver.py:272 promises the close "after the last drive".  `ImplementsLifecycle`
  promises it after every drive the loop has waited for, and excuses the strays.
* A loop whose `start_session` times out never closes the session the server
  registers (testing.py:212), though the docstring (testing.py:204) says run closes
  it.  With `"start_session"` in `Overruns`, `NoSessionLeft` fails.
* `CARLA_DRIVER_INTERFACE_POLICY` set by hand in the container names the policy the
  baked-in arguments are taken to belong to (cli.py:215-216), so they are given to
  a policy they were not baked for.  `ArgsOfItsPolicy` excuses it.
* Only a policy written `module:attribute` is checked while the image is built
  (alpasim.py:157); a misspelt name of a bundled one fails at the first start of
  the container, where alpasim.py:118 says the build fails.  `CheckedPolicyLoads` is about
  the first kind.
* Two builds at work in one `default_context_dir`, which two tags may share, tag
  each other's files.  `ImageOfItsOrder` excuses builds beside one another.
* Two labelled merges in quick succession: the second bump's push is rejected and
  the run fails; run again, it starts from the old merge commit and is rejected
  again (release.yml:3-6, 13-15).  The second bump is lost until
  another labelled merge.
* A dispatch decides whether its release is the latest when it resolves its commit
  (release.yml:187-193); a run of a newer version that creates its Release between
  that and the older one's loses *latest* to it.  `LatestNotBack` promises what the
  code gives: never older than main was when the run was started.

## Not modelled, and why

* **Policy server.** `get_version`, `_debug_payload`, `_debug_scalars`: no state.
* **Stop.** A second Ctrl-C, `run_server` outside the main thread, calls refused once
  the server stops; open sessions get no `on_session_close` at the stop, so no
  property asks for it.
* **Transport.** The streaming methods of the channel, which raise; the values of
  metadata; `_Call`'s accessors.
* **Numbers.** Composition, inverse and interpolation of poses, `Trajectory`, the
  conversion into the local frame, the bundled policies' planning, `polyline.py`,
  rendering and camera intrinsics in `testing.py`: floating-point functions without state.
* **Bytes and text.** LiDAR packing, protobuf stubs, parsing of JSON and XML,
  quoting in Dockerfiles and YAML, the declarations of command-line options, the demo.
* **Release.** GitHub's "re-run failed jobs" (a re-run here starts at the beginning)
  and the re-run of a dispatch, the matrix that installs the result, and a run without the token it pushes with.

## Plan

Left for further work, in this order:

1. The servicer's theorems lifted to `ServerStop` as `T4IsAPolicy` and `LoopsAreClients`
   lift them, so that they are seen to hold while the server stops.
2. The route follower's choice of path and speed on integers, and `polyline.py`
   under it, against a definition over all points of a short polyline.
