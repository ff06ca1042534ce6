------------------------- MODULE T4SceneDriverProofs -------------------------
(***************************************************************************)
(* Theorems about T4SceneDriver, for any number of calls, sessions and     *)
(* maps: it is a policy EgodriverServicer serves, so that the servicer's   *)
(* theorems hold of it, and it lets one drive at a time into its model.    *)
(***************************************************************************)
EXTENDS T4SceneDriver, EgodriverServicerProofs

LEMMA T4InitIsInit == T4Init => Init
  BY DEF T4Init

\* What a T4SceneDriver does in a hook, and its hooks' ends, is what any policy
\* may do, or nothing the servicer can see.
LEMMA T4StepIsStep == [T4Next]_allvars => [Next]_vars
  <1> SUFFICES ASSUME [T4Next]_allvars PROVE [Next]_vars
    OBVIOUS
  <1>1. CASE UNCHANGED allvars
    BY <1>1 DEF allvars
  <1>2. CASE Idle /\ UNCHANGED t4vars
    BY <1>2 DEF Next
  <1>3. ASSUME NEW c \in Calls, (Arrive(c) \/ Serve(c)) /\ UNCHANGED t4vars
        PROVE  [Next]_vars
    BY <1>3 DEF Next
  <1>4. ASSUME NEW c \in Calls, T4Policy(c)
        PROVE  [Next]_vars
    <2>1. PolicyReturns(c) \/ UNCHANGED vars
      BY <1>4 DEF T4Policy, PolicyReturns, OnSessionStart, OnSessionClose, OtherHook, Enter,
         NoScene, MapStore, Decode, BeginModel, EndModel, Result, Raise
    <2>2. QED
      BY <2>1 DEF Next
  <1>5. QED
    BY <1>1, <1>2, <1>3, <1>4 DEF T4Next

\* A servicer with a T4SceneDriver behaves as EgodriverServicer does with some
\* policy.
THEOREM T4IsAPolicy == T4Spec => Spec
  BY T4InitIsInit, T4StepIsStep, PTL DEF T4Spec, Spec

-----------------------------------------------------------------------------
(* One drive at a time                                                     *)

\* What the theorems below use of the servicer's.
LEMMA T4Wired == T4Spec => []Wiring
  BY T4IsAPolicy, WiringHolds, PTL

Where == {"outside", "scene", "decode", "driving", "model", "result", "raised"}

\* A drive leaves T4SceneDriver.drive when it ends, and enters it once.
Placed ==
    /\ place \in [Calls -> Where]
    /\ t4lock \in Calls \cup {None}
    /\ \A c \in Calls : place[c] # "outside" => pc[c] \in {"planning", "commit", "done"}

DriveInv == Placed /\ OneDriveAtATime

LEMMA DriveInvInit == T4Init => DriveInv
  BY ServicerAssumption DEF T4Init, Init, DriveInv, Placed, Where, OneDriveAtATime, At

\* The servicer moves no call that is in the policy's drive.
LEMMA ServerPlaces ==
    ASSUME TypeOK, NEW c \in Calls, Arrive(c) \/ Serve(c)
    PROVE  /\ pc[c] # "planning"
           /\ pc[c] \in {"commit", "done"} => pc'[c] = "done"
  BY DEF TypeOK, Serve, Arrive, RefuseStart, Register, RejectStart, CloseSession,
     RequireSession, SubmitImage, BeginEgomotion, SkipPose, LandPose, LandState,
     EndEgomotion, SubmitRoute, SubmitGroundTruth, RecordSweep, GetMap, OpenMap, Commit,
     GetVehicleCommand, CallPolicy, GoTo, Answer

\* The hooks other than drive change no call that is in drive.
LEMMA HookPlaces ==
    ASSUME TypeOK, NEW c \in Calls, HookReturns(c) \/ HookRaises(c)
    PROVE  pc[c] = "policy" /\ pc'[c] # "planning"
  BY DEF TypeOK, HookReturns, HookRaises, GoTo, Answer

LEMMA DriveStep == Wiring /\ DriveInv /\ [T4Next]_allvars => DriveInv'
  <1> SUFFICES ASSUME Wiring, DriveInv, [T4Next]_allvars PROVE DriveInv'
    OBVIOUS
  <1> USE ServicerAssumption
  <1>1. TypeOK /\ pc \in [Calls -> Places]
    BY DEF Wiring, TypeOK
  <1>2. CASE UNCHANGED <<pc, t4vars>>
    BY <1>2 DEF t4vars, DriveInv, Placed, OneDriveAtATime, At
  <1>3. ASSUME NEW c \in Calls, Arrive(c) \/ Serve(c), UNCHANGED t4vars
        PROVE  DriveInv'
    <2>1. \A d \in Calls \ {c} : pc'[d] = pc[d]
      BY <1>1, <1>3, Others DEF StepOf, OthersStand
    <2>2. \A d \in Calls : place[d] # "outside" => pc'[d] \in {"planning", "commit", "done"}
      BY <1>1, <1>3, <2>1, ServerPlaces DEF DriveInv, Placed
    <2>3. \A d \in Calls : place[d] # "outside" => (pc[d] = "planning" <=> pc'[d] = "planning")
      BY <1>1, <1>3, <2>1, ServerPlaces DEF DriveInv, Placed
    <2>4. QED
      BY <1>3, <2>2, <2>3 DEF t4vars, DriveInv, Placed, OneDriveAtATime, At
  <1>4. ASSUME NEW c \in Calls, HookReturns(c) \/ HookRaises(c),
               UNCHANGED <<t4lock, place>>
        PROVE  DriveInv'
    <2>1. \A d \in Calls \ {c} : pc'[d] = pc[d]
      BY <1>1, <1>4, Others DEF StepOf, OthersStand, PolicyReturns
    <2>2. pc[c] = "policy" /\ pc'[c] # "planning" /\ place[c] = "outside"
      BY <1>1, <1>4, HookPlaces DEF DriveInv, Placed
    <2>3. QED
      BY <1>4, <2>1, <2>2 DEF DriveInv, Placed, OneDriveAtATime, At
  <1>5. ASSUME NEW c \in Calls, UNCHANGED pc, At(c, "outside"), t4lock = None,
               t4lock' = c, place' = [place EXCEPT ![c] = "scene"]
        PROVE  DriveInv'
    BY <1>5 DEF DriveInv, Placed, OneDriveAtATime, At, Where
  <1>6. ASSUME NEW c \in Calls, NEW from \in {"scene", "decode", "driving"},
               NEW to \in {"decode", "driving", "model"}, UNCHANGED <<pc, t4lock>>,
               At(c, from), place' = [place EXCEPT ![c] = to]
        PROVE  DriveInv'
    BY <1>6 DEF DriveInv, Placed, OneDriveAtATime, At, Where
  <1>7. ASSUME NEW c \in Calls, NEW from \in {"scene", "decode", "model"},
               At(c, from), Raise(c, cause'[c]), t4lock' = None
        PROVE  DriveInv'
    <2>1. pc' = [pc EXCEPT ![c] = "done"] /\ place' = [place EXCEPT ![c] = "raised"]
      BY <1>7 DEF Raise, DriveRaises, Answer, GoTo
    <2>2. QED
      BY <1>1, <1>7, <2>1 DEF DriveInv, Placed, OneDriveAtATime, At, Where
  <1>8. ASSUME NEW c \in Calls, At(c, "model"), UNCHANGED pc, t4lock' = None,
               place' = [place EXCEPT ![c] = "result"]
        PROVE  DriveInv'
    BY <1>8 DEF DriveInv, Placed, OneDriveAtATime, At, Where
  <1>9. ASSUME NEW c \in Calls, Result(c)
        PROVE  DriveInv'
    <2>1. /\ At(c, "result") /\ t4lock' = t4lock
          /\ \/ pc' = [pc EXCEPT ![c] = "commit"] /\ place' = place
             \/ pc' = [pc EXCEPT ![c] = "done"] /\ place' = [place EXCEPT ![c] = "raised"]
      BY <1>9 DEF Result, DriveReturns, DriveRaises, Raise, Answer, GoTo
    <2>2. QED
      BY <1>1, <2>1 DEF DriveInv, Placed, OneDriveAtATime, At, Where
  <1>10. ASSUME NEW c \in Calls, T4Policy(c)
         PROVE  DriveInv'
    <2>1. CASE OnSessionStart(c) \/ OnSessionClose(c) \/ OtherHook(c)
      BY <1>4, <2>1 DEF OnSessionStart, OnSessionClose, OtherHook, t4vars
    <2>2. CASE Enter(c)
      BY <1>5, <2>2 DEF Enter, vars
    <2>3. CASE NoScene(c)
      <3>1. Raise(c, cause'[c])
        BY <2>3 DEF NoScene, Raise
      <3>2. QED
        BY <1>7, <2>3, <3>1 DEF NoScene, Leave
    <2>4. CASE MapStore(c)
      BY <1>6, <1>7, <2>4 DEF MapStore, Leave, vars, Raise
    <2>5. CASE Decode(c)
      BY <1>6, <1>7, <2>5 DEF Decode, Leave, vars, Raise
    <2>6. CASE BeginModel(c)
      BY <1>6, <2>6 DEF BeginModel, vars
    <2>7. CASE EndModel(c)
      BY <1>7, <1>8, <2>7 DEF EndModel, Leave, vars, Raise
    <2>8. CASE Result(c)
      BY <1>9, <2>8
    <2>9. QED
      BY <1>10, <2>1, <2>2, <2>3, <2>4, <2>5, <2>6, <2>7, <2>8 DEF T4Policy
  <1>11. QED
    BY <1>2, <1>3, <1>10 DEF T4Next, Idle, allvars, vars

\* However drives interleave and end, the lock is held by exactly the drive that
\* reads its scene or is in the model.
THEOREM OneDriveHolds == T4Spec => []OneDriveAtATime
  <1>1. DriveInv => OneDriveAtATime
    BY DEF DriveInv
  <1>2. QED
    BY <1>1, DriveInvInit, DriveStep, T4Wired, PTL DEF T4Spec

-----------------------------------------------------------------------------
(* A closed session leaves no state                                        *)

StatesByUuid == state \in [Uuids -> Calls \cup {None}]

CloseInv == StatesByUuid /\ Past /\ NoT4StateLeft

LEMMA CloseInvInit == T4Init => CloseInv
  BY ServicerAssumption
     DEF T4Init, Init, CloseInv, StatesByUuid, Past, NoT4StateLeft, Is

\* A start or close that has a session is answered OK by its hook, and by nothing else.
LEMMA HookEnds ==
    ASSUME Wiring, NEW k \in Calls, StepOf(k),
           NEW rpc \in {"start_session", "close_session"}, Is(k, rpc)',
           pc'[k] = "done", reply'[k].status = "OK", obj'[k] # None
    PROVE  HookReturns(k)
  <1>1. TypeOK /\ CallOK(k)
    BY DEF Wiring, CallWiring
  <1>2. CASE Arrive(k)
    BY <1>1, <1>2 DEF Arrive, TypeOK
  <1>3. CASE ~Arrive(k) /\ ~HookReturns(k)
    <2>1. Is(k, rpc) /\ req[k].rpc = rpc
      BY <1>3 DEF StepOf, Serve, PolicyReturns, RefuseStart, Register, RejectStart,
         CloseSession, RequireSession, SubmitImage, BeginEgomotion, SkipPose, LandPose,
         LandState, EndEgomotion, SubmitRoute, SubmitGroundTruth, RecordSweep, GetMap, OpenMap,
         Commit, GetVehicleCommand, CallPolicy, PolicyLocks, PolicyUnlocks,
         HookRaises, DriveReturns, DriveRaises, arrival, Is
    <2>2. ~Commit(k) /\ ~OpenMap(k) /\ ~GetVehicleCommand(k) /\ ~SubmitImage(k)
      BY <1>1, <2>1 DEF CallOK, Commit, OpenMap, GetVehicleCommand, SubmitImage, Is
    <2>3. ~BeginEgomotion(k) /\ ~RefuseStart(k) /\ ~RequireSession(k)
      BY <1>1, <2>1 DEF CallOK, BeginEgomotion, RefuseStart, RequireSession, locals, Is
    <2>4. ~RejectStart(k) /\ ~HookRaises(k) /\ ~DriveRaises(k)
      BY <1>1, <2>1 DEF TypeOK, CallOK, RejectStart, HookRaises, DriveRaises, Answer, GoTo, Is
    <2>5. ~CloseSession(k)
      BY <1>1 DEF TypeOK, CallOK, CloseSession, Answer, GoTo
    <2>6. ~Register(k) /\ ~SubmitRoute(k) /\ ~SubmitGroundTruth(k) /\ ~RecordSweep(k)
          /\ ~GetMap(k)
      BY <1>1, <2>1 DEF TypeOK, Register, GoTo, SubmitRoute, SubmitGroundTruth, RecordSweep,
         GetMap, Is
    <2>7. ~SkipPose(k) /\ ~LandPose(k) /\ ~LandState(k) /\ ~EndEgomotion(k)
      BY <1>1, <2>1 DEF CallOK, SkipPose, LandPose, LandState, EndEgomotion
    <2>8. pc \in [Calls -> Places]
      BY <1>1 DEF TypeOK
    <2>9. ~CallPolicy(k) /\ ~DriveReturns(k)
      BY <2>8 DEF CallPolicy, DriveReturns, GoTo
    <2>10. ~PolicyLocks(k) /\ ~PolicyUnlocks(k)
      BY DEF PolicyLocks, PolicyUnlocks, InPolicy
    <2>11. QED
      BY <1>3, <2>2, <2>3, <2>4, <2>5, <2>6, <2>7, <2>9, <2>10
         DEF StepOf, Serve, PolicyReturns
  <1>4. QED
    BY <1>2, <1>3

LEMMA CloseStep == Wiring /\ CloseInv /\ [T4Next]_allvars => CloseInv'
  <1> SUFFICES ASSUME Wiring, CloseInv, [T4Next]_allvars PROVE CloseInv'
    OBVIOUS
  <1> USE ServicerAssumption
  <1>1. CASE UNCHANGED <<vars, state>>
    BY <1>1 DEF CloseInv, StatesByUuid, Past, NoT4StateLeft, vars, arrival, locals, Is
  <1>2. ASSUME NEW c \in Calls, StepOf(c),
               \/ state' = state
               \/ OnSessionStart(c) \/ OnSessionClose(c),
               Is(c, "close_session") /\ HookReturns(c) => OnSessionClose(c)
        PROVE  CloseInv'
    <2>0. StatesByUuid'
      <3>1. TypeOK
        BY DEF Wiring
      <3>2. QED
        BY <1>2, <3>1 DEF CloseInv, StatesByUuid, TypeOK, OnSessionStart, OnSessionClose,
           Begin, End
    <2>1. Past'
      BY <1>2, PastStep DEF CloseInv, StepOf, Next
    <2>2. SUFFICES ASSUME NEW k \in Calls, Is(k, "close_session")', pc'[k] = "done",
                          reply'[k].status = "OK", obj'[k] # None, obj'[k] \in before'[k]
                   PROVE  state'[req'[k].uuid] # obj'[k]
      BY <2>0, <2>1 DEF CloseInv, NoT4StateLeft
    <2>3. CASE k = c
      <3>1. HookReturns(c)
        BY <1>2, <2>2, <2>3, HookEnds
      <3>2. req' = req /\ Is(c, "close_session") /\ state' = End(c)
        BY <1>2, <2>2, <2>3, <3>1 DEF HookReturns, arrival, Is, OnSessionClose
      <3>3. req[c].uuid \in Uuids
        BY <3>1, Serving DEF HookReturns
      <3>4. QED
        BY <2>2, <2>3, <3>2, <3>3 DEF End, CloseInv, StatesByUuid
    <2>4. CASE k # c
      <3>1. /\ pc[k] = "done" /\ req'[k] = req[k] /\ obj'[k] = obj[k]
            /\ Is(k, "close_session") /\ reply[k].status = "OK"
        BY <1>2, <2>2, <2>4, Others DEF Wiring, OthersStand, Is
      <3>2. state[req[k].uuid] # obj[k] /\ pc[obj[k]] = "done" /\ obj[k] \in Calls
        <4>1. obj[k] \in Calls /\ pc[obj[k]] = "done" /\ (obj[k] \in before[k] \/ Arrive(k))
          BY <1>2, <2>2, <3>1, BeforeWas DEF CloseInv
        <4>2. ~Arrive(k)
          BY <3>1 DEF Arrive
        <4>3. QED
          BY <2>2, <3>1, <4>1, <4>2 DEF CloseInv, NoT4StateLeft
      <3>3. CASE state' = state
        BY <3>1, <3>2, <3>3
      <3>4. CASE OnSessionClose(c)
        BY <2>2, <3>1, <3>2, <3>4 DEF OnSessionClose, End
      <3>5. CASE OnSessionStart(c)
        <4>1. obj[c] # obj[k]
          BY <1>2, <3>2, <3>5, DoneStands
             DEF Wiring, ObjectWiring, OnSessionStart, HookReturns, CallWiring, CallOK, Busy
        <4>2. QED
          BY <3>1, <3>2, <3>5, <4>1 DEF OnSessionStart, Begin
      <3>6. QED
        BY <1>2, <3>3, <3>4, <3>5
    <2>5. QED
      BY <2>3, <2>4
  <1>3. ASSUME NEW c \in Calls, (Arrive(c) \/ Serve(c)) /\ UNCHANGED t4vars
        PROVE  CloseInv'
    <2>1. ~HookReturns(c)
      BY <1>3 DEF Serve, Arrive, RefuseStart, Register, RejectStart, CloseSession,
         RequireSession, SubmitImage, BeginEgomotion, SkipPose, LandPose, LandState,
         EndEgomotion, SubmitRoute, SubmitGroundTruth, RecordSweep, GetMap, OpenMap, Commit,
         GetVehicleCommand, CallPolicy, HookReturns
    <2>2. QED
      BY <1>2, <1>3, <2>1 DEF StepOf, t4vars
  <1>4. ASSUME NEW c \in Calls, T4Policy(c)
        PROVE  CloseInv'
    <2>1. CASE OnSessionStart(c) \/ OnSessionClose(c)
      BY <1>2, <2>1 DEF StepOf, PolicyReturns, OnSessionStart, OnSessionClose, Is
    <2>2. CASE OtherHook(c) /\ ~HookReturns(c)
      BY <1>2, <2>2 DEF StepOf, PolicyReturns, OtherHook, t4vars
    <2>3. CASE OtherHook(c) /\ HookReturns(c) /\ ~Is(c, "close_session")
      BY <1>2, <2>3 DEF StepOf, PolicyReturns, OtherHook, t4vars
    <2>4. CASE OtherHook(c) /\ HookReturns(c) /\ Is(c, "close_session")
      <3>1. HookRaises(c) /\ ~Is(c, "start_session") /\ ~Is(c, "drive")
        BY <2>4 DEF OtherHook, Is
      <3>2. Answer(c, "OK", None) /\ Answer(c, "UNKNOWN", None)
        BY <2>4, <3>1 DEF HookReturns, HookRaises
      <3>3. reply \in [Calls -> Replies \cup {None}]
        BY DEF Wiring, TypeOK
      <3>4. QED
        BY <3>2, <3>3 DEF Answer
    <2>5. CASE NoScene(c) \/ MapStore(c) \/ Decode(c) \/ EndModel(c) \/ Result(c)
      <3>1. UNCHANGED <<vars, state>> \/ (state' = state /\ (DriveReturns(c) \/ DriveRaises(c)))
        BY <2>5 DEF NoScene, MapStore, Decode, EndModel, Result, Raise
      <3>2. (DriveReturns(c) \/ DriveRaises(c)) => ~HookReturns(c) /\ StepOf(c)
        BY DEF DriveReturns, DriveRaises, HookReturns, StepOf, PolicyReturns
      <3>3. QED
        BY <1>1, <1>2, <3>1, <3>2
    <2>6. CASE Enter(c) \/ BeginModel(c)
      BY <1>1, <2>6 DEF Enter, BeginModel
    <2>7. QED
      BY <1>4, <2>1, <2>2, <2>3, <2>4, <2>5, <2>6 DEF T4Policy
  <1>5. QED
    BY <1>1, <1>3, <1>4 DEF T4Next, Idle, allvars, t4vars

\* The T4 driver keeps no state of a session whose close is answered.
THEOREM NoStateLeft == T4Spec => []NoT4StateLeft
  <1>1. CloseInv => NoT4StateLeft
    BY DEF CloseInv
  <1>2. QED
    BY <1>1, CloseInvInit, CloseStep, T4Wired, PTL DEF T4Spec

-----------------------------------------------------------------------------
(* A drive finds its map                                                   *)

\* What is left of a history: its last entries.
LEMMA TrimmedKeeps ==
    ASSUME NEW S, NEW h \in Seq(S), h # <<>>, NEW n \in Nat, n > 0
    PROVE  /\ Trimmed(h, n) \in Seq(S)
           /\ Len(Trimmed(h, n)) <= n
           /\ h[Len(h)] \in Range(Trimmed(h, n))
           /\ Range(Trimmed(h, n)) \subseteq Range(h)
  <1> DEFINE first == Len(h) - n + 1
             left == SubSeq(h, first, Len(h))
  <1>1. CASE Len(h) > n
    <2>0. first \in 1..Len(h) /\ Len(h) \in Nat
      BY <1>1
    <2>1. Trimmed(h, n) = left
      BY <1>1 DEF Trimmed
    <2>2. Len(left) = n
      BY <2>0
    <2>3. \A i \in 1..n : left[i] = h[first + i - 1] /\ first + i - 1 \in 1..Len(h)
      BY <2>0
    <2>4. left \in Seq(S)
      BY <2>0
    <2>5. DOMAIN left = 1..n /\ n \in 1..n /\ first + n - 1 = Len(h)
      BY <2>0, <2>2, <2>4
    <2>6. h[Len(h)] \in Range(left)
      BY <2>3, <2>5 DEF Range
    <2>7. Range(left) \subseteq Range(h)
      BY <2>3, <2>5 DEF Range
    <2>8. QED
      BY <2>1, <2>2, <2>4, <2>6, <2>7
  <1>2. CASE ~(Len(h) > n)
    <2>1. Trimmed(h, n) = h /\ Len(h) <= n /\ Len(h) \in DOMAIN h
      BY <1>2 DEF Trimmed
    <2>2. QED
      BY <2>1 DEF Range
  <1>3. QED
    BY <1>1, <1>2

\* What the store makes of a map it has not got: it keeps that one, and of the others
\* as many as it has room for.
LEMMA RegisteringKeeps ==
    ASSUME NEW s \in Seq(MapIds), NEW m \in MapIds
    PROVE  /\ Registering(s, m) \in Seq(MapIds)
           /\ Len(Registering(s, m)) <= MaxMaps
           /\ m \in Range(Registering(s, m))
           /\ Range(Registering(s, m)) \subseteq Range(s) \cup {m}
  <1> DEFINE new == Append(s, m)
  <1>1. /\ new \in Seq(MapIds) /\ new # <<>> /\ new[Len(new)] = m
        /\ DOMAIN new = 1..Len(s) \cup {Len(s) + 1} /\ DOMAIN s = 1..Len(s)
        /\ new[Len(s) + 1] = m /\ \A i \in 1..Len(s) : new[i] = s[i]
    OBVIOUS
  <1>2. Range(new) \subseteq Range(s) \cup {m}
    BY <1>1 DEF Range
  <1> HIDE DEF new
  <1>3. /\ Trimmed(new, MaxMaps) \in Seq(MapIds) /\ Len(Trimmed(new, MaxMaps)) <= MaxMaps
        /\ m \in Range(Trimmed(new, MaxMaps)) /\ Range(Trimmed(new, MaxMaps)) \subseteq Range(new)
    BY <1>1, MaxMapsAssumption, TrimmedKeeps
  <1>4. QED
    BY <1>2, <1>3 DEF Registering, new

\* A map that is read for the first time is read once.
LEMMA ReadOnce ==
    ASSUME NEW s \in Seq(MapIds), IsInjective(s), NEW m \in MapIds, m \notin Range(s)
    PROVE  /\ Append(s, m) \in Seq(MapIds)
           /\ IsInjective(Append(s, m))
           /\ Range(Append(s, m)) = Range(s) \cup {m}
  <1>1. /\ Append(s, m) \in Seq(MapIds) /\ Len(s) \in Nat
        /\ DOMAIN Append(s, m) = 1..(Len(s) + 1) /\ DOMAIN s = 1..Len(s)
        /\ Append(s, m)[Len(s) + 1] = m
        /\ \A i \in 1..Len(s) : Append(s, m)[i] = s[i] /\ s[i] # m
    BY DEF Range
  <1>2. 1..(Len(s) + 1) = 1..Len(s) \cup {Len(s) + 1}
    BY <1>1
  <1>3. QED
    BY <1>1, <1>2 DEF Range, IsInjective

\* A drive past _map_store plans with a map that was read.
MapRead ==
    \A c \in Calls : place[c] = "decode" /\ MapId(c) # None => MapId(c) \in Range(read)

Causes == {"nothing", "no scene", "unreadable", "not registered", "undecodable", "model",
           "result"}

MapInv ==
    /\ read \in Seq(MapIds) /\ store \in Seq(MapIds)
    /\ cause \in [Calls -> Causes]
    /\ MapRead /\ MapAlwaysResolved

LEMMA MapInvInit == T4Init => MapInv
  BY MaxMapsAssumption
  DEF T4Init, MapInv, MapRead, MapAlwaysResolved, Causes, IsInjective, Range

\* A drive in the policy keeps its request, and with it its map.
LEMMA MapIdStands ==
    ASSUME Wiring, Placed, NEW c \in Calls, StepOf(c), NEW d \in Calls, place[d] # "outside"
    PROVE  MapId(d)' = MapId(d)
  <1>1. pc[d] # "unborn"
    BY DEF Placed
  <1>2. req'[d] = req[d]
    <2>1. CASE Arrive(c)
      BY <1>1, <2>1, Others DEF Arrive, OthersStand, Wiring
    <2>2. CASE ~Arrive(c)
      BY <2>2, RequestStands
    <2>3. QED
      BY <2>1, <2>2
  <1>3. QED
    BY <1>2 DEF MapId, RendererData

\* A map put into the store again is one that was read.
LEMMA ResolvingKeeps ==
    ASSUME MapInv, NEW m \in Range(read)
    PROVE  /\ Resolving(m) \in Seq(MapIds) /\ Len(Resolving(m)) <= MaxMaps
           /\ Range(Resolving(m)) \subseteq Range(read) /\ m \in Range(Resolving(m))
  <1>1. m \in MapIds
    BY DEF MapInv, Range
  <1>2. CASE m \in Range(store)
    BY <1>2 DEF Resolving, MapInv, MapAlwaysResolved
  <1>3. CASE m \notin Range(store)
    <2>1. store \in Seq(MapIds) /\ Range(store) \subseteq Range(read)
      BY DEF MapInv, MapAlwaysResolved
    <2>2. /\ Registering(store, m) \in Seq(MapIds) /\ Len(Registering(store, m)) <= MaxMaps
          /\ m \in Range(Registering(store, m))
          /\ Range(Registering(store, m)) \subseteq Range(store) \cup {m}
      BY <1>1, <2>1, RegisteringKeeps
    <2>3. Resolving(m) = Registering(store, m)
      BY <1>3 DEF Resolving
    <2>4. QED
      BY <2>1, <2>2, <2>3
  <1>4. QED
    BY <1>2, <1>3

LEMMA MapStep == Wiring /\ DriveInv /\ MapInv /\ [T4Next]_allvars => MapInv'
  <1> SUFFICES ASSUME Wiring, DriveInv, MapInv, [T4Next]_allvars PROVE MapInv'
    OBVIOUS
  <1>0. /\ place \in [Calls -> Where] /\ cause \in [Calls -> Causes]
        /\ \A c \in Calls : pc[c] = "planning" => MapId(c) \in MapIds \cup {None}
    BY SweepsType DEF DriveInv, Placed, MapInv, Wiring, CallWiring, CallOK
  <1>1. CASE UNCHANGED <<vars, read, store, place, cause>>
    BY <1>1 DEF vars, arrival, MapInv, MapRead, MapAlwaysResolved, MapId, RendererData
  <1>2. ASSUME NEW c \in Calls, StepOf(c), UNCHANGED <<read, store, cause>>,
               \A d \in Calls : place'[d] = "decode" => place[d] = "decode"
        PROVE  MapInv'
    <2>1. \A d \in Calls : place[d] = "decode" => MapId(d)' = MapId(d)
      BY <1>2, MapIdStands DEF DriveInv
    <2>2. MapRead'
      BY <1>2, <2>1 DEF MapInv, MapRead
    <2>3. QED
      BY <1>2, <2>2 DEF MapInv, MapAlwaysResolved
  <1>3. ASSUME NEW c \in Calls, NEW what \in Causes \ {"not registered"}, Raise(c, what),
               UNCHANGED <<read, store>>
        PROVE  MapInv'
    <2>1. StepOf(c) /\ place' = [place EXCEPT ![c] = "raised"]
          /\ cause' = [cause EXCEPT ![c] = what]
      BY <1>3 DEF Raise, StepOf, PolicyReturns
    <2>2. \A d \in Calls : place'[d] = "decode" => place[d] = "decode"
      BY <1>0, <2>1
    <2>3. \A d \in Calls : place[d] = "decode" => MapId(d)' = MapId(d)
      BY <2>1, MapIdStands DEF DriveInv
    <2>4. MapRead'
      BY <1>3, <2>2, <2>3 DEF MapInv, MapRead
    <2>5. cause' \in [Calls -> Causes] /\ \A d \in Calls : cause'[d] # "not registered"
      BY <1>0, <2>1 DEF MapInv, MapAlwaysResolved
    <2>6. QED
      BY <1>3, <2>4, <2>5 DEF MapInv, MapAlwaysResolved
  <1>4. ASSUME NEW c \in Calls, NEW to \in Where \ {"decode"}, UNCHANGED <<vars, read, cause>>,
               place' = [place EXCEPT ![c] = to],
               store' \in Seq(MapIds), Len(store') <= MaxMaps, Range(store') \subseteq Range(read)
        PROVE  MapInv'
    <2>1. \A d \in Calls : place'[d] = "decode" => place[d] = "decode"
      BY <1>0, <1>4 DEF Where
    <2>2. \A d \in Calls : MapId(d)' = MapId(d)
      BY <1>4 DEF vars, arrival, MapId, RendererData
    <2>3. MapRead'
      BY <1>4, <2>1, <2>2 DEF MapInv, MapRead
    <2>4. QED
      BY <1>4, <2>3 DEF MapInv, MapAlwaysResolved
  <1>5. ASSUME NEW c \in Calls, MapStore(c) PROVE MapInv'
    <2>1. CASE /\ MapId(c) = None \/ ReadBefore(MapId(c))
               /\ place' = [place EXCEPT ![c] = "decode"]
               /\ UNCHANGED <<vars, read, store, cause>>
      <3>1. \A d \in Calls : MapId(d)' = MapId(d)
        BY <2>1 DEF vars, arrival, MapId, RendererData
      <3>2. MapRead'
        BY <1>0, <2>1, <3>1 DEF MapInv, MapRead, ReadBefore
      <3>3. QED
        BY <2>1, <3>2 DEF MapInv, MapAlwaysResolved
    <2>2. CASE /\ MapId(c) # None /\ ~ReadBefore(MapId(c))
               /\ read' = Append(read, MapId(c)) /\ store' = Registering(store, MapId(c))
               /\ place' = [place EXCEPT ![c] = "decode"] /\ UNCHANGED <<vars, cause>>
      <3> DEFINE m == MapId(c)
      <3>1. m \in MapIds /\ m \notin Range(read)
        BY <1>0, <1>5, <2>2 DEF MapStore, At, ReadBefore
      <3>2. read' \in Seq(MapIds) /\ IsInjective(read') /\ Range(read') = Range(read) \cup {m}
        BY <2>2, <3>1, ReadOnce DEF MapInv, MapAlwaysResolved
      <3>3. store' \in Seq(MapIds) /\ Len(store') <= MaxMaps
            /\ Range(store') \subseteq Range(store) \cup {m}
        BY <2>2, <3>1, RegisteringKeeps DEF MapInv
      <3>4. \A d \in Calls : MapId(d)' = MapId(d)
        BY <2>2 DEF vars, arrival, MapId, RendererData
      <3>5. MapRead'
        BY <1>0, <2>2, <3>2, <3>4 DEF MapInv, MapRead
      <3>6. QED
        BY <2>2, <3>2, <3>3, <3>5 DEF MapInv, MapAlwaysResolved
    <2>3. CASE Raise(c, "unreadable") /\ UNCHANGED <<read, store>>
      BY <1>3, <2>3 DEF Causes
    <2>4. QED
      BY <1>5, <2>1, <2>2, <2>3 DEF MapStore
  <1>6. ASSUME NEW c \in Calls, Decode(c) PROVE MapInv'
    <2>1. CASE MapId(c) = None /\ place' = [place EXCEPT ![c] = "driving"]
               /\ UNCHANGED <<vars, store, cause>>
      BY <1>4, <1>6, <2>1 DEF Decode, Where, MapInv, MapAlwaysResolved
    <2>2. CASE MapId(c) # None /\ store' = Resolving(MapId(c))
      <3>1. MapId(c) \in Range(read)
        BY <1>6, <2>2 DEF Decode, At, MapInv, MapRead
      <3>2. /\ store' \in Seq(MapIds) /\ Len(store') <= MaxMaps
            /\ Range(store') \subseteq Range(read) /\ MapId(c) \in Range(store')
        BY <2>2, <3>1, ResolvingKeeps
      <3>3. CASE place' = [place EXCEPT ![c] = "driving"] /\ UNCHANGED <<vars, cause>>
        BY <1>4, <1>6, <3>2, <3>3 DEF Decode, Where
      <3>4. CASE Raise(c, "undecodable") /\ UNCHANGED store
        BY <1>3, <1>6, <3>4 DEF Decode, Causes
      <3>5. QED
        BY <1>6, <2>2, <3>2, <3>3, <3>4 DEF Decode
    <2>3. CASE Raise(c, "undecodable") /\ UNCHANGED store
      BY <1>3, <1>6, <2>3 DEF Decode, Causes
    <2>4. QED
      BY <1>6, <2>1, <2>2, <2>3 DEF Decode
  <1>7. ASSUME NEW c \in Calls, T4Policy(c) PROVE MapInv'
    <2>1. CASE OnSessionStart(c) \/ OnSessionClose(c) \/ OtherHook(c)
      BY <1>2, <2>1 DEF OnSessionStart, OnSessionClose, OtherHook, StepOf, PolicyReturns, t4vars
    <2>2. CASE Enter(c) \/ BeginModel(c)
      BY <1>4, <2>2 DEF Enter, BeginModel, Where, MapInv, MapAlwaysResolved
    <2>3. CASE NoScene(c)
      BY <1>3, <2>3 DEF NoScene, Causes
    <2>4. CASE EndModel(c)
      BY <1>3, <1>4, <2>4 DEF EndModel, Where, Causes, MapInv, MapAlwaysResolved
    <2>5. CASE Result(c)
      BY <1>2, <1>3, <2>5 DEF Result, StepOf, PolicyReturns, Causes
    <2>6. QED
      BY <1>5, <1>6, <1>7, <2>1, <2>2, <2>3, <2>4, <2>5 DEF T4Policy
  <1>8. ASSUME NEW c \in Calls, (Arrive(c) \/ Serve(c)) /\ UNCHANGED t4vars PROVE MapInv'
    BY <1>2, <1>8 DEF StepOf, t4vars
  <1>9. QED
    BY <1>1, <1>7, <1>8 DEF T4Next, Idle, allvars, t4vars

\* A drive whose map set was read once never fails for its map, however many maps the
\* store has let go since; and each map set is read once.
THEOREM MapsResolve == T4Spec => []MapAlwaysResolved
  <1>1. MapInv => MapAlwaysResolved
    BY DEF MapInv
  <1>2. QED
    BY <1>1, MapInvInit, MapStep, DriveInvInit, DriveStep, T4Wired, PTL DEF T4Spec

-----------------------------------------------------------------------------
(* A drive works on the state of its own session                           *)

\* A call the servicer or the policy moves, which may start or close a T4 session; a
\* drive still in the model finds its state once more.
T4Moves(c) ==
    /\ StepOf(c)
    /\ state' = state \/ OnSessionStart(c) \/ OnSessionClose(c)
    /\ Is(c, "start_session") /\ HookReturns(c) => OnSessionStart(c)
    /\ \/ used' = used /\ \A d \in Calls : place'[d] = "outside" => place[d] = "outside"
       \/ EndModel(c)

\* A step of a drive in T4SceneDriver.drive that the servicer does not see.
T4Plans(c) ==
    /\ UNCHANGED <<vars, state>>
    /\ \/ used' = used /\ \A d \in Calls : place'[d] = "outside" => place[d] = "outside"
       \/ BeginModel(c) \/ EndModel(c)

LEMMA T4Steps ==
    ASSUME Wiring, Placed, [T4Next]_allvars
    PROVE  UNCHANGED <<vars, state, used, place>> \/ \E c \in Calls : T4Moves(c) \/ T4Plans(c)
  <1>0. place \in [Calls -> Where]
    BY DEF Placed
  <1>1. ASSUME NEW c \in Calls, Arrive(c) \/ Serve(c), UNCHANGED t4vars PROVE T4Moves(c)
    <2>1. ~HookReturns(c)
      BY <1>1 DEF Serve, Arrive, RefuseStart, Register, RejectStart, CloseSession,
         RequireSession, SubmitImage, BeginEgomotion, SkipPose, LandPose, LandState,
         EndEgomotion, SubmitRoute, SubmitGroundTruth, RecordSweep, GetMap, OpenMap, Commit,
         GetVehicleCommand, CallPolicy, HookReturns
    <2>2. QED
      BY <1>1, <2>1 DEF T4Moves, StepOf, t4vars
  <1>2. ASSUME NEW c \in Calls, OnSessionStart(c) \/ OnSessionClose(c) PROVE T4Moves(c)
    BY <1>2 DEF T4Moves, StepOf, PolicyReturns, OnSessionStart, OnSessionClose, Is
  <1>3. ASSUME NEW c \in Calls, OtherHook(c) PROVE T4Moves(c)
    <2>1. Is(c, "start_session") => ~HookReturns(c)
      <3>1. SUFFICES ASSUME Is(c, "start_session"), HookReturns(c) PROVE FALSE
        OBVIOUS
      <3>2. HookRaises(c)
        BY <1>3, <3>1 DEF OtherHook
      <3>3. GoTo(c, "reject") /\ GoTo(c, "done")
        BY <3>1, <3>2 DEF HookRaises, HookReturns, Answer, Is
      <3>4. pc \in [Calls -> Places]
        BY DEF Wiring, TypeOK
      <3>5. QED
        BY <3>3, <3>4 DEF GoTo
    <2>2. QED
      BY <1>3, <2>1 DEF T4Moves, StepOf, PolicyReturns, OtherHook, t4vars
  <1>4. ASSUME NEW c \in Calls, DriveReturns(c) \/ DriveRaises(c), state' = state,
               used' = used, place' = place \/ place' = [place EXCEPT ![c] = "raised"]
        PROVE  T4Moves(c)
    <2>1. ~HookReturns(c)
      BY <1>4 DEF DriveReturns, DriveRaises, HookReturns
    <2>2. \A d \in Calls : place'[d] = "outside" => place[d] = "outside"
      BY <1>0, <1>4
    <2>3. QED
      BY <1>4, <2>1, <2>2 DEF T4Moves, StepOf, PolicyReturns
  <1>5. ASSUME NEW c \in Calls, UNCHANGED <<vars, state, used>>,
               NEW to \in Where \ {"outside"}, place' = [place EXCEPT ![c] = to]
        PROVE  T4Plans(c)
    BY <1>0, <1>5 DEF T4Plans
  <1>6. ASSUME NEW c \in Calls, T4Policy(c) PROVE T4Moves(c) \/ T4Plans(c)
    <2>1. CASE OnSessionStart(c) \/ OnSessionClose(c) \/ OtherHook(c)
      BY <1>2, <1>3, <2>1
    <2>2. CASE Enter(c)
      BY <1>5, <2>2 DEF Enter, Where
    <2>3. CASE NoScene(c)
      BY <1>4, <2>3 DEF NoScene, Raise
    <2>4. CASE MapStore(c)
      BY <1>4, <1>5, <2>4 DEF MapStore, Raise, Where
    <2>5. CASE Decode(c)
      BY <1>4, <1>5, <2>5 DEF Decode, Raise, Where
    <2>6. CASE BeginModel(c)
      BY <2>6 DEF BeginModel, T4Plans
    <2>7. CASE EndModel(c)
      <3>1. CASE UNCHANGED vars
        BY <2>7, <3>1 DEF EndModel, T4Plans
      <3>2. CASE DriveRaises(c)
        BY <2>7, <3>2 DEF EndModel, T4Moves, StepOf, PolicyReturns, DriveRaises, HookReturns
      <3>3. QED
        BY <2>7, <3>1, <3>2 DEF EndModel, Raise
    <2>8. CASE Result(c)
      BY <1>4, <2>8 DEF Result, Raise
    <2>9. QED
      BY <1>6, <2>1, <2>2, <2>3, <2>4, <2>5, <2>6, <2>7, <2>8 DEF T4Policy
  <1>7. QED
    BY <1>1, <1>6 DEF T4Next, Idle, allvars, t4vars

\* The T4 driver has the state of a session that has started, or another session of the
\* uuid was started or closed beside it.
Rightful(s) == state[req[s].uuid] = s \/ TakenByClose(s) \/ Beside(s)

Started(s) ==
    /\ Is(s, "start_session") /\ obj[s] = s
    /\ pc[s] = "done" /\ reply[s].status = "OK"

StatesOwn == \A s \in Calls : Started(s) => Rightful(s)

\* What excuses a foreign state does not pass.
LEMMA BesideStands ==
    ASSUME Wiring, Past, NEW c \in Calls, StepOf(c), NEW s \in Calls, pc[s] # "unborn",
           obj[s] # None
    PROVE  /\ TakenByClose(s) => TakenByClose(s)'
           /\ Beside(s) => Beside(s)'
           /\ req'[s] = req[s] /\ before'[s] = before[s]
  <1>1. req'[s] = req[s]
    BY ObjectKept
  <1>2. before'[s] = before[s]
    <2>1. CASE Arrive(c)
      <3>1. s # c
        BY <2>1 DEF Arrive
      <3>2. QED
        BY <2>1, <3>1 DEF Arrive, Wiring, TypeOK
    <2>2. CASE ~Arrive(c)
      BY <2>2, BeforeStands
    <2>3. QED
      BY <2>1, <2>2
  <1>3. Beside(s) => Beside(s)'
    <2>1. SUFFICES ASSUME NEW k \in Calls \ before[s],
                          Is(k, "start_session") \/ Is(k, "close_session"),
                          req[k].uuid = req[s].uuid, obj[k] \notin {s, None}
                   PROVE  Beside(s)'
      BY DEF Beside
    <2>2. obj'[k] = obj[k] /\ req'[k] = req[k]
      BY <2>1, ObjectKept
    <2>3. QED
      BY <1>1, <1>2, <2>1, <2>2 DEF Beside, Is
  <1>4. QED
    BY <1>1, <1>2, <1>3, ExcuseStands

LEMMA StatesOwnStep ==
    Wiring /\ Wiring' /\ Placed /\ StatesByUuid /\ Past /\ StatesOwn /\ [T4Next]_allvars
    => StatesOwn'
  <1> SUFFICES ASSUME Wiring, Wiring', Placed, StatesByUuid, Past, StatesOwn, [T4Next]_allvars
               PROVE  StatesOwn'
    OBVIOUS
  <1>1. CASE UNCHANGED <<vars, state>>
    BY <1>1 DEF vars, arrival, locals, StatesOwn, Started, Rightful, TakenByClose, Beside, Is
  <1>2. ASSUME NEW c \in Calls, T4Moves(c), NEW s \in Calls, Started(s)'
        PROVE  Rightful(s)'
    <2>0. StepOf(c) /\ s # None
      BY <1>2, ServicerAssumption DEF T4Moves
    <2>1. CASE s = c
      <3>1. HookReturns(c)
        BY <1>2, <2>0, <2>1, HookEnds DEF Started
      <3>2. pc[c] = "policy" /\ req' = req /\ obj' = obj
        BY <3>1 DEF HookReturns, arrival, locals
      <3>3. Is(c, "start_session") /\ obj[c] = c
        BY <1>2, <2>1, <3>2 DEF Started, Is
      <3>4. state' = Begin(c)
        BY <1>2, <3>1, <3>3 DEF T4Moves, OnSessionStart
      <3>5. req[c].uuid \in Uuids
        BY <3>2, Serving
      <3>6. state'[req'[s].uuid] = s
        BY <2>1, <3>2, <3>3, <3>4, <3>5 DEF Begin, StatesByUuid
      <3>7. QED
        BY <3>6 DEF Rightful
    <2>2. CASE s # c
      <3>1. Started(s) /\ pc[s] # "unborn" /\ obj[s] # None
        BY <1>2, <2>0, <2>2, Others DEF Started, Is, Wiring, OthersStand
      <3>2. /\ TakenByClose(s) => TakenByClose(s)'
            /\ Beside(s) => Beside(s)'
            /\ req'[s] = req[s] /\ before'[s] = before[s]
        BY <2>0, <3>1, BesideStands
      <3>3. Rightful(s)
        BY <3>1 DEF StatesOwn
      <3>4. CASE state'[req[s].uuid] = state[req[s].uuid]
        BY <3>2, <3>3, <3>4 DEF Rightful
      <3>5. CASE state'[req[s].uuid] # state[req[s].uuid]
        <4>1. OnSessionStart(c) \/ OnSessionClose(c)
          BY <1>2, <3>5 DEF T4Moves
        <4>2. /\ pc[c] = "policy" /\ req' = req /\ obj' = obj
              /\ Is(c, "start_session") \/ Is(c, "close_session")
          BY <4>1 DEF OnSessionStart, OnSessionClose, HookReturns, arrival, locals
        <4>3. req[c].uuid = req[s].uuid
          <5>1. req[s].uuid \in Uuids
            BY <3>1, Serving
          <5>2. QED
            BY <3>5, <4>1, <5>1 DEF OnSessionStart, OnSessionClose, Begin, End, StatesByUuid
        <4>4. obj[c] # None
          BY <4>2, ObjectType, ServicerAssumption DEF Busy
        <4>5. c \notin before[s]
          BY <4>2 DEF Past
        <4>6. CASE obj[c] = s
          <5>1. ~Is(c, "start_session")
            BY <2>2, <4>4, <4>6 DEF Wiring, ObjectWiring
          <5>2. TakenByClose(s)
            BY <4>2, <4>6, <5>1 DEF TakenByClose
          <5>3. QED
            BY <3>2, <5>2 DEF Rightful
        <4>7. CASE obj[c] # s
          <5>1. Beside(s)
            BY <4>2, <4>3, <4>4, <4>5, <4>7 DEF Beside
          <5>2. QED
            BY <3>2, <5>1 DEF Rightful
        <4>8. QED
          BY <4>6, <4>7
      <3>6. QED
        BY <3>4, <3>5
    <2>3. QED
      BY <2>1, <2>2
  <1>3. QED
    BY <1>1, <1>2, T4Steps DEF StatesOwn, T4Plans

\* Only a drive in the model has used a state.
Unused == /\ used \in [Calls -> SUBSET (Calls \cup {None})]
          /\ \A c \in Calls : place[c] = "outside" => used[c] = {}

LEMMA UnusedStep == Wiring /\ Placed /\ StatesByUuid /\ Unused /\ [T4Next]_allvars => Unused'
  <1> SUFFICES ASSUME Wiring, Placed, StatesByUuid, Unused, [T4Next]_allvars PROVE Unused'
    OBVIOUS
  <1>1. ASSUME used' = used, \A d \in Calls : place'[d] = "outside" => place[d] = "outside"
        PROVE  Unused'
    BY <1>1 DEF Unused
  <1>2. ASSUME NEW c \in Calls, BeginModel(c) \/ EndModel(c) PROVE Unused'
    <2>1. pc[c] = "planning"
      BY <1>2 DEF BeginModel, EndModel, At
    <2>2. state[req[c].uuid] \in Calls \cup {None}
      BY <2>1, Serving DEF StatesByUuid
    <2>3. used' \in [Calls -> SUBSET (Calls \cup {None})] /\ \A d \in Calls \ {c} : used'[d] = used[d]
      BY <1>2, <2>2 DEF BeginModel, EndModel, Unused
    <2>4. place'[c] # "outside" /\ \A d \in Calls \ {c} : place'[d] = place[d]
      BY <1>2 DEF BeginModel, EndModel, Raise, Placed
    <2>5. QED
      BY <2>3, <2>4 DEF Unused
  <1>3. QED
    BY <1>1, <1>2, T4Steps DEF T4Moves, T4Plans

\* What a drive finds under its uuid, in the model, is the state of its session.
LEMMA StateFound ==
    ASSUME Wiring, OwnUuid, StartAnswered, EndedStaysEnded, Past, StatesOwn,
           NEW c \in Calls, obj[c] \in before[c], pc[c] = "planning"
    PROVE  LET s == obj[c] IN
           state[req[c].uuid] = s \/ TakenByClose(s) \/ Beside(s)
  <1> DEFINE s == obj[c]
  <1>1. s \in Calls /\ s # None /\ pc[s] = "done"
    BY ObjectType, ServicerAssumption DEF Busy, Past
  <1>2. obj[s] = s /\ Is(s, "start_session") /\ req[s].uuid = req[c].uuid
    BY <1>1 DEF Wiring, ObjectWiring, OwnUuid
  <1>3. reply[s].status # "FAILED_PRECONDITION"
    BY <1>1, <1>2 DEF EndedStaysEnded
  <1>4. reply[s].status = "OK"
    BY <1>1, <1>2, <1>3 DEF StartAnswered
  <1>5. Rightful(s)
    BY <1>1, <1>2, <1>4 DEF StatesOwn, Started
  <1>6. QED
    BY <1>2, <1>5 DEF Rightful

\* What the T4 driver relies on of the servicer.
Served == Wiring /\ OwnUuid /\ StartAnswered /\ EndedStaysEnded

LEMMA OwnStateStep ==
    Served /\ Placed /\ Past /\ StatesOwn /\ Unused /\ OwnT4State /\ [T4Next]_allvars
    => OwnT4State'
  <1> SUFFICES ASSUME Served, Placed, Past, StatesOwn, Unused, OwnT4State, [T4Next]_allvars
               PROVE  OwnT4State'
    OBVIOUS
  <1> USE DEF Served
  <1>1. CASE UNCHANGED <<vars, used>>
    BY <1>1 DEF vars, arrival, locals, OwnT4State, TakenByClose, Beside, Is
  <1>2. ASSUME NEW c \in Calls, BeginModel(c) \/ EndModel(c)
        PROVE  /\ \A d \in Calls \ {c} : used'[d] = used[d]
               /\ used'[c] \subseteq used[c] \cup {state[req[c].uuid]}
               /\ pc[c] = "planning"
    BY <1>2 DEF BeginModel, EndModel, At, Unused
  <1>3. ASSUME NEW c \in Calls, T4Plans(c) PROVE OwnT4State'
    <2>1. UNCHANGED vars
      BY <1>3 DEF T4Plans
    <2>2. CASE used' = used
      BY <1>1, <2>1, <2>2
    <2>3. CASE BeginModel(c) \/ EndModel(c)
      <3> SUFFICES ASSUME NEW d \in Calls, Is(d, "drive"), obj[d] # None, obj[d] \in before[d]
                   PROVE  used'[d] \subseteq {obj[d]} \/ TakenByClose(obj[d]) \/ Beside(obj[d])
        BY <2>1 DEF vars, arrival, locals, OwnT4State, TakenByClose, Beside, Is
      <3>1. used[d] \subseteq {obj[d]} \/ TakenByClose(obj[d]) \/ Beside(obj[d])
        BY DEF OwnT4State
      <3>2. CASE d # c
        BY <1>2, <2>3, <3>1, <3>2
      <3>3. CASE d = c
        BY <1>2, <2>3, <3>1, <3>3, StateFound
      <3>4. QED
        BY <3>2, <3>3
    <2>4. QED
      BY <1>3, <2>2, <2>3 DEF T4Plans
  <1>4. ASSUME NEW c \in Calls, T4Moves(c), NEW d \in Calls, Is(d, "drive")',
               NEW s \in before'[d], obj'[d] = s, s # None, ~(used'[d] \subseteq {s})
        PROVE  TakenByClose(s)' \/ Beside(s)'
    <2>0. StepOf(c)
      BY <1>4 DEF T4Moves
    <2>1. place[d] # "outside"
      <3>1. CASE used' = used
        BY <1>4, <3>1 DEF Unused
      <3>2. CASE EndModel(c)
        <4>1. \A e \in Calls \ {c} : used'[e] = used[e]
          BY <1>2, <3>2
        <4>2. place[c] = "model"
          BY <3>2 DEF EndModel, At
        <4>3. QED
          BY <1>4, <4>1, <4>2 DEF Unused
      <3>3. QED
        BY <1>4, <3>1, <3>2 DEF T4Moves
    <2>2. pc[d] \in {"planning", "commit", "done"}
      BY <2>1 DEF Placed
    <2>3. obj[d] = s /\ req'[d] = req[d]
      <3>1. CASE d # c
        BY <1>4, <2>0, <3>1, Others DEF Wiring, OthersStand
      <3>2. CASE d = c
        <4>1. obj[d] \in Calls
          BY <2>0, <2>2, <3>2, DoneStands, ObjectType DEF Busy
        <4>2. QED
          BY <1>4, <2>0, <4>1, ObjectKept, ServicerAssumption
      <3>3. QED
        BY <3>1, <3>2
    <2>4. s \in before[d]
      <3>1. ~Arrive(d)
        BY <2>2 DEF Arrive
      <3>2. QED
        BY <1>4, <2>0, <3>1, BeforeWas
    <2>5. s \in Calls /\ pc[s] # "unborn" /\ obj[s] # None
      <3>1. s \in Calls
        BY <1>4, <2>3 DEF Wiring, TypeOK
      <3>2. obj[s] = s
        BY <1>4, <2>3 DEF Wiring, ObjectWiring
      <3>3. QED
        BY <1>4, <2>4, <3>1, <3>2 DEF Past
    <2>6. TakenByClose(s) \/ Beside(s)
      <3>1. used[d] \subseteq {s} \/ TakenByClose(s) \/ Beside(s)
        <4>1. Is(d, "drive")
          BY <1>4, <2>3 DEF Is
        <4>2. QED
          BY <1>4, <2>3, <2>4, <4>1 DEF OwnT4State
      <3>2. CASE used'[d] = used[d]
        BY <1>4, <3>1, <3>2
      <3>3. CASE used'[d] # used[d]
        <4>1. EndModel(c)
          BY <1>4, <3>3 DEF T4Moves
        <4>2. d = c
          BY <1>2, <3>3, <4>1
        <4>3. state[req[d].uuid] = s \/ TakenByClose(s) \/ Beside(s)
          BY <1>2, <2>3, <2>4, <4>1, <4>2, StateFound
        <4>4. QED
          BY <1>2, <1>4, <3>1, <4>1, <4>2, <4>3
      <3>4. QED
        BY <3>2, <3>3
    <2>7. QED
      BY <2>0, <2>5, <2>6, BesideStands
  <1>5. ASSUME NEW c \in Calls, T4Moves(c) PROVE OwnT4State'
    BY <1>4, <1>5 DEF OwnT4State, TakenByClose, Beside
  <1>6. QED
    BY <1>1, <1>3, <1>5, T4Steps

\* A drive asked for after its session had started works on the T4 state made for that
\* session, from its first to its last moment, unless the session is closed, or another
\* of its uuid is started or closed beside it.
THEOREM DrivesOnOwnState == T4Spec => []OwnT4State
  <1>1. T4Init => StatesOwn /\ Unused /\ OwnT4State
    BY DEF T4Init, Init, StatesOwn, Started, Unused, OwnT4State, Is
  <1>2. CloseInv => StatesByUuid /\ Past
    BY DEF CloseInv
  <1>3. DriveInv => Placed
    BY DEF DriveInv
  <1>4. T4Spec => []Served
    BY T4IsAPolicy, WiringHolds, OwnUuidHolds, StartAnsweredHolds, EndedIsFinal, PTL DEF Served
  <1>5. T4Spec => [](CloseInv /\ DriveInv)
    BY CloseInvInit, CloseStep, DriveInvInit, DriveStep, T4Wired, PTL DEF T4Spec
  <1>6. QED
    BY <1>1, <1>2, <1>3, <1>4, <1>5, T4Wired, StatesOwnStep, UnusedStep, OwnStateStep, PTL
    DEF T4Spec
=============================================================================
