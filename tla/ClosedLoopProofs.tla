-------------------------- MODULE ClosedLoopProofs --------------------------
(***************************************************************************)
(* Theorems about ClosedLoop, for any number of loops, steps and worker    *)
(* threads: the server under it is EgodriverServicer, so that the          *)
(* servicer's theorems hold of it, and the order a loop makes its calls in *)
(* gives more than the server promises by itself.                          *)
(***************************************************************************)
EXTENDS ClosedLoop, EgodriverServicerProofs

-----------------------------------------------------------------------------
(* The calls of a loop                                                     *)

LEMMA Counts == CloseAt \in Nat /\ CloseAt > 5 /\ EndAt \in Nat /\ EndAt = CloseAt + 1
  BY LoopAssumption DEF CloseAt, EndAt, PerStep

\* A call is a loop's by its place in it.
LEMMA LoopCall ==
    ASSUME NEW c \in Calls
    PROVE  \E l \in Loops, i \in 0..CloseAt : c = <<l, i>>
  BY LoopAssumption DEF LoopCalls

LEMMA CallOfLoop ==
    ASSUME NEW l \in Loops, NEW i \in 0..CloseAt
    PROVE  <<l, i>> \in Calls /\ l \in Uuids
  BY LoopAssumption DEF LoopCalls

\* The place of a call in its step, and the step, give the call.
LEMMA Division ==
    ASSUME NEW i \in Nat
    PROVE  /\ LoopStep(i) \in Int /\ PlaceOf(i) \in 0..4
           /\ i = PerStep * LoopStep(i) + PlaceOf(i) + 1
  BY DEF LoopStep, PlaceOf, PerStep

\* What the loop asks with its i-th call.
Asks(l, i) ==
    LET r == CallRequest(l, i) IN
    /\ r.uuid = l
    /\ r.rpc = "start_session" <=> i = 0
    /\ r.rpc = "close_session" <=> i = CloseAt
    /\ r.rpc = "start_session" => r.supported
    /\ r.rpc = "submit_image" =>
          PlaceOf(i) = 2 /\ r.frame = [sensor |-> Camera, time |-> LoopStep(i)]
    /\ r.rpc = "drive" <=> i \notin {0, CloseAt} /\ PlaceOf(i) = 3
    /\ r.rpc = "drive" => r.now = LoopStep(i) /\ r.payload = None
    /\ r.rpc = "get_vehicle_command" => i > 0 /\ PlaceOf(i) = 4
    /\ r.rpc \in {"start_session", "close_session", "submit_egomotion",
                  "submit_route", "submit_image", "drive", "get_vehicle_command"}

LEMMA Asking ==
    ASSUME NEW l \in Loops, NEW i \in 0..CloseAt
    PROVE  Asks(l, i)
  <1>0. CloseAt \in Nat /\ CloseAt > 5
    BY Counts
  <1>1. CASE i = 0
    <2>1. CallRequest(l, i) = [rpc |-> "start_session", uuid |-> l, supported |-> TRUE,
                               cameras |-> {Camera}]
      BY <1>0, <1>1 DEF CallRequest
    <2>2. QED
      BY <1>0, <1>1, <2>1 DEF Asks
  <1>2. CASE i = CloseAt
    <2>1. CallRequest(l, i) = [rpc |-> "close_session", uuid |-> l]
      BY <1>0, <1>2 DEF CallRequest
    <2>2. QED
      BY <1>0, <1>2, <2>1 DEF Asks
  <1>3. CASE i # 0 /\ i # CloseAt
    <2>0. PlaceOf(i) \in 0..4
      BY Division
    <2>1. CASE PlaceOf(i) = 0
      <3>1. CallRequest(l, i) = [rpc |-> "submit_egomotion", uuid |-> l,
                                 poses |-> <<LoopStep(i)>>, states |-> "paired"]
        BY <1>3, <2>1 DEF CallRequest
      <3>2. QED
        BY <1>3, <2>1, <3>1 DEF Asks
    <2>2. CASE PlaceOf(i) = 1
      <3>1. CallRequest(l, i) = [rpc |-> "submit_route", uuid |-> l, time |-> LoopStep(i)]
        BY <1>3, <2>2 DEF CallRequest
      <3>2. QED
        BY <1>3, <2>2, <3>1 DEF Asks
    <2>3. CASE PlaceOf(i) = 2
      <3>1. CallRequest(l, i) = [rpc |-> "submit_image", uuid |-> l,
                                 frame |-> [sensor |-> Camera, time |-> LoopStep(i)]]
        BY <1>3, <2>3 DEF CallRequest
      <3>2. QED
        BY <1>3, <2>3, <3>1 DEF Asks
    <2>4. CASE PlaceOf(i) = 3
      <3>1. CallRequest(l, i) = [rpc |-> "drive", uuid |-> l, now |-> LoopStep(i),
                                 payload |-> None]
        BY <1>3, <2>4 DEF CallRequest
      <3>2. QED
        BY <1>3, <2>4, <3>1 DEF Asks
    <2>5. CASE PlaceOf(i) = 4
      <3>1. CallRequest(l, i) = [rpc |-> "get_vehicle_command", uuid |-> l]
        BY <1>3, <2>5 DEF CallRequest
      <3>2. QED
        BY <1>3, <2>5, <3>1 DEF Asks
    <2>6. QED
      BY <2>0, <2>1, <2>2, <2>3, <2>4, <2>5
  <1>4. QED
    BY <1>1, <1>2, <1>3

LEMMA AskingDrive ==
    ASSUME NEW l \in Loops, NEW i \in 0..CloseAt
    PROVE  /\ CallRequest(l, i).rpc = "drive" <=> i \notin {0, CloseAt} /\ PlaceOf(i) = 3
           /\ CallRequest(l, i).rpc = "drive" => CallRequest(l, i).now = LoopStep(i)
  <1>1. Asks(l, i)
    BY Asking
  <1>2. QED
    BY <1>1 DEF Asks

LEMMA AskingCommand ==
    ASSUME NEW l \in Loops, NEW i \in 0..CloseAt, CallRequest(l, i).rpc = "get_vehicle_command"
    PROVE  PlaceOf(i) = 4
  <1>1. Asks(l, i)
    BY Asking
  <1>2. QED
    BY <1>1 DEF Asks

-----------------------------------------------------------------------------
(* The server under the loops                                              *)

AtOK == at \in [Loops -> 0..EndAt]

\* A loop gets on: it reads an answer, or gives a call up.
GetsOn(l) == Receive(l) \/ TimeOut(l)

\* The loop's next call arrives, or the server works on one.
ServerSteps(c) ==
    /\ StepOf(c) /\ UNCHANGED <<at, late>>
    /\ Arrive(c) => \E l \in Loops : Send(l) /\ c = Current(l)

LEMMA LoopSteps ==
    ASSUME AtOK, [LoopNext]_loopVars
    PROVE  \/ \E c \in Calls : ServerSteps(c)
           \/ \E l \in Loops : GetsOn(l)
           \/ UNCHANGED loopVars
  <1>1. ASSUME NEW l \in Loops, Send(l) PROVE \E c \in Calls : ServerSteps(c)
    <2>1. at[l] \in 0..CloseAt
      BY <1>1, Counts DEF AtOK, Send
    <2>2. Current(l) \in Calls
      BY <2>1, CallOfLoop DEF Current
    <2>3. ServerSteps(Current(l))
      BY <1>1 DEF Send, ServerSteps, StepOf
    <2>4. QED
      BY <2>2, <2>3
  <1>2. ASSUME NEW c \in Calls, Server(c) PROVE ServerSteps(c)
    <2>1. pc[c] # "unborn"
      BY <1>2 DEF Server, Serve, PolicyReturns, RefuseStart, Register, RejectStart,
         CloseSession, RequireSession, SubmitImage, BeginEgomotion, SkipPose, LandPose,
         LandState, EndEgomotion, SubmitRoute, SubmitGroundTruth, RecordSweep, GetMap,
         OpenMap, Commit, GetVehicleCommand, CallPolicy, PolicyLocks, PolicyUnlocks,
         HookReturns, HookRaises, DriveReturns, DriveRaises, InPolicy
    <2>2. QED
      BY <1>2, <2>1 DEF Server, ServerSteps, StepOf, Arrive
  <1>3. QED
    BY <1>1, <1>2 DEF LoopNext, GetsOn, Finished

LEMMA AtInit == LoopInit => AtOK
  BY Counts DEF LoopInit, AtOK

LEMMA AtStep == AtOK /\ [LoopNext]_loopVars => AtOK'
  <1> SUFFICES ASSUME AtOK, [LoopNext]_loopVars PROVE AtOK'
    OBVIOUS
  <1>1. ASSUME NEW l \in Loops, GetsOn(l) PROVE AtOK'
    BY <1>1, Counts DEF GetsOn, Receive, TimeOut, MayTimeOut, AfterFailure, AtOK
  <1>2. QED
    BY <1>1, LoopSteps DEF ServerSteps, loopVars, AtOK

LEMMA LoopStepIsStep == AtOK /\ [LoopNext]_loopVars => [Next]_vars
  BY LoopSteps DEF ServerSteps, StepOf, Next, GetsOn, Receive, TimeOut, loopVars

\* Closed loops are clients like any others: what EgodriverServicer promises whoever
\* calls it, it promises them.
THEOREM LoopsAreClients == LoopSpec => Spec
  <1>1. LoopInit => Init
    BY DEF LoopInit
  <1>2. QED
    BY <1>1, AtInit, AtStep, LoopStepIsStep, PTL DEF LoopSpec, Spec

-----------------------------------------------------------------------------
(* One call after the other                                                *)

Succeeded(c) == pc[c] = "done" /\ reply[c].status = "OK"

\* The i-th call of loop l is made when those before it have succeeded -- its
\* close_session, when its start_session has -- and runs while the loop waits for it,
\* or when it may outlast its timeout.
Made(l, i) ==
    LET c == <<l, i>> IN
    /\ pc[c] # "unborn" => req[c] = CallRequest(l, i) /\ i <= at[l]
    /\ pc[c] \notin {"unborn", "done"} =>
          at[l] = i \/ CallRequest(l, i).rpc \in Overruns
    /\ pc[c] # "unborn" \/ at[l] = i =>
          \A j \in 0..(i - 1) : i # CloseAt \/ j = 0 => Succeeded(<<l, j>>)

InTurn == AtOK /\ \A l \in Loops, i \in 0..CloseAt : Made(l, i)

\* A call that has arrived.
LEMMA Asked ==
    ASSUME Wiring, InTurn, NEW l \in Loops, NEW i \in 0..CloseAt, pc[<<l, i>>] # "unborn"
    PROVE  req[<<l, i>>] = CallRequest(l, i) /\ req[<<l, i>>] # None
  BY CallOfLoop, Serving DEF InTurn, Made

\* Where a loop gets to: the next call, its close_session or its end.
LEMMA Onward ==
    ASSUME Wiring, InTurn, NEW l \in Loops, GetsOn(l)
    PROVE  /\ UNCHANGED vars
           /\ at[l] \in 0..CloseAt /\ at'[l] \in 1..EndAt /\ at[l] < at'[l]
           /\ \A m \in Loops \ {l} : at'[m] = at[m]
           /\ \/ at'[l] = at[l] + 1 /\ Succeeded(Current(l))
              \/ at'[l] = CloseAt /\ at[l] # 0
              \/ /\ at'[l] = EndAt
                 /\ at[l] = CloseAt \/ (at[l] = 0 /\ ~Succeeded(Current(l)))
           /\ pc[Current(l)] = "done" \/ CallRequest(l, at[l]).rpc \in Overruns
  <1>0. CloseAt \in Nat /\ CloseAt > 5 /\ EndAt = CloseAt + 1
    BY Counts
  <1>1. at[l] \in 0..CloseAt /\ UNCHANGED vars
    BY <1>0 DEF InTurn, AtOK, GetsOn, Receive, TimeOut, MayTimeOut
  <1>2. CASE at' = [at EXCEPT ![l] = AfterFailure(@)] /\ ~Succeeded(Current(l))
    <2>1. at'[l] = AfterFailure(at[l]) /\ \A m \in Loops \ {l} : at'[m] = at[m]
      BY <1>2 DEF InTurn, AtOK
    <2>2. \/ at'[l] = EndAt /\ at[l] \in {0, CloseAt}
          \/ at'[l] = CloseAt /\ at[l] \notin {0, CloseAt}
      BY <2>1 DEF AfterFailure
    <2>3. QED
      BY <1>0, <1>1, <1>2, <2>1, <2>2 DEF GetsOn, Receive, TimeOut, MayTimeOut
  <1>3. CASE at' = [at EXCEPT ![l] = @ + 1] /\ Succeeded(Current(l))
    BY <1>0, <1>1, <1>3 DEF InTurn, AtOK, Succeeded
  <1>4. CASE /\ at' = [at EXCEPT ![l] = CloseAt] /\ Is(Current(l), "get_vehicle_command")
             /\ pc[Current(l)] = "done"
    <2>1. CallRequest(l, at[l]).rpc = "get_vehicle_command"
      BY <1>1, <1>4 DEF InTurn, Made, Current, Is
    <2>2. /\ CallRequest(l, at[l]).rpc = "start_session" <=> at[l] = 0
          /\ CallRequest(l, at[l]).rpc = "close_session" <=> at[l] = CloseAt
      <3> DEFINE p == at[l]
      <3>1. p \in 0..CloseAt
        BY <1>1
      <3> HIDE DEF p
      <3>2. /\ CallRequest(l, p).rpc = "start_session" <=> p = 0
            /\ CallRequest(l, p).rpc = "close_session" <=> p = CloseAt
        BY <3>1, Asking DEF Asks
      <3>3. QED
        BY <3>2 DEF p
    <2>3. QED
      BY <1>0, <1>1, <1>4, <2>1, <2>2 DEF InTurn, AtOK
  <1>5. QED
    BY <1>2, <1>3, <1>4 DEF GetsOn, Receive, TimeOut, MayTimeOut, Succeeded

\* A call that has succeeded stays what it is.
LEMMA SuccessStands ==
    ASSUME Wiring, NEW c \in Calls, StepOf(c), NEW k \in Calls, Succeeded(k)
    PROVE  Succeeded(k)' /\ k # c
  BY Others, DoneStands DEF Wiring, OthersStand, Succeeded

LEMMA InTurnInit == LoopInit => InTurn
  BY Counts, CallOfLoop, AtInit DEF LoopInit, Init, InTurn, Made

LEMMA InTurnStep == Wiring /\ InTurn /\ [LoopNext]_loopVars => InTurn'
  <1> SUFFICES ASSUME Wiring, InTurn, [LoopNext]_loopVars PROVE InTurn'
    OBVIOUS
  <1>0. CloseAt \in Nat /\ CloseAt > 5 /\ EndAt = CloseAt + 1
    BY Counts
  <1>1. AtOK'
    BY AtStep DEF InTurn
  <1>2. CASE UNCHANGED loopVars
    BY <1>2 DEF loopVars, vars, arrival, InTurn, AtOK, Made, Succeeded
  <1>3. ASSUME NEW c \in Calls, ServerSteps(c), NEW l \in Loops, NEW i \in 0..CloseAt
        PROVE  Made(l, i)'
    <2> DEFINE k == <<l, i>>
    <2>1. k \in Calls /\ \A j \in 0..(i - 1) : <<l, j>> \in Calls
      BY <1>0, CallOfLoop
    <2>2. \A j \in 0..(i - 1) : Succeeded(<<l, j>>) => Succeeded(<<l, j>>)'
      BY <1>3, <2>1, SuccessStands DEF ServerSteps
    <2>3. at' = at
      BY <1>3 DEF ServerSteps
    <2>4. CASE k # c
      <3>1. pc'[k] = pc[k] /\ req'[k] = req[k]
        BY <1>3, <2>1, <2>4, Others DEF ServerSteps, OthersStand, Wiring
      <3>2. QED
        BY <2>2, <2>3, <3>1 DEF InTurn, Made
    <2>5. CASE k = c /\ Arrive(c)
      <3>1. PICK m \in Loops : Send(m) /\ c = Current(m)
        BY <1>3, <2>5 DEF ServerSteps
      <3>2. m = l /\ at[l] = i
        BY <2>5, <3>1 DEF Current
      <3>3. req'[k] = CallRequest(l, i)
        BY <2>5, <3>1, <3>2 DEF Send
      <3>4. QED
        BY <2>2, <2>3, <3>2, <3>3 DEF InTurn, Made
    <2>6. CASE k = c /\ ~Arrive(c)
      <3>1. pc[k] \notin {"unborn", "done"} /\ req' = req
        BY <1>3, <2>6, RequestStands, DoneStands DEF ServerSteps
      <3>2. QED
        BY <2>2, <2>3, <3>1 DEF InTurn, Made
    <2>7. QED
      BY <2>4, <2>5, <2>6
  <1>4. ASSUME NEW m \in Loops, GetsOn(m), NEW l \in Loops, NEW i \in 0..CloseAt
        PROVE  Made(l, i)'
    <2> DEFINE p == at[m]
    <2>1. UNCHANGED vars
      BY <1>4, Onward
    <2>2. CASE l # m
      <3>1. at'[l] = at[l]
        BY <1>4, <2>2, Onward
      <3>2. QED
        BY <2>1, <3>1 DEF vars, arrival, InTurn, Made, Succeeded
    <2>3. CASE l = m
      <3>1. /\ p \in 0..CloseAt /\ at'[l] \in 1..EndAt /\ p < at'[l]
            /\ \/ at'[l] = p + 1 /\ Succeeded(<<l, p>>)
               \/ at'[l] = CloseAt /\ p # 0
               \/ at'[l] = EndAt /\ p \in {0, CloseAt}
            /\ pc[<<l, p>>] = "done" \/ CallRequest(l, p).rpc \in Overruns
        BY <1>4, <2>3, Onward DEF Current
      <3>2. at[l] = p
        BY <2>3
      <3>3. Made(l, i) /\ Made(l, p)
        BY <3>1 DEF InTurn
      <3>4. pc[<<l, i>>] # "unborn" => req[<<l, i>>] = CallRequest(l, i) /\ i <= at'[l]
        BY <1>0, <3>1, <3>2, <3>3 DEF Made
      <3>5. pc[<<l, i>>] \notin {"unborn", "done"} => CallRequest(l, i).rpc \in Overruns
        BY <3>1, <3>2, <3>3 DEF Made
      <3>6. ASSUME at'[l] = i, NEW j \in 0..(i - 1), i # CloseAt \/ j = 0
            PROVE  Succeeded(<<l, j>>)
        <4>1. CASE i = p + 1 /\ Succeeded(<<l, p>>)
          <5>1. p # CloseAt
            BY <1>0, <4>1
          <5>2. j \in 0..(p - 1) \/ j = p
            BY <3>1, <4>1
          <5>3. \A h \in 0..(p - 1) : Succeeded(<<l, h>>)
            BY <3>2, <3>3, <5>1 DEF Made
          <5>4. QED
            BY <4>1, <5>2, <5>3
        <4>2. CASE i = CloseAt /\ p # 0
          <5>1. j = 0 /\ 0 \in 0..(p - 1)
            BY <3>1, <3>6, <4>2
          <5>2. QED
            BY <3>2, <3>3, <5>1 DEF Made
        <4>3. QED
          BY <1>0, <3>1, <3>6, <4>1, <4>2
      <3>7. QED
        BY <2>1, <3>3, <3>4, <3>5, <3>6 DEF vars, arrival, Made, Succeeded
    <2>4. QED
      BY <2>2, <2>3
  <1>5. QED
    BY <1>1, <1>2, <1>3, <1>4, LoopSteps DEF InTurn

LEMMA LoopsInTurn == LoopSpec => [](Wiring /\ InTurn)
  BY LoopsAreClients, WiringHolds, InTurnInit, InTurnStep, PTL DEF LoopSpec

-----------------------------------------------------------------------------
(* Whose session a loop's calls work on                                    *)

\* What a step does to a close_session that has arrived.
CloseMoves(c) ==
    \/ /\ pc[c] = "arrived" /\ sessions' = WithoutSession(req[c].uuid)
       /\ \/ pc'[c] = "done" /\ obj' = obj
          \/ pc'[c] = "announce" /\ obj'[c] = sessions[req[c].uuid]
    \/ /\ pc[c] = "announce" /\ pc'[c] = "policy" /\ obj' = obj
    \/ /\ UNCHANGED <<pc, obj>> /\ pc[c] # "arrived"
    \/ /\ pc[c] = "policy" /\ pc'[c] = "done" /\ obj' = obj

LEMMA CloseSteps ==
    ASSUME Wiring, NEW c \in Calls, StepOf(c), ~Arrive(c), Is(c, "close_session")
    PROVE  CloseMoves(c)
  <1> USE DEF Wiring, TypeOK, GoTo, Answer, locals, Is, CloseMoves
  <1>1. CASE CloseSession(c)
    BY <1>1 DEF CloseSession
  <1>2. CASE CallPolicy(c)
    BY <1>2 DEF CallPolicy, CallWiring, CallOK
  <1>3. CASE PolicyLocks(c) \/ PolicyUnlocks(c)
    BY <1>3 DEF PolicyLocks, PolicyUnlocks, InPolicy
  <1>4. CASE HookReturns(c) \/ HookRaises(c)
    BY <1>4 DEF HookReturns, HookRaises
  <1>5. ~RefuseStart(c) /\ ~Register(c) /\ ~RejectStart(c) /\ ~RequireSession(c)
        /\ ~SubmitImage(c) /\ ~BeginEgomotion(c) /\ ~SkipPose(c) /\ ~LandPose(c)
        /\ ~LandState(c) /\ ~EndEgomotion(c)
    BY DEF RefuseStart, Register, RejectStart, RequireSession, SubmitImage, BeginEgomotion,
       SkipPose, LandPose, LandState, EndEgomotion, CallWiring, CallOK
  <1>6. ~SubmitRoute(c) /\ ~SubmitGroundTruth(c) /\ ~RecordSweep(c) /\ ~GetMap(c)
        /\ ~OpenMap(c) /\ ~Commit(c) /\ ~GetVehicleCommand(c) /\ ~DriveReturns(c)
        /\ ~DriveRaises(c)
    BY DEF SubmitRoute, SubmitGroundTruth, RecordSweep, GetMap, OpenMap, Commit,
       GetVehicleCommand, DriveReturns, DriveRaises, CallWiring, CallOK
  <1>7. QED
    BY <1>1, <1>2, <1>3, <1>4, <1>5, <1>6 DEF StepOf, Serve, PolicyReturns

\* The one session of a loop is the one its first call created.
LEMMA OwnSession ==
    ASSUME Wiring, InTurn, NEW s \in Calls, obj[s] = s, Is(s, "start_session")
    PROVE  s = <<req[s].uuid, 0>>
  <1>1. PICK l \in Loops, i \in 0..CloseAt : s = <<l, i>>
    BY LoopCall
  <1>2. pc[s] # "unborn"
    BY ServicerAssumption DEF Wiring, CallWiring, CallOK
  <1>3. req[s] = CallRequest(l, i)
    BY <1>1, <1>2, Asked
  <1>4. /\ CallRequest(l, i).uuid = l
        /\ CallRequest(l, i).rpc = "start_session" <=> i = 0
    BY Asking DEF Asks
  <1>5. QED
    BY <1>1, <1>3, <1>4 DEF Is

LEMMA LoopSession ==
    ASSUME Wiring, InTurn, OwnUuid, NEW l \in Loops
    PROVE  /\ sessions[l] \in {None, <<l, 0>>}
           /\ \A i \in 0..CloseAt : obj[<<l, i>>] \in {None, <<l, 0>>}
  <1>1. l \in Uuids
    BY LoopAssumption
  <1>2. sessions[l] # None => sessions[l] = <<l, 0>>
    BY <1>1, OwnSession DEF Wiring, TypeOK, ObjectWiring
  <1>3. ASSUME NEW i \in 0..CloseAt, obj[<<l, i>>] # None
        PROVE  obj[<<l, i>>] = <<l, 0>>
    <2>1. <<l, i>> \in Calls /\ obj[<<l, i>>] \in Calls
      BY <1>3, CallOfLoop DEF Wiring, TypeOK
    <2>2. pc[<<l, i>>] # "unborn"
      BY <1>3, <2>1 DEF Wiring, CallWiring, CallOK
    <2>3. req[<<l, i>>].uuid = l
      <3>1. CallRequest(l, i).uuid = l
        BY Asking DEF Asks
      <3>2. QED
        BY <2>2, <3>1, Asked
    <2>4. req[obj[<<l, i>>]].uuid = l
      BY <1>3, <2>1, <2>3 DEF OwnUuid
    <2>5. QED
      BY <1>3, <2>1, <2>4, OwnSession DEF Wiring, ObjectWiring
  <1>4. QED
    BY <1>2, <1>3

-----------------------------------------------------------------------------
(* A loop leaves no session                                                *)

\* The close_session of a loop has its session out of the registry for good.
Popped ==
    \A l \in Loops :
        pc[<<l, CloseAt>>] \notin {"unborn", "arrived"} => sessions[l] = None

\* A session the policy refused is not in the registry once that is answered.
Kept ==
    \A u \in Uuids :
        sessions[u] # None /\ pc[sessions[u]] = "done" => reply[sessions[u]].status = "OK"

\* A loop that has ended has had its close_session answered, or its start_session
\* refused.
Ending ==
    \A l \in Loops : at[l] = EndAt =>
        \/ pc[<<l, CloseAt>>] = "done"
        \/ pc[<<l, 0>>] = "done" /\ ~Succeeded(<<l, 0>>)

\* The loops, and what they make of the server.
LoopInv == Wiring /\ InTurn /\ OwnUuid

LEMMA LoopInvHolds == LoopSpec => []LoopInv
  <1>1. Wiring /\ InTurn /\ OwnUuid => LoopInv
    BY DEF LoopInv
  <1>2. QED
    BY <1>1, LoopsAreClients, OwnUuidHolds, LoopsInTurn, PTL

LEMMA PoppedStep == LoopInv /\ LoopInv' /\ Popped /\ [LoopNext]_loopVars => Popped'
  <1> SUFFICES ASSUME LoopInv, LoopInv', Popped, [LoopNext]_loopVars PROVE Popped'
    OBVIOUS
  <1> USE DEF LoopInv
  <1>0. CloseAt \in Nat /\ CloseAt > 5 /\ AtOK /\ CloseAt \in 0..CloseAt
    BY Counts DEF InTurn
  <1>1. CASE UNCHANGED vars
    BY <1>1 DEF vars, servicer, Popped
  <1>2. ASSUME NEW c \in Calls, ServerSteps(c), NEW l \in Loops,
               pc'[<<l, CloseAt>>] \notin {"unborn", "arrived"}, sessions'[l] # None
        PROVE  FALSE
    <2> DEFINE k == <<l, CloseAt>>
               s == <<l, 0>>
    <2>0. k \in Calls /\ s \in Calls /\ l \in Uuids /\ StepOf(c) /\ OthersStand(c)
      BY <1>0, <1>2, CallOfLoop, Others DEF ServerSteps, Wiring
    <2>1. Succeeded(s)'
      BY <1>0, <1>2 DEF InTurn, Made
    <2>2. ~Register(c) \/ sessions'[l] # c
      <3>1. Register(c) => /\ pc'[c] = "announce" /\ pc[c] = "arrived"
                           /\ obj[c] = None /\ Is(c, "start_session")
                           /\ sessions' = [sessions EXCEPT ![req[c].uuid] = c]
        BY DEF Register, GoTo, Wiring, TypeOK, CallWiring, CallOK
      <3>2. Register(c) => sessions[l] # c
        BY <2>0, <3>1, ServicerAssumption DEF Wiring, ObjectWiring
      <3>3. PICK m \in Loops, i \in 0..CloseAt : c = <<m, i>>
        BY LoopCall
      <3>4. /\ CallRequest(m, i).uuid = m
            /\ CallRequest(m, i).rpc = "start_session" <=> i = 0
        BY Asking DEF Asks
      <3>5. Register(c) /\ req[c].uuid = l => c = s
        BY <3>1, <3>3, <3>4, Asked DEF Is
      <3>6. QED
        BY <1>2, <2>0, <2>1, <3>1, <3>2, <3>5 DEF Succeeded, Wiring, TypeOK
    <2>3. sessions[l] # None
      BY <1>2, <2>0, <2>2, RegistryStands
    <2>4. pc[k] \in {"unborn", "arrived"} /\ k = c
      BY <1>2, <2>0, <2>3 DEF Popped, OthersStand
    <2>5. ~Arrive(c) /\ pc[c] = "arrived"
      BY <1>2, <2>0, <2>4, RequestStands DEF Arrive, Wiring, TypeOK
    <2>6. req[c] = CallRequest(l, CloseAt) /\ req[c] # None
      BY <1>0, <2>4, <2>5, Asked
    <2>7. CallRequest(l, CloseAt).uuid = l /\ CallRequest(l, CloseAt).rpc = "close_session"
      BY <1>0, Asking DEF Asks
    <2>8. CloseMoves(c)
      BY <2>0, <2>5, <2>6, <2>7, CloseSteps DEF Is
    <2>9. sessions'[l] = None
      BY <2>0, <2>5, <2>6, <2>7, <2>8 DEF CloseMoves, WithoutSession, Wiring, TypeOK
    <2>10. QED
      BY <1>2, <2>9
  <1>3. QED
    BY <1>0, <1>1, <1>2, LoopSteps, Onward DEF Popped, loopVars

LEMMA KeptStep == Wiring /\ Wiring' /\ Kept /\ [Next]_vars => Kept'
  <1> SUFFICES ASSUME Wiring, Wiring', Kept, [Next]_vars PROVE Kept'
    OBVIOUS
  <1>1. CASE UNCHANGED vars
    BY <1>1 DEF vars, servicer, Kept
  <1>2. ASSUME NEW c \in Calls, StepOf(c), NEW u \in Uuids, sessions'[u] # None,
               pc'[sessions'[u]] = "done"
        PROVE  reply'[sessions'[u]].status = "OK"
    <2> DEFINE s == sessions[u]
    <2>1. Register(c) => pc'[c] = "announce"
      BY DEF Register, GoTo, Wiring, TypeOK
    <2>2. sessions'[u] = s /\ s \in Calls
      BY <1>2, <2>1, RegistryStands DEF Wiring, TypeOK
    <2>3. CASE s # c
      BY <1>2, <2>2, <2>3, Others DEF Wiring, OthersStand, Kept
    <2>4. CASE s = c
      <3>1. obj[c] = c /\ Is(c, "start_session") /\ req[c].uuid = u
        BY <1>2, <2>2, <2>4 DEF Wiring, ObjectWiring
      <3>2. pc[c] \notin {"unborn", "arrived", "done"}
        BY <1>2, <3>1, DoneStands, ServicerAssumption DEF Wiring, CallWiring, CallOK
      <3>3. StartMoves(c)
        BY <1>2, <3>1, <3>2, StartSteps DEF Arrive
      <3>4. sessions' # WithoutSession(req[c].uuid)
        BY <1>2, <3>1 DEF WithoutSession, Wiring, TypeOK
      <3>5. QED
        BY <1>2, <2>2, <2>4, <3>2, <3>3, <3>4 DEF StartMoves
    <2>5. QED
      BY <2>3, <2>4
  <1>3. QED
    BY <1>1, <1>2 DEF Next, Idle, StepOf, Kept

LEMMA EndingStep ==
    ASSUME {"start_session", "close_session"} \cap Overruns = {}
    PROVE  LoopInv /\ Ending /\ [LoopNext]_loopVars => Ending'
  <1> SUFFICES ASSUME LoopInv, Ending, [LoopNext]_loopVars PROVE Ending'
    OBVIOUS
  <1> USE DEF LoopInv
  <1>0. /\ CloseAt \in Nat /\ CloseAt > 5 /\ AtOK /\ EndAt = CloseAt + 1
        /\ 0 \in 0..CloseAt /\ CloseAt \in 0..CloseAt
    BY Counts DEF InTurn
  <1>1. CASE UNCHANGED loopVars
    BY <1>1 DEF loopVars, vars, Ending, Succeeded
  <1>2. ASSUME NEW c \in Calls, ServerSteps(c) PROVE Ending'
    <2>1. \A l \in Loops, i \in 0..CloseAt :
            pc[<<l, i>>] = "done" => pc'[<<l, i>>] = "done" /\ reply'[<<l, i>>] = reply[<<l, i>>]
      BY <1>2, CallOfLoop, Others, DoneStands DEF ServerSteps, OthersStand, Wiring
    <2>2. QED
      BY <1>0, <1>2, <2>1 DEF ServerSteps, Ending, Succeeded
  <1>3. ASSUME NEW m \in Loops, GetsOn(m), NEW l \in Loops, at'[l] = EndAt
        PROVE  \/ pc[<<l, CloseAt>>] = "done"
               \/ pc[<<l, 0>>] = "done" /\ ~Succeeded(<<l, 0>>)
    <2>1. CASE l # m
      BY <1>3, <2>1, Onward DEF Ending
    <2>2. CASE l = m
      <3>1. /\ at[l] \in {0, CloseAt}
            /\ at[l] = 0 => ~Succeeded(<<l, 0>>)
            /\ pc[<<l, at[l]>>] = "done" \/ CallRequest(l, at[l]).rpc \in Overruns
        BY <1>0, <1>3, <2>2, Onward DEF Current
      <3>2. CallRequest(l, 0).rpc = "start_session"
            /\ CallRequest(l, CloseAt).rpc = "close_session"
        BY <1>0, Asking DEF Asks
      <3>3. QED
        BY <3>1, <3>2
    <2>3. QED
      BY <2>1, <2>2
  <1>4. QED
    BY <1>0, <1>1, <1>2, <1>3, LoopSteps, Onward DEF Ending, vars, Succeeded

\* Unless a start_session or a close_session may be given up while the server still
\* works on it, loops that have all ended leave no session: each was closed, or its
\* policy refused it.
THEOREM LoopsLeaveNoSession ==
    ASSUME {"start_session", "close_session"} \cap Overruns = {}
    PROVE  LoopSpec => []NoSessionLeft
  <1>0. /\ EndAt \in Nat /\ EndAt = CloseAt + 1 /\ CloseAt \in Nat
        /\ 0 \in 0..CloseAt /\ CloseAt \in 0..CloseAt
    BY Counts
  <1>1. LoopInit => Popped /\ Kept /\ Ending
    BY <1>0, CallOfLoop DEF LoopInit, Init, Popped, Kept, Ending
  <1>2. LoopInv /\ Popped /\ Kept /\ Ending => NoSessionLeft
    <2> SUFFICES ASSUME LoopInv, Popped, Kept, Ending, AllEnded, NEW u \in Uuids,
                        sessions[u] # None
                 PROVE  FALSE
      BY DEF NoSessionLeft
    <2>1. u \in Loops /\ at[u] = EndAt
      BY LoopAssumption DEF AllEnded
    <2>2. sessions[u] = <<u, 0>>
      BY <2>1, LoopSession DEF LoopInv
    <2>3. pc[<<u, CloseAt>>] # "done"
      BY <2>1 DEF Popped
    <2>4. pc[<<u, 0>>] = "done" /\ ~Succeeded(<<u, 0>>)
      BY <2>1, <2>3 DEF Ending
    <2>5. QED
      BY <2>2, <2>4 DEF Kept, Succeeded
  <1>3. LoopInv => Wiring /\ AtOK
    BY DEF LoopInv, InTurn
  <1>4. QED
    BY <1>1, <1>2, <1>3, LoopInvHolds, PoppedStep, KeptStep, EndingStep, LoopStepIsStep, PTL
    DEF LoopSpec

-----------------------------------------------------------------------------
(* The command of the drive before                                         *)

\* A command is fetched from the session, with no hook of the policy in between.
NoHook == \A c \in Calls : Is(c, "get_vehicle_command") => pc[c] \in {"arrived", "found", "done"}

\* A call that succeeded had a session, but for closes of a uuid that has none.
Worked == \A c \in Calls : Succeeded(c) /\ ~Is(c, "close_session") => obj[c] # None

LEMMA NoHookStep == Wiring /\ NoHook /\ [Next]_vars => NoHook'
  <1> SUFFICES ASSUME Wiring, NoHook, [Next]_vars PROVE NoHook'
    OBVIOUS
  <1>1. CASE UNCHANGED vars
    BY <1>1 DEF vars, arrival, NoHook, Is
  <1>2. ASSUME NEW c \in Calls, StepOf(c), NEW k \in Calls, Is(k, "get_vehicle_command")'
        PROVE  pc'[k] \in {"arrived", "found", "done"}
    <2>1. CASE k # c
      BY <1>2, <2>1, Others DEF Wiring, OthersStand, NoHook, Is
    <2>2. CASE k = c /\ Arrive(c)
      BY <2>2 DEF Arrive, Wiring, TypeOK
    <2>3. CASE k = c /\ ~Arrive(c)
      <3>1. pc[c] # "unborn" /\ Is(c, "get_vehicle_command") /\ pc[c] \in {"arrived", "found"}
        BY <1>2, <2>3, RequestStands, DoneStands DEF NoHook, Is
      <3>2. RequireSession(c) \/ GetVehicleCommand(c)
        BY <1>2, <2>3, <3>1 DEF StepOf, Serve, PolicyReturns, RefuseStart, Register,
           RejectStart, CloseSession, SubmitImage, BeginEgomotion, SkipPose, LandPose,
           LandState, EndEgomotion, SubmitRoute, SubmitGroundTruth, RecordSweep, GetMap,
           OpenMap, Commit, CallPolicy, PolicyLocks, PolicyUnlocks, HookReturns, HookRaises,
           DriveReturns, DriveRaises, InPolicy, Is
      <3>3. QED
        BY <2>3, <3>2 DEF RequireSession, GetVehicleCommand, Answer, GoTo, Wiring, TypeOK
    <2>4. QED
      BY <2>1, <2>2, <2>3
  <1>3. QED
    BY <1>1, <1>2 DEF Next, Idle, StepOf, NoHook

LEMMA WorkedStep == Wiring /\ Worked /\ [Next]_vars => Worked'
  <1> SUFFICES ASSUME Wiring, Worked, [Next]_vars PROVE Worked'
    OBVIOUS
  <1>0. None \notin Calls
    BY ServicerAssumption
  <1>1. CASE UNCHANGED vars
    BY <1>1 DEF vars, arrival, locals, Worked, Succeeded, Is
  <1>2. ASSUME NEW c \in Calls, StepOf(c), NEW k \in Calls, Succeeded(k)',
               ~Is(k, "close_session")'
        PROVE  obj'[k] # None
    <2>1. CASE k # c
      BY <1>2, <2>1, Others DEF Wiring, OthersStand, Worked, Succeeded, Is
    <2>2. CASE k = c /\ obj[c] # None
      BY <1>2, <2>2, ObjectKept
    <2>3. CASE k = c /\ obj[c] = None
      <3>1. pc[c] \notin Busy /\ pc[c] # "done"
        BY <1>0, <1>2, <2>3, DoneStands DEF Wiring, CallWiring, CallOK
      <3>2. pc[c] \in {"unborn", "arrived"}
        BY <3>1 DEF Wiring, TypeOK, Places, Busy
      <3>3. CASE Arrive(c)
        BY <1>2, <2>3, <3>3 DEF Arrive, Succeeded, Wiring, TypeOK
      <3>4. CASE RefuseStart(c) \/ Register(c) \/ RequireSession(c)
        BY <1>2, <2>3, <3>4 DEF RefuseStart, Register, RequireSession, Answer, GoTo, Succeeded,
           Wiring, TypeOK
      <3>5. CASE CloseSession(c)
        BY <1>2, <2>3, <3>5 DEF CloseSession, arrival, Is
      <3>6. QED
        BY <1>2, <3>2, <3>3, <3>4, <3>5 DEF StepOf, Serve, PolicyReturns, RejectStart,
           SubmitImage, BeginEgomotion, SkipPose, LandPose, LandState, EndEgomotion,
           SubmitRoute, SubmitGroundTruth, RecordSweep, GetMap, OpenMap, Commit,
           GetVehicleCommand, CallPolicy, PolicyLocks, PolicyUnlocks, HookReturns, HookRaises,
           DriveReturns, DriveRaises, InPolicy
    <2>4. QED
      BY <2>1, <2>2, <2>3
  <1>3. QED
    BY <1>1, <1>2 DEF Next, Idle, StepOf, Worked

\* A drive that succeeded decided a command.
PlansDecided == \A c \in Calls : Planned(c) => decided[c] # None

LEMMA PlansDecidedStep == Wiring /\ PlansDecided /\ [Next]_vars => PlansDecided'
  <1> SUFFICES ASSUME Wiring, PlansDecided, [Next]_vars PROVE PlansDecided'
    OBVIOUS
  <1>1. CASE UNCHANGED vars
    BY <1>1 DEF vars, arrival, locals, PlansDecided, Planned, Is
  <1>2. ASSUME NEW c \in Calls, StepOf(c), NEW k \in Calls, Planned(k)'
        PROVE  decided'[k] # None
    <2>1. CASE k # c
      BY <1>2, <2>1, Others DEF Wiring, OthersStand, PlansDecided, Planned, Is
    <2>2. CASE k = c
      <3>1. Commit(c)
        BY <1>2, <2>2, OthersPlan
      <3>2. QED
        BY <2>2, <3>1 DEF Commit, locals, Wiring, CallWiring, CallOK
    <2>3. QED
      BY <2>1, <2>2
  <1>3. QED
    BY <1>1, <1>2 DEF Next, Idle, StepOf, PlansDecided

LEMMA HooksAndWork == LoopSpec => [](NoHook /\ Worked /\ PlansDecided)
  <1>1. Init => NoHook /\ Worked /\ PlansDecided
    BY DEF Init, NoHook, Worked, PlansDecided, Planned, Succeeded, Is
  <1>2. QED
    BY <1>1, NoHookStep, WorkedStep, PlansDecidedStep, LoopsAreClients, WiringHolds, PTL
    DEF Spec

\* The drive before a command is fetched is the newest its session has had.
LEMMA DriveBefore ==
    ASSUME LoopInv, Worked, PlansDecided, CommandNewest, NEW l \in Loops,
           NEW i \in 1..(CloseAt - 1), Is(<<l, i>>, "get_vehicle_command"), pc[<<l, i>>] = "found"
    PROVE  LET d == <<l, i - 1>> IN
           session[obj[<<l, i>>]].command = [time |-> req[d].now, indicator |-> decided[d]]
  <1> USE DEF LoopInv
  <1> DEFINE k == <<l, i>>
             d == <<l, i - 1>>
             s == <<l, 0>>
             cmd == session[s].command
  <1>0. /\ CloseAt \in Nat /\ CloseAt > 5 /\ i \in Nat /\ i - 1 \in Nat
        /\ i \in 0..CloseAt /\ i - 1 \in 0..CloseAt /\ 0 \in 0..CloseAt
    BY Counts
  <1>1. k \in Calls /\ d \in Calls /\ s \in Calls
    BY <1>0, CallOfLoop
  <1>2. obj[k] = s
    BY <1>0, <1>1, LoopSession, ObjectType, ServicerAssumption DEF Busy
  <1>3. PlaceOf(i) = 4
    <2>1. CallRequest(l, i).rpc = "get_vehicle_command" => PlaceOf(i) = 4
      BY <1>0, AskingCommand
    <2>2. QED
      BY <1>0, <2>1, Asked DEF Is
  <1>4. i = PerStep * LoopStep(i) + 5 /\ LoopStep(i) \in Int
    <2>1. LoopStep(i) \in Int /\ i = PerStep * LoopStep(i) + PlaceOf(i) + 1
      BY <1>0, Division
    <2>2. QED
      BY <1>3, <2>1 DEF PerStep
  <1>5. PlaceOf(i - 1) = 3 /\ i - 1 = PerStep * LoopStep(i - 1) + 4 /\ LoopStep(i - 1) \in Int
    <2>1. /\ LoopStep(i - 1) \in Int /\ PlaceOf(i - 1) \in 0..4
          /\ i - 1 = PerStep * LoopStep(i - 1) + PlaceOf(i - 1) + 1
      BY <1>0, Division
    <2>2. PlaceOf(i - 1) = 3
      BY <1>4, <2>1 DEF PerStep
    <2>3. QED
      BY <2>1, <2>2 DEF PerStep
  <1>6. d \in Committed(s) /\ req[d].now = LoopStep(i - 1)
    <2>1. Succeeded(d)
      BY <1>0 DEF InTurn, Made
    <2>2. req[d] = CallRequest(l, i - 1) /\ req[d] # None
      BY <1>0, <2>1, Asked DEF Succeeded
    <2>3. i - 1 \notin {0, CloseAt}
      BY <1>0, <1>5 DEF PerStep
    <2>4. CallRequest(l, i - 1).rpc = "drive" /\ CallRequest(l, i - 1).now = LoopStep(i - 1)
      <3> DEFINE p == i - 1
      <3>1. p \in 0..CloseAt
        BY <1>0
      <3> HIDE DEF p
      <3>2. /\ CallRequest(l, p).rpc = "drive" <=> p \notin {0, CloseAt} /\ PlaceOf(p) = 3
            /\ CallRequest(l, p).rpc = "drive" => CallRequest(l, p).now = LoopStep(p)
        BY <3>1, AskingDrive
      <3>3. QED
        BY <1>5, <2>3, <3>2 DEF p
    <2>5. obj[d] # None
      BY <1>1, <2>1, <2>2, <2>4 DEF Worked, Is
    <2>6. obj[d] = s
      BY <1>0, <2>5, LoopSession
    <2>7. decided[d] # None
      BY <1>1, <2>1, <2>2, <2>4 DEF PlansDecided, Planned, Succeeded, Is
    <2>8. QED
      BY <1>1, <2>1, <2>2, <2>4, <2>6, <2>7 DEF Committed, Succeeded, Is
  <1>7. LoopStep(i - 1) <= cmd.time
    BY <1>1, <1>6 DEF CommandNewest, NewestIn
  <1>8. PICK e \in Committed(s) : cmd = [time |-> req[e].now, indicator |-> decided[e]]
    BY <1>1, <1>6 DEF CommandNewest, NewestIn
  <1>9. e = d
    <2>1. PICK m \in Loops, j \in 0..CloseAt : e = <<m, j>>
      BY LoopCall DEF Committed
    <2>2. m = l
      <3>1. obj[e] = s /\ s # None
        BY <1>1, ServicerAssumption DEF Committed
      <3>2. obj[<<m, j>>] \in {None, <<m, 0>>}
        BY LoopSession
      <3>3. QED
        BY <2>1, <3>1, <3>2
    <2>3. req[e] = CallRequest(l, j) /\ pc[e] = "done" /\ req[e].rpc = "drive"
      BY <2>1, <2>2, Asked DEF Committed, Is
    <2>4. /\ j \notin {0, CloseAt} /\ PlaceOf(j) = 3
          /\ req[e].now = LoopStep(j)
      <3>1. /\ CallRequest(l, j).rpc = "drive" <=> j \notin {0, CloseAt} /\ PlaceOf(j) = 3
            /\ CallRequest(l, j).rpc = "drive" => CallRequest(l, j).now = LoopStep(j)
        BY AskingDrive
      <3>2. QED
        BY <2>3, <3>1
    <2>5. ~(i < j)
      <3>1. i < j => Succeeded(k)
        BY <1>0, <2>1, <2>2, <2>3, <2>4 DEF InTurn, Made
      <3>2. QED
        BY <3>1 DEF Succeeded
    <2>6. j = PerStep * LoopStep(j) + 4 /\ LoopStep(j) \in Int
      <3>1. LoopStep(j) \in Int /\ j = PerStep * LoopStep(j) + PlaceOf(j) + 1
        BY Division
      <3>2. QED
        BY <2>4, <3>1 DEF PerStep
    <2>7. LoopStep(i - 1) <= LoopStep(j)
      BY <1>7, <1>8, <2>4
    <2>8. j = i - 1
      BY <1>0, <1>4, <1>5, <2>5, <2>6, <2>7 DEF PerStep
    <2>9. QED
      BY <2>1, <2>2, <2>8
  <1>10. QED
    BY <1>2, <1>8, <1>9

LEMMA FetchStep ==
    LoopInv /\ LoopInv' /\ NoHook /\ Worked /\ PlansDecided /\ CommandNewest
    /\ CommandOfItsDrive /\ [LoopNext]_loopVars => CommandOfItsDrive'
  <1> SUFFICES ASSUME LoopInv, LoopInv', NoHook, Worked, PlansDecided, CommandNewest,
                      CommandOfItsDrive, [LoopNext]_loopVars
               PROVE  CommandOfItsDrive'
    OBVIOUS
  <1> USE DEF LoopInv
  <1>0. CloseAt \in Nat /\ CloseAt > 5 /\ AtOK
    BY Counts DEF InTurn
  <1>1. CASE UNCHANGED vars
    BY <1>1 DEF vars, arrival, locals, CommandOfItsDrive, Is
  <1>2. ASSUME NEW c \in Calls, ServerSteps(c), NEW l \in Loops, NEW i \in 1..(CloseAt - 1),
               Is(<<l, i>>, "get_vehicle_command")', Succeeded(<<l, i>>)'
        PROVE  LET d == <<l, i - 1>> IN
               reply'[<<l, i>>].body = [time |-> req'[d].now, indicator |-> decided'[d]]
    <2> DEFINE k == <<l, i>>
               d == <<l, i - 1>>
    <2>0. k \in Calls /\ d \in Calls /\ StepOf(c) /\ OthersStand(c)
      BY <1>0, <1>2, CallOfLoop, Others DEF ServerSteps, Wiring
    <2>1. pc[k] # "unborn" => Succeeded(d) /\ d # c /\ req'[d] = req[d] /\ decided'[d] = decided[d]
      <3>1. pc[k] # "unborn" => Succeeded(d)
        BY <1>0 DEF InTurn, Made
      <3>2. Succeeded(d) => d # c
        BY <2>0, SuccessStands
      <3>3. QED
        BY <2>0, <3>1, <3>2 DEF OthersStand
    <2>2. CASE k # c
      <3>1. /\ pc'[k] = pc[k] /\ req'[k] = req[k] /\ reply'[k] = reply[k]
            /\ pc[k] = "done"
        BY <1>2, <2>0, <2>2 DEF OthersStand, Succeeded
      <3>2. reply[k].body = [time |-> req[d].now, indicator |-> decided[d]]
        BY <1>2, <3>1 DEF CommandOfItsDrive, Succeeded, Is
      <3>3. QED
        BY <2>1, <3>1, <3>2
    <2>3. CASE k = c
      <3>1. ~Arrive(c)
        BY <1>2, <2>3 DEF Arrive, Succeeded, Wiring, TypeOK
      <3>2. pc[c] # "unborn" /\ Is(c, "get_vehicle_command") /\ pc[c] \in {"arrived", "found"}
        BY <1>2, <2>0, <2>3, <3>1, RequestStands, DoneStands DEF NoHook, Is
      <3>3. RequireSession(c) \/ GetVehicleCommand(c)
        BY <2>0, <3>2, <3>1 DEF StepOf, Serve, PolicyReturns, RefuseStart, Register,
           RejectStart, CloseSession, SubmitImage, BeginEgomotion, SkipPose, LandPose,
           LandState, EndEgomotion, SubmitRoute, SubmitGroundTruth, RecordSweep, GetMap,
           OpenMap, Commit, CallPolicy, PolicyLocks, PolicyUnlocks, HookReturns, HookRaises,
           DriveReturns, DriveRaises, InPolicy, Is
      <3>4. ~RequireSession(c)
        BY <1>2, <2>3 DEF RequireSession, Answer, GoTo, Succeeded, Wiring, TypeOK
      <3>5. pc[c] = "found" /\ reply'[c].body = session[obj[c]].command
        BY <3>3, <3>4 DEF GetVehicleCommand, Answer, Wiring, TypeOK
      <3>6. session[obj[k]].command = [time |-> req[d].now, indicator |-> decided[d]]
        BY <2>3, <3>2, <3>5, DriveBefore
      <3>7. QED
        BY <2>1, <2>3, <3>2, <3>5, <3>6
    <2>4. QED
      BY <2>2, <2>3
  <1>3. ASSUME NEW c \in Calls, ServerSteps(c) PROVE CommandOfItsDrive'
    BY <1>2, <1>3 DEF CommandOfItsDrive, Succeeded
  <1>4. QED
    BY <1>0, <1>1, <1>3, LoopSteps, Onward DEF loopVars

\* The command a loop fetches is the one the drive before it decided, whatever calls
\* outlast their timeout and whatever the other loops do.
THEOREM CommandIsItsDrives == LoopSpec => []CommandOfItsDrive
  <1>1. LoopInit => CommandOfItsDrive
    BY Counts, CallOfLoop DEF LoopInit, Init, CommandOfItsDrive, Is
  <1>2. QED
    BY <1>1, FetchStep, LoopInvHolds, HooksAndWork, LoopsAreClients, CommandIsNewest, PTL
    DEF LoopSpec

-----------------------------------------------------------------------------
(* Frames come oldest first                                                *)

Ascending(h) == \A i, j \in 1..Len(h) : i < j => h[i] <= h[j]

LEMMA Suffix ==
    ASSUME NEW h \in Seq(Times), NEW first \in 1..Len(h)
    PROVE  LET rest == SubSeq(h, first, Len(h)) IN
           /\ Len(rest) = Len(h) - first + 1
           /\ \A i \in 1..Len(rest) : rest[i] = h[first + i - 1]
  OBVIOUS

\* What is left of an ascending history is ascending.
LEMMA TrimAscending ==
    ASSUME NEW h \in Seq(Times), Ascending(h)
    PROVE  Ascending(Trim(h))
  <1>1. FrameHistoryLength \in Int
    BY ServicerAssumption
  <1> DEFINE n == IF FrameHistoryLength > 1 THEN FrameHistoryLength ELSE 1
             first == Len(h) - n + 1
  <1>2. n \in Nat /\ n > 0
    BY <1>1
  <1>3. CASE Len(h) > n
    <2>0. first \in 1..Len(h)
      BY <1>2, <1>3
    <2>1. Trim(h) = SubSeq(h, first, Len(h)) /\ first \in 1..Len(h)
      BY <1>3, <2>0 DEF Trim, Trimmed
    <2>2. /\ Len(SubSeq(h, first, Len(h))) = n
          /\ \A i \in 1..n : SubSeq(h, first, Len(h))[i] = h[first + i - 1]
      <3>1. Len(h) \in Nat /\ Len(h) - first + 1 = n
        BY <1>2
      <3>2. first \in 1..Len(h)
        BY <2>1
      <3> HIDE DEF first
      <3>3. QED
        BY <3>1, <3>2, Suffix
    <2>3. \A i \in 1..n : first + i - 1 \in 1..Len(h)
      BY <1>2, <2>1
    <2>4. ASSUME NEW i \in 1..n, NEW j \in 1..n, i < j
          PROVE  Trim(h)[i] <= Trim(h)[j]
      <3>1. first + i - 1 < first + j - 1
        BY <1>2, <2>1, <2>4
      <3>2. h[first + i - 1] <= h[first + j - 1]
        BY <2>3, <3>1 DEF Ascending
      <3>3. QED
        BY <2>1, <2>2, <3>2
    <2>5. QED
      BY <2>1, <2>2, <2>4 DEF Ascending
  <1>4. CASE ~(Len(h) > n)
    BY <1>4 DEF Trim, Trimmed
  <1>5. QED
    BY <1>3, <1>4

\* A frame no older than those kept goes after them.
LEMMA RecordAscending ==
    ASSUME NEW h \in Seq(Times), Ascending(h), NEW t \in Times,
           \A i \in 1..Len(h) : h[i] <= t
    PROVE  Ascending(Trim(Append(h, t)))
  <1>1. Append(h, t) \in Seq(Times) /\ Len(Append(h, t)) = Len(h) + 1
        /\ Append(h, t)[Len(h) + 1] = t
        /\ \A i \in 1..Len(h) : Append(h, t)[i] = h[i]
    OBVIOUS
  <1>2. Ascending(Append(h, t))
    <2> SUFFICES ASSUME NEW i \in 1..(Len(h) + 1), NEW j \in 1..(Len(h) + 1), i < j
                 PROVE  Append(h, t)[i] <= Append(h, t)[j]
      BY <1>1 DEF Ascending
    <2>1. i \in 1..Len(h)
      OBVIOUS
    <2>2. CASE j = Len(h) + 1
      BY <1>1, <2>1, <2>2
    <2>3. CASE j # Len(h) + 1
      <3>1. j \in 1..Len(h)
        BY <2>3
      <3>2. QED
        BY <1>1, <2>1, <3>1 DEF Ascending
    <2>4. QED
      BY <2>2, <2>3
  <1>3. QED
    BY <1>1, <1>2, TrimAscending

\* A loop sends no sweeps along with a drive.
LEMMA NoSweeps ==
    ASSUME Wiring, InTurn, NEW c \in Calls, pc[c] # "unborn", Is(c, "drive")
    PROVE  Sweeps(c) = <<>>
  <1>1. PICK l \in Loops, i \in 0..CloseAt : c = <<l, i>>
    BY LoopCall
  <1>2. req[c] = CallRequest(l, i)
    BY <1>1, Asked
  <1>3. CallRequest(l, i).rpc = "drive" => CallRequest(l, i).payload = None
    BY Asking DEF Asks
  <1>4. QED
    BY <1>2, <1>3 DEF Is, Sweeps, RendererData

\* A loop sends its frames in the order of their times, one call after the other.
LEMMA LatestFrame ==
    ASSUME LoopInv, Owned, NEW c \in Calls, pc[c] = "found", Is(c, "submit_image"),
           NEW k \in Sensors, NEW n \in 1..Len(session[obj[c]].frames[k])
    PROVE  session[obj[c]].frames[k][n] <= req[c].frame.time
  <1> USE DEF LoopInv
  <1> DEFINE s == obj[c]
             t == session[s].frames[k][n]
  <1>0. CloseAt \in Nat /\ CloseAt > 5
    BY Counts
  <1>1. PICK l \in Loops, i \in 0..CloseAt : c = <<l, i>>
    BY LoopCall
  <1>2. s \in Calls /\ s # None
    BY ObjectType, ServicerAssumption DEF Busy
  <1>3. s = <<l, 0>>
    BY <1>1, <1>2, LoopSession
  <1>4. PlaceOf(i) = 2 /\ req[c].frame = [sensor |-> Camera, time |-> LoopStep(i)]
    <2>1. CallRequest(l, i).rpc = "submit_image" =>
            PlaceOf(i) = 2 /\ CallRequest(l, i).frame = [sensor |-> Camera, time |-> LoopStep(i)]
      BY Asking DEF Asks
    <2>2. QED
      BY <1>1, <2>1, Asked DEF Is
  <1>5. t \in FrameTimes(s, k)
    BY <1>2 DEF Owned, FramesOwn
  <1>6. PICK d \in Calls : /\ obj[d] = s /\ pc[d] # "unborn" /\ Is(d, "submit_image")
                           /\ req[d].frame = [sensor |-> k, time |-> t]
    <2>1. \A d \in Calls : obj[d] = s => pc[d] # "unborn"
      BY <1>2 DEF Wiring, CallWiring, CallOK
    <2>2. \A d \in Calls : obj[d] = s /\ Is(d, "drive") => Sweeps(d) = <<>>
      BY <2>1, NoSweeps
    <2>3. Range(<<>>) = {}
      BY DEF Range
    <2>4. QED
      BY <1>5, <2>1, <2>2, <2>3 DEF FrameTimes
  <1>7. PICK m \in Loops, j \in 0..CloseAt : d = <<m, j>>
    BY LoopCall
  <1>8. m = l
    <2>1. obj[<<m, j>>] \in {None, <<m, 0>>}
      BY LoopSession
    <2>2. QED
      BY <1>2, <1>3, <1>6, <1>7, <2>1
  <1>9. PlaceOf(j) = 2 /\ t = LoopStep(j) /\ j # CloseAt
    <2>1. /\ CallRequest(l, j).rpc = "submit_image" =>
               PlaceOf(j) = 2 /\ CallRequest(l, j).frame = [sensor |-> Camera, time |-> LoopStep(j)]
          /\ CallRequest(l, j).rpc = "close_session" <=> j = CloseAt
      BY Asking DEF Asks
    <2>2. req[d] = CallRequest(l, j)
      BY <1>6, <1>7, <1>8, Asked
    <2>3. QED
      BY <1>6, <2>1, <2>2 DEF Is
  <1>10. ~(i < j)
    <2>1. i < j => Succeeded(<<l, i>>)
      BY <1>0, <1>6, <1>7, <1>8, <1>9 DEF InTurn, Made
    <2>2. QED
      BY <1>1, <2>1 DEF Succeeded
  <1>11. /\ i = PerStep * LoopStep(i) + 3 /\ LoopStep(i) \in Int
         /\ j = PerStep * LoopStep(j) + 3 /\ LoopStep(j) \in Int
    <2>1. /\ LoopStep(i) \in Int /\ i = PerStep * LoopStep(i) + PlaceOf(i) + 1
          /\ LoopStep(j) \in Int /\ j = PerStep * LoopStep(j) + PlaceOf(j) + 1
      BY <1>0, Division
    <2>2. QED
      BY <1>4, <1>9, <2>1 DEF PerStep
  <1>12. LoopStep(j) <= LoopStep(i)
    BY <1>0, <1>10, <1>11 DEF PerStep
  <1>13. QED
    BY <1>4, <1>9, <1>12

LEMMA OldestFirstStep ==
    LoopInv /\ Owned /\ FramesOldestFirst /\ [LoopNext]_loopVars => FramesOldestFirst'
  <1> SUFFICES ASSUME LoopInv, Owned, FramesOldestFirst, [LoopNext]_loopVars
               PROVE  FramesOldestFirst'
    OBVIOUS
  <1> USE DEF LoopInv
  <1>0. AtOK
    BY DEF InTurn
  <1>1. CASE UNCHANGED vars
    BY <1>1 DEF vars, FramesOldestFirst
  <1>2. ASSUME NEW c \in Calls, ServerSteps(c), NEW s \in Calls, NEW k \in Sensors
        PROVE  Ascending(session'[s].frames[k])
    <2>0. StepOf(c)
      BY <1>2 DEF ServerSteps
    <2>1. Ascending(session[s].frames[k])
      BY DEF FramesOldestFirst, Ascending
    <2>2. CASE Register(c)
      <3>1. CASE s = c
        <4>1. session'[c].frames[k] = <<>>
          <5>1. session'[c] = NewSession(req[c].cameras)
            BY <2>2, RegisterOne
          <5>2. session'[c].frames = [x \in Sensors |-> <<>>]
            BY <5>1 DEF NewSession
          <5>3. QED
            BY <5>2
        <4>2. QED
          BY <3>1, <4>1 DEF Ascending
      <3>2. QED
        BY <2>1, <2>2, <3>1, RegisterOne
    <2>3. CASE SubmitImage(c)
      <3> DEFINE f == req[c].frame
                 h == session[obj[c]].frames[f.sensor]
      <3>1. pc[c] = "found" /\ Is(c, "submit_image") /\ obj[c] \in Calls /\ f \in Frame
        BY <2>3, Recorded DEF SubmitImage
      <3>2. CASE UNCHANGED session
        BY <2>1, <3>2
      <3>3. CASE RecordFrame(obj[c], f)
        <4>1. f.sensor \in Sensors /\ f.time \in Times /\ h \in Seq(Times)
          <5>1. f.sensor \in Sensors /\ f.time \in Times
            BY <3>1 DEF Frame
          <5>2. session[obj[c]].frames \in [Sensors -> Seq(Times)]
            BY <3>1 DEF Wiring, TypeOK, SessionState
          <5>3. QED
            BY <5>1, <5>2
        <4>2. Ascending(h)
          BY <3>1, <4>1 DEF FramesOldestFirst, Ascending
        <4>3. \A n \in 1..Len(h) : h[n] <= f.time
          BY <3>1, <4>1, LatestFrame
        <4>4. Ascending(Trim(Append(h, f.time)))
          BY <4>1, <4>2, <4>3, RecordAscending
        <4>5. QED
          BY <2>1, <3>1, <3>3, <4>4, RecordOne
      <3>4. QED
        BY <2>3, <3>2, <3>3 DEF SubmitImage
    <2>4. ~RecordSweep(c)
      <3>1. RecordSweep(c) => /\ pc[c] # "unborn" /\ Is(c, "drive") /\ step[c] \in Nat
                              /\ step[c] < Len(Sweeps(c))
        BY DEF RecordSweep, Wiring, TypeOK
      <3>2. RecordSweep(c) => Len(Sweeps(c)) = 0
        BY <3>1, NoSweeps
      <3>3. QED
        BY <3>1, <3>2
    <2>5. QED
      BY <2>0, <2>1, <2>2, <2>3, <2>4, FramesStand
  <1>3. QED
    BY <1>0, <1>1, <1>2, LoopSteps, Onward DEF FramesOldestFirst, Ascending, loopVars

\* Closed loops keep every camera's history oldest first, although the server appends
\* frames in the order its threads get the lock: a frame still being submitted when its
\* loop gives the call up is the last the loop sends.
THEOREM LoopsSendOldestFirst == LoopSpec => []FramesOldestFirst
  <1>1. LoopInit => FramesOldestFirst
    BY DEF LoopInit, Init, NewSession, FramesOldestFirst
  <1>2. QED
    BY <1>1, OldestFirstStep, LoopInvHolds, OwnedHolds, LoopsAreClients, PTL DEF LoopSpec

-----------------------------------------------------------------------------
(* The hooks of a rollout come in the order BaseDriver documents           *)

\* Where the rollout of a loop is, by its first call and its last.
PhaseBy(l) ==
    LET s == <<l, 0>>
        k == <<l, CloseAt>>
    IN  /\ obj[k] = s /\ pc[k] = "done" => Phase(l) = "closed"
        /\ obj[k] = s /\ pc[k] = "policy" => Phase(l) = "closing"
        /\ obj[k] # s \/ pc[k] = "announce" =>
             /\ obj[s] = s /\ pc[s] = "policy" => Phase(l) = "starting"
             /\ obj[s] = s /\ Succeeded(s) => Phase(l) = "open"
             /\ pc[s] = "reject" => Phase(l) = "refused"
             /\ obj[s] = s /\ pc[s] = "done" /\ ~Succeeded(s) => Phase(l) = "refused"
             /\ pc[s] \in {"unborn", "arrived", "announce"} => Phase(l) = "none"
             /\ obj[s] # s /\ pc[s] # "reject" => Phase(l) = "none"

LEMMA Phases ==
    ASSUME NEW l \in Loops
    PROVE  PhaseBy(l) /\ PhaseBy(l)'
  <1>1. PhaseBy(l)
    BY DEF PhaseBy, Phase, Succeeded
  <1>2. PhaseBy(l)'
    BY DEF PhaseBy, Phase, Succeeded
  <1>3. QED
    BY <1>1, <1>2

\* A step that leaves a loop's first and last call alone leaves its phase.
LEMMA PhaseStands ==
    ASSUME NEW l \in Loops,
           \A c \in {<<l, 0>>, <<l, CloseAt>>} : pc'[c] = pc[c] /\ obj'[c] = obj[c],
           reply'[<<l, 0>>] = reply[<<l, 0>>]
    PROVE  Phase(l)' = Phase(l)
  BY DEF Phase

LEMMA ActiveStands ==
    ASSUME NEW l \in Loops,
           \A i \in 1..(CloseAt - 1) : InPolicy(<<l, i>>)' = InPolicy(<<l, i>>)
    PROVE  Active(l)' = Active(l)
  BY DEF Active

\* One loop's rollout moves on.
LEMMA OnePhase ==
    ASSUME NEW l \in Loops, NEW from, NEW to, Phase(l) = from, Phase(l)' = to,
           \A m \in Loops \ {l} : Phase(m)' = Phase(m),
           \A m \in Loops : Active(m)' = Active(m), late' = late
    PROVE  Lifecycle!Become(l, from, to)
  <1>1. [m \in Loops |-> Phase(m)'] = [[m \in Loops |-> Phase(m)] EXCEPT ![l] = to]
    OBVIOUS
  <1>2. [m \in Loops |-> Active(m)'] = [m \in Loops |-> Active(m)]
    OBVIOUS
  <1>3. QED
    BY <1>1, <1>2 DEF Lifecycle!Become

\* One thread of a loop's rollout enters the policy or leaves it.
LEMMA OneActive ==
    ASSUME NEW l \in Loops, NEW T, Active(l)' = T,
           \A m \in Loops : Phase(m)' = Phase(m),
           \A m \in Loops \ {l} : Active(m)' = Active(m)
    PROVE  /\ [m \in Loops |-> Active(m)'] = [[m \in Loops |-> Active(m)] EXCEPT ![l] = T]
           /\ [m \in Loops |-> Phase(m)'] = [m \in Loops |-> Phase(m)]
  OBVIOUS

\* Nothing moves.
LEMMA NoneMoves ==
    ASSUME \A m \in Loops : Phase(m)' = Phase(m) /\ Active(m)' = Active(m), late' = late
    PROVE  UNCHANGED Lifecycle!vars
  BY DEF Lifecycle!vars

\* A loop waits for each of its calls but those it gave up on.
WaitedFor ==
    /\ late \in [Loops -> SUBSET (0..CloseAt)]
    /\ \A l \in Loops, i \in 0..CloseAt :
          pc[<<l, i>>] \notin {"unborn", "done"} => at[l] = i \/ i \in late[l]

\* A close_session is nowhere but on its way to on_session_close and through it.
ClosePlaces ==
    \A l \in Loops :
        pc[<<l, CloseAt>>] \in {"unborn", "arrived", "announce", "policy", "done"}

LEMMA WaitedStep == LoopInv /\ WaitedFor /\ [LoopNext]_loopVars => WaitedFor'
  <1> SUFFICES ASSUME LoopInv, WaitedFor, [LoopNext]_loopVars PROVE WaitedFor'
    OBVIOUS
  <1> USE DEF LoopInv
  <1>1. CASE UNCHANGED loopVars
    BY <1>1 DEF loopVars, vars, WaitedFor
  <1>2. ASSUME NEW c \in Calls, ServerSteps(c) PROVE WaitedFor'
    <2>0. StepOf(c) /\ UNCHANGED <<at, late>> /\ OthersStand(c)
      BY <1>2, Others DEF ServerSteps, Wiring
    <2>1. ASSUME NEW l \in Loops, NEW i \in 0..CloseAt,
                 pc'[<<l, i>>] \notin {"unborn", "done"}
          PROVE  at[l] = i \/ i \in late[l]
      <3>0. <<l, i>> \in Calls
        BY CallOfLoop
      <3>1. CASE <<l, i>> # c
        BY <2>0, <2>1, <3>0, <3>1 DEF OthersStand, WaitedFor
      <3>2. CASE <<l, i>> = c /\ Arrive(c)
        BY <1>2, <3>2 DEF ServerSteps, Current
      <3>3. CASE <<l, i>> = c /\ ~Arrive(c)
        BY <2>0, <3>3, RequestStands, DoneStands DEF WaitedFor
      <3>4. QED
        BY <3>1, <3>2, <3>3
    <2>2. QED
      BY <2>0, <2>1 DEF WaitedFor
  <1>3. ASSUME NEW l \in Loops, GetsOn(l) PROVE WaitedFor'
    <2>1. /\ UNCHANGED vars /\ at[l] \in 0..CloseAt
          /\ \A m \in Loops \ {l} : at'[m] = at[m]
      BY <1>3, Onward
    <2>2. CASE Receive(l)
      <3>1. pc[<<l, at[l]>>] = "done" /\ late' = late
        BY <2>2 DEF Receive, Current
      <3>2. QED
        BY <2>1, <3>1 DEF WaitedFor, vars
    <2>3. CASE TimeOut(l)
      <3>1. late' = [late EXCEPT ![l] = @ \cup {at[l]}]
        BY <2>3 DEF TimeOut
      <3>2. QED
        BY <2>1, <3>1 DEF WaitedFor, vars
    <2>4. QED
      BY <1>3, <2>2, <2>3 DEF GetsOn
  <1>4. QED
    BY <1>1, <1>2, <1>3, LoopSteps DEF InTurn

LEMMA ClosePlacesStep == LoopInv /\ ClosePlaces /\ [Next]_vars => ClosePlaces'
  <1> SUFFICES ASSUME LoopInv, ClosePlaces, [Next]_vars PROVE ClosePlaces'
    OBVIOUS
  <1> USE DEF LoopInv
  <1>1. CASE UNCHANGED vars
    BY <1>1 DEF vars, ClosePlaces
  <1>2. ASSUME NEW c \in Calls, StepOf(c), NEW l \in Loops
        PROVE  pc'[<<l, CloseAt>>] \in {"unborn", "arrived", "announce", "policy", "done"}
    <2> DEFINE k == <<l, CloseAt>>
    <2>0. k \in Calls /\ CloseAt \in 0..CloseAt
      BY Counts, CallOfLoop
    <2>1. CASE k # c
      BY <1>2, <2>0, <2>1, Others DEF Wiring, OthersStand, ClosePlaces
    <2>2. CASE k = c /\ Arrive(c)
      BY <2>2 DEF Arrive, Wiring, TypeOK
    <2>3. CASE k = c /\ ~Arrive(c)
      <3>1. pc[c] # "unborn"
        BY <1>2, <2>3, RequestStands
      <3>2. CallRequest(l, CloseAt).rpc = "close_session"
        BY <2>0, Asking DEF Asks
      <3>3. Is(c, "close_session")
        BY <2>0, <2>3, <3>1, <3>2, Asked DEF Is
      <3>4. CloseMoves(c)
        BY <1>2, <2>3, <3>3, CloseSteps
      <3>5. QED
        BY <2>3, <3>4 DEF CloseMoves, ClosePlaces
    <2>4. QED
      BY <2>1, <2>2, <2>3
  <1>3. QED
    BY <1>1, <1>2 DEF Next, Idle, StepOf, ClosePlaces

LEMMA LoopsWait == LoopSpec => [](WaitedFor /\ ClosePlaces)
  <1>1. LoopInit => WaitedFor /\ ClosePlaces
    <2>1. \A l \in Loops, i \in 0..CloseAt : <<l, i>> \in Calls
      BY CallOfLoop
    <2>2. CloseAt \in 0..CloseAt
      BY Counts
    <2>3. QED
      BY <2>1, <2>2 DEF LoopInit, Init, WaitedFor, ClosePlaces
  <1>2. LoopInv => AtOK
    BY DEF LoopInv, InTurn
  <1>3. QED
    BY <1>1, <1>2, LoopInvHolds, WaitedStep, ClosePlacesStep, LoopStepIsStep, PTL DEF LoopSpec

\* A call between a loop's first and last that is under way has its loop waiting for
\* it, and the last not made, unless the loop gave it up.
LEMMA Undisturbed ==
    ASSUME LoopInv, WaitedFor, NEW l \in Loops, NEW i \in 1..(CloseAt - 1),
           pc[<<l, i>>] \notin {"unborn", "done"}, i \notin late[l]
    PROVE  at[l] = i /\ pc[<<l, CloseAt>>] = "unborn"
  <1>0. /\ CloseAt \in Nat /\ CloseAt \in 0..CloseAt /\ i \in 0..CloseAt /\ i < CloseAt
    BY Counts
  <1>1. at[l] = i
    BY <1>0 DEF WaitedFor
  <1>2. pc[<<l, CloseAt>>] # "unborn" => CloseAt <= at[l]
    BY <1>0 DEF LoopInv, InTurn, Made
  <1>3. QED
    BY <1>0, <1>1, <1>2

\* Once its start_session has succeeded and as long as close_session has its one way to
\* go, a rollout is open or on its way to be closed.
LEMMA OpenOrLater ==
    ASSUME LoopInv, Worked, ClosePlaces, NEW l \in Loops, Succeeded(<<l, 0>>)
    PROVE  /\ obj[<<l, 0>>] = <<l, 0>>
           /\ Phase(l) \in {"open", "closing", "closed"}
           /\ pc[<<l, CloseAt>>] = "unborn" => Phase(l) = "open"
  <1> USE DEF LoopInv
  <1> DEFINE s == <<l, 0>>
             k == <<l, CloseAt>>
  <1>0. /\ 0 \in 0..CloseAt /\ CloseAt \in 0..CloseAt /\ CloseAt # 0
        /\ s \in Calls /\ k \in Calls /\ s # None
    BY Counts, CallOfLoop, ServicerAssumption
  <1>1. obj[s] = s
    <2>1. req[s] = CallRequest(l, 0) /\ CallRequest(l, 0).rpc # "close_session"
      <3>1. CallRequest(l, 0).rpc = "close_session" <=> 0 = CloseAt
        BY <1>0, Asking DEF Asks
      <3>2. QED
        BY <1>0, <3>1, Asked DEF Succeeded
    <2>2. obj[s] # None
      BY <1>0, <2>1 DEF Worked, Is
    <2>3. QED
      BY <1>0, <2>2, LoopSession
  <1>2. pc[k] \in {"unborn", "arrived"} => obj[k] # s
    BY <1>0 DEF Wiring, CallWiring, CallOK
  <1>3. pc[k] \in {"unborn", "arrived", "announce", "policy", "done"}
    BY DEF ClosePlaces
  <1>4. QED
    BY <1>1, <1>2, <1>3, Phases DEF PhaseBy

\* What a step of call <<l, i>> leaves alone.
LEMMA Elsewhere ==
    ASSUME Wiring, NEW l \in Loops, NEW i \in 0..CloseAt, StepOf(<<l, i>>)
    PROVE  /\ \A m \in Loops \ {l} : Phase(m)' = Phase(m) /\ Active(m)' = Active(m)
           /\ i \notin {0, CloseAt} => Phase(l)' = Phase(l)
           /\ i \in {0, CloseAt} => Active(l)' = Active(l)
           /\ \A j \in (1..(CloseAt - 1)) \ {i} : InPolicy(<<l, j>>)' = InPolicy(<<l, j>>)
  <1>0. CloseAt \in Nat /\ 0 \in 0..CloseAt /\ CloseAt \in 0..CloseAt
        /\ 1..(CloseAt - 1) \subseteq 0..CloseAt /\ 0 \notin 1..(CloseAt - 1)
        /\ CloseAt \notin 1..(CloseAt - 1)
    BY Counts
  <1>1. ASSUME NEW m \in Loops, NEW j \in 0..CloseAt, <<m, j>> # <<l, i>>
        PROVE  /\ pc'[<<m, j>>] = pc[<<m, j>>] /\ obj'[<<m, j>>] = obj[<<m, j>>]
               /\ reply'[<<m, j>>] = reply[<<m, j>>]
    <2>1. <<m, j>> \in Calls /\ <<l, i>> \in Calls
      BY CallOfLoop
    <2>2. QED
      BY <1>1, <2>1, Others DEF Wiring, OthersStand
  <1>2. ASSUME NEW m \in Loops \ {l} PROVE Phase(m)' = Phase(m) /\ Active(m)' = Active(m)
    <2>0. \A j \in 0..CloseAt :
            /\ pc'[<<m, j>>] = pc[<<m, j>>] /\ obj'[<<m, j>>] = obj[<<m, j>>]
            /\ reply'[<<m, j>>] = reply[<<m, j>>]
      BY <1>1
    <2>1. Phase(m)' = Phase(m)
      BY <1>0, <2>0, PhaseStands
    <2>2. \A j \in 1..(CloseAt - 1) : InPolicy(<<m, j>>)' = InPolicy(<<m, j>>)
      BY <1>0, <1>1 DEF InPolicy
    <2>3. QED
      BY <2>1, <2>2, ActiveStands
  <1>3. i \notin {0, CloseAt} => Phase(l)' = Phase(l)
    BY <1>0, <1>1, PhaseStands
  <1>4. \A j \in (1..(CloseAt - 1)) \ {i} : InPolicy(<<l, j>>)' = InPolicy(<<l, j>>)
    BY <1>0, <1>1 DEF InPolicy
  <1>5. i \in {0, CloseAt} => Active(l)' = Active(l)
    BY <1>0, <1>4, ActiveStands
  <1>6. QED
    BY <1>2, <1>3, <1>4, <1>5

\* on_session_start: a step of a loop's first call.
LEMMA Starts ==
    ASSUME LoopInv, NEW l \in Loops, StepOf(<<l, 0>>), late' = late
    PROVE  Lifecycle!Start(l) \/ Lifecycle!Accept(l) \/ Lifecycle!Refuse(l)
           \/ UNCHANGED Lifecycle!vars
  <1> USE DEF LoopInv
  <1> DEFINE s == <<l, 0>>
             k == <<l, CloseAt>>
  <1>0. /\ 0 \in 0..CloseAt /\ CloseAt \in 0..CloseAt /\ s # k
        /\ s \in Calls /\ k \in Calls /\ s # None
    BY Counts, CallOfLoop, ServicerAssumption
  <1>1. pc[k] = "unborn" /\ obj[k] = None /\ obj'[k] = obj[k]
    <2>1. pc[k] # "unborn" => Succeeded(s)
      BY <1>0, Counts DEF InTurn, Made
    <2>2. ~Succeeded(s)
      BY <1>0, DoneStands DEF Succeeded
    <2>3. obj'[k] = obj[k]
      BY <1>0, Others DEF Wiring, OthersStand
    <2>4. QED
      BY <1>0, <2>1, <2>2, <2>3 DEF Wiring, CallWiring, CallOK
  <1>2. PhaseBy(l) /\ PhaseBy(l)' /\ obj[k] # s /\ obj'[k] # s
    BY <1>0, <1>1, Phases
  <1>3. /\ \A m \in Loops \ {l} : Phase(m)' = Phase(m)
        /\ \A m \in Loops : Active(m)' = Active(m)
    BY <1>0, Elsewhere
  <1>4. Phase(l)' = Phase(l) => UNCHANGED Lifecycle!vars
    BY <1>3, NoneMoves
  <1>5. CASE Arrive(s)
    <2>1. pc[s] = "unborn" /\ pc'[s] = "arrived"
      BY <1>0, <1>5 DEF Arrive, Wiring, TypeOK
    <2>2. Phase(l) = "none" /\ Phase(l)' = "none"
      BY <1>2, <2>1 DEF PhaseBy
    <2>3. QED
      BY <1>4, <2>2
  <1>6. CASE ~Arrive(s)
    <2>1. pc[s] # "unborn"
      BY <1>0, <1>6, RequestStands
    <2>2. Is(s, "start_session")
      <3>1. CallRequest(l, 0).rpc = "start_session"
        BY <1>0, Asking DEF Asks
      <3>2. QED
        BY <1>0, <2>1, <3>1, Asked DEF Is
    <2>3. StartMoves(s)
      BY <1>0, <1>6, <2>2, StartSteps
    <2>4. /\ pc[s] = "arrived" => obj[s] = None
          /\ pc[s] \in {"announce", "policy", "reject"} => obj[s] = s
      <3>1. pc[s] \in {"announce", "policy", "reject"} => obj[s] \in Calls
        BY <1>0, ObjectType DEF Busy
      <3>2. obj[s] # None => obj[s] = s
        BY <1>0, <2>2 DEF Wiring, ObjectWiring
      <3>3. pc[s] = "arrived" => obj[s] = None
        BY <1>0 DEF Wiring, CallWiring, CallOK
      <3>4. QED
        BY <3>1, <3>2, <3>3, ServicerAssumption
    <2>5. CASE pc[s] = "arrived"
      <3>1. Phase(l) = "none"
        BY <1>2, <2>5 DEF PhaseBy
      <3>2. pc'[s] = "announce" \/ (pc'[s] = "done" /\ obj'[s] # s)
        BY <1>0, <2>3, <2>4, <2>5 DEF StartMoves
      <3>3. Phase(l)' = "none"
        BY <1>2, <3>2 DEF PhaseBy
      <3>4. QED
        BY <1>4, <3>1, <3>3
    <2>6. CASE pc[s] = "announce" /\ pc'[s] = "policy"
      <3>1. obj'[s] = s
        BY <2>3, <2>4, <2>6 DEF StartMoves
      <3>2. Phase(l) = "none" /\ Phase(l)' = "starting"
        BY <1>2, <2>6, <3>1 DEF PhaseBy
      <3>3. QED
        BY <1>3, <3>2, OnePhase DEF Lifecycle!Start
    <2>7. CASE pc[s] = "policy" /\ pc'[s] = "done"
      <3>1. obj[s] = s /\ obj'[s] = s /\ Succeeded(s)'
        BY <2>3, <2>4, <2>7 DEF StartMoves, Succeeded
      <3>2. Phase(l) = "starting" /\ Phase(l)' = "open"
        BY <1>2, <2>7, <3>1 DEF PhaseBy
      <3>3. QED
        BY <1>3, <3>2, OnePhase DEF Lifecycle!Accept
    <2>8. CASE pc[s] = "policy" /\ pc'[s] = "reject"
      <3>1. Phase(l) = "starting" /\ Phase(l)' = "refused"
        BY <1>2, <2>4, <2>8 DEF PhaseBy
      <3>2. QED
        BY <1>3, <3>1, OnePhase DEF Lifecycle!Refuse
    <2>9. CASE pc[s] = "reject" /\ pc'[s] = "done"
      <3>1. obj'[s] = s /\ ~Succeeded(s)'
        BY <2>3, <2>4, <2>9 DEF StartMoves, Succeeded
      <3>2. Phase(l) = "refused" /\ Phase(l)' = "refused"
        BY <1>2, <2>9, <3>1 DEF PhaseBy
      <3>3. QED
        BY <1>4, <3>2
    <2>10. CASE UNCHANGED <<pc, obj, reply>>
      <3>1. Phase(l)' = Phase(l)
        BY <2>10, PhaseStands
      <3>2. QED
        BY <1>4, <3>1
    <2>11. QED
      BY <2>3, <2>5, <2>6, <2>7, <2>8, <2>9, <2>10 DEF StartMoves
  <1>7. QED
    BY <1>5, <1>6

\* on_session_close: a step of a loop's last call.
LEMMA Closes ==
    ASSUME LoopInv, WaitedFor, ClosePlaces, Worked, NEW l \in Loops,
           StepOf(<<l, CloseAt>>), late' = late
    PROVE  Lifecycle!Close(l) \/ Lifecycle!Closed(l) \/ UNCHANGED Lifecycle!vars
  <1> USE DEF LoopInv
  <1> DEFINE s == <<l, 0>>
             k == <<l, CloseAt>>
  <1>0. /\ 0 \in 0..CloseAt /\ CloseAt \in 0..CloseAt /\ s # k
        /\ s \in Calls /\ k \in Calls /\ s # None
    BY Counts, CallOfLoop, ServicerAssumption
  <1>1. pc'[s] = pc[s] /\ obj'[s] = obj[s] /\ reply'[s] = reply[s]
    BY <1>0, Others DEF Wiring, OthersStand
  <1>2. PhaseBy(l) /\ PhaseBy(l)'
    BY Phases
  <1>3. /\ \A m \in Loops \ {l} : Phase(m)' = Phase(m)
        /\ \A m \in Loops : Active(m)' = Active(m)
    BY <1>0, Elsewhere
  <1>4. Phase(l)' = Phase(l) => UNCHANGED Lifecycle!vars
    BY <1>3, NoneMoves
  <1>5. ASSUME obj[k] # s \/ pc[k] = "announce", obj'[k] # s \/ pc'[k] = "announce"
        PROVE  Phase(l)' = Phase(l)
    BY <1>1, <1>5 DEF Phase
  <1>6. CASE Arrive(k)
    <2>1. pc[k] = "unborn" /\ obj' = obj
      BY <1>6 DEF Arrive, locals
    <2>2. obj[k] # s
      BY <1>0, <2>1 DEF Wiring, CallWiring, CallOK
    <2>3. QED
      BY <1>4, <1>5, <2>1, <2>2
  <1>7. CASE ~Arrive(k)
    <2>1. pc[k] # "unborn"
      BY <1>0, <1>7, RequestStands
    <2>2. Is(k, "close_session")
      <3>1. CallRequest(l, CloseAt).rpc = "close_session"
        BY <1>0, Asking DEF Asks
      <3>2. QED
        BY <1>0, <2>1, <3>1, Asked DEF Is
    <2>3. CloseMoves(k)
      BY <1>0, <1>7, <2>2, CloseSteps
    <2>4. /\ pc[k] = "arrived" => obj[k] = None
          /\ pc[k] \in {"announce", "policy"} => obj[k] = s
      <3>1. pc[k] \in {"announce", "policy"} => obj[k] \in Calls
        BY <1>0, ObjectType DEF Busy
      <3>2. obj[k] \in {None, s}
        BY <1>0, LoopSession
      <3>3. pc[k] = "arrived" => obj[k] = None
        BY <1>0 DEF Wiring, CallWiring, CallOK
      <3>4. QED
        BY <3>1, <3>2, <3>3, ServicerAssumption
    <2>5. obj[s] = s /\ Succeeded(s)
      <3>1. Succeeded(s)
        BY <1>0, <2>1, Counts DEF InTurn, Made
      <3>2. QED
        BY <3>1, OpenOrLater
    <2>6. CASE pc[k] = "arrived"
      <3>1. pc'[k] = "announce" \/ obj'[k] # s
        BY <1>0, <2>3, <2>4, <2>6 DEF CloseMoves
      <3>2. QED
        BY <1>0, <1>4, <1>5, <2>4, <2>6, <3>1
    <2>7. CASE pc[k] = "announce" /\ pc'[k] = "policy"
      <3>1. obj'[k] = s
        BY <2>3, <2>4, <2>7 DEF CloseMoves
      <3>2. Phase(l) = "open" /\ Phase(l)' = "closing"
        BY <1>2, <2>5, <2>7, <3>1 DEF PhaseBy
      <3>3. Active(l) \subseteq late[l]
        <4>1. ASSUME NEW i \in 1..(CloseAt - 1), InPolicy(<<l, i>>) PROVE i \in late[l]
          <5>1. pc[<<l, i>>] \notin {"unborn", "done"}
            BY <4>1 DEF InPolicy
          <5>2. QED
            BY <2>1, <5>1, Undisturbed
        <4>2. QED
          BY <4>1 DEF Active
      <3>4. Lifecycle!Become(l, "open", "closing")
        BY <1>3, <3>2, OnePhase
      <3>5. QED
        BY <3>3, <3>4 DEF Lifecycle!Close
    <2>8. CASE pc[k] = "policy" /\ pc'[k] = "done"
      <3>1. obj[k] = s /\ obj'[k] = s
        BY <2>3, <2>4, <2>8 DEF CloseMoves
      <3>2. Phase(l) = "closing" /\ Phase(l)' = "closed"
        BY <1>2, <2>8, <3>1 DEF PhaseBy
      <3>3. QED
        BY <1>3, <3>2, OnePhase DEF Lifecycle!Closed
    <2>9. CASE UNCHANGED <<pc, obj>>
      <3>1. Phase(l)' = Phase(l)
        BY <1>1, <2>9, PhaseStands
      <3>2. QED
        BY <1>4, <3>1
    <2>10. QED
      BY <2>3, <2>6, <2>7, <2>8, <2>9 DEF CloseMoves
  <1>8. QED
    BY <1>6, <1>7

\* The other hooks: a step of a call in between.
LEMMA Observes ==
    ASSUME LoopInv, WaitedFor, ClosePlaces, Worked, NEW l \in Loops,
           NEW i \in 1..(CloseAt - 1), StepOf(<<l, i>>), late' = late
    PROVE  Lifecycle!Enter(l, i) \/ Lifecycle!Leave(l, i) \/ UNCHANGED Lifecycle!vars
  <1> USE DEF LoopInv
  <1> DEFINE s == <<l, 0>>
             k == <<l, CloseAt>>
             c == <<l, i>>
  <1>0. /\ 0 \in 0..CloseAt /\ CloseAt \in 0..CloseAt /\ i \in 0..CloseAt
        /\ i \notin {0, CloseAt} /\ CloseAt # 0
        /\ s \in Calls /\ k \in Calls /\ c \in Calls /\ s # None
    BY Counts, CallOfLoop, ServicerAssumption
  <1>1. /\ \A m \in Loops : Phase(m)' = Phase(m)
        /\ \A m \in Loops \ {l} : Active(m)' = Active(m)
        /\ \A j \in (1..(CloseAt - 1)) \ {i} : InPolicy(<<l, j>>)' = InPolicy(<<l, j>>)
    BY <1>0, Elsewhere
  <1>2. CASE InPolicy(c)' = InPolicy(c)
    <2>1. Active(l)' = Active(l)
      BY <1>1, <1>2, ActiveStands
    <2>2. QED
      BY <1>1, <2>1, NoneMoves
  <1>3. CASE ~InPolicy(c) /\ InPolicy(c)'
    <2>1. ~Arrive(c)
      BY <1>0, <1>3 DEF Arrive, InPolicy, Wiring, TypeOK
    <2>2. pc[c] \notin {"unborn", "done"}
      BY <1>0, <2>1, RequestStands, DoneStands
    <2>3. Succeeded(s)
      BY <1>0, <2>2 DEF InTurn, Made
    <2>4. Phase(l) \in {"open", "closing", "closed"}
      BY <2>3, OpenOrLater
    <2>5. Phase(l) = "open" \/ i \in late[l]
      BY <2>2, <2>3, OpenOrLater, Undisturbed
    <2>6. Phase(l) = "open" \/ (Phase(l) \in {"closing", "closed"} /\ i \in late[l])
      BY <2>4, <2>5
    <2>9. i \notin Active(l) /\ Active(l)' = Active(l) \cup {i}
      BY <1>1, <1>3 DEF Active
    <2>10. QED
      BY <1>1, <2>6, <2>9, OneActive DEF Lifecycle!Enter
  <1>4. CASE InPolicy(c) /\ ~InPolicy(c)'
    <2>1. i \in Active(l) /\ Active(l)' = Active(l) \ {i}
      BY <1>1, <1>4 DEF Active
    <2>2. QED
      BY <1>1, <2>1, OneActive DEF Lifecycle!Leave
  <1>5. QED
    BY <1>2, <1>3, <1>4 DEF InPolicy

\* A loop that gives a call up makes that call a stray of its rollout.
LEMMA Strays ==
    ASSUME LoopInv, WaitedFor, NEW l \in Loops, GetsOn(l)
    PROVE  [Lifecycle!Next]_Lifecycle!vars
  <1> USE DEF LoopInv
  <1>1. UNCHANGED vars /\ at[l] \in 0..CloseAt
    BY Onward
  <1>2. \A m \in Loops : Phase(m)' = Phase(m) /\ Active(m)' = Active(m)
    BY <1>1 DEF vars, locals, Phase, Active, InPolicy
  <1>3. CASE Receive(l)
    BY <1>2, <1>3, NoneMoves DEF Receive
  <1>4. CASE TimeOut(l)
    <2>1. late' = [late EXCEPT ![l] = @ \cup {at[l]}]
      BY <1>4 DEF TimeOut
    <2>2. Lifecycle!GiveUp(l, at[l])
      BY <1>2, <2>1 DEF Lifecycle!GiveUp
    <2>3. QED
      BY <1>1, <2>2 DEF Lifecycle!Next
  <1>5. QED
    BY <1>3, <1>4 DEF GetsOn

\* Under closed loops the server implements PolicyLifecycle: a policy hears of a rollout
\* once, before anything else, of its end once, after every hook of a call its loop has
\* waited for, and of nothing when it refused it.  Whichever calls the loops give up,
\* theirs are the only hooks that run on.
THEOREM LoopsFollowLifecycle == LoopSpec => ImplementsLifecycle
  <1>0. CloseAt \in Nat /\ 0 \in 0..CloseAt
    BY Counts
  <1>1. LoopInit => Lifecycle!Init
    <2> SUFFICES ASSUME LoopInit PROVE Lifecycle!Init
      OBVIOUS
    <2>1. ASSUME NEW l \in Loops PROVE Phase(l) = "none" /\ Active(l) = {}
      <3>1. <<l, 0>> \in Calls /\ <<l, CloseAt>> \in Calls
            /\ \A i \in 1..(CloseAt - 1) : <<l, i>> \in Calls
        BY <1>0, CallOfLoop
      <3>2. Active(l) = {}
        BY <3>1 DEF LoopInit, Init, Active, InPolicy
      <3>3. obj[<<l, CloseAt>>] # <<l, 0>> /\ pc[<<l, 0>>] = "unborn"
        BY <3>1, ServicerAssumption DEF LoopInit, Init
      <3>4. QED
        BY <3>2, <3>3, Phases DEF PhaseBy
    <2>2. QED
      BY <2>1 DEF LoopInit, Lifecycle!Init
  <1>2. LoopInv /\ WaitedFor /\ ClosePlaces /\ Worked /\ [LoopNext]_loopVars
        => [Lifecycle!Next]_Lifecycle!vars
    <2> SUFFICES ASSUME LoopInv, WaitedFor, ClosePlaces, Worked, [LoopNext]_loopVars
                 PROVE  [Lifecycle!Next]_Lifecycle!vars
      OBVIOUS
    <2>1. ASSUME NEW c \in Calls, ServerSteps(c) PROVE [Lifecycle!Next]_Lifecycle!vars
      <3>1. PICK l \in Loops, i \in 0..CloseAt : c = <<l, i>>
        BY LoopCall
      <3>2. StepOf(<<l, i>>) /\ late' = late
        BY <2>1, <3>1 DEF ServerSteps
      <3>3. CASE i = 0
        BY <3>2, <3>3, Starts DEF Lifecycle!Next
      <3>4. CASE i = CloseAt
        BY <3>2, <3>4, Closes DEF Lifecycle!Next
      <3>5. CASE i \in 1..(CloseAt - 1)
        BY <3>2, <3>5, Observes DEF Lifecycle!Next
      <3>6. QED
        BY <1>0, <3>3, <3>4, <3>5
    <2>2. CASE UNCHANGED loopVars
      <3>1. UNCHANGED <<pc, obj, reply>> /\ late' = late
        BY <2>2 DEF loopVars, vars, locals
      <3>2. \A m \in Loops : Phase(m)' = Phase(m) /\ Active(m)' = Active(m)
        BY <3>1 DEF Phase, Active, InPolicy
      <3>3. QED
        BY <3>1, <3>2, NoneMoves
    <2>3. QED
      BY <2>1, <2>2, LoopSteps, Strays DEF LoopInv, InTurn
  <1>3. QED
    BY <1>1, <1>2, LoopInvHolds, HooksAndWork, LoopsWait, PTL
    DEF LoopSpec, ImplementsLifecycle, Lifecycle!Spec
=============================================================================
