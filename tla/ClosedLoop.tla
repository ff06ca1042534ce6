----------------------------- MODULE ClosedLoop -----------------------------
(***************************************************************************)
(* The closed loop: testing.py's FakeLoop.run driving the policy server of *)
(* EgodriverServicer over its RPCs.  A loop makes its calls one after the  *)
(* other, each with the client's timeout; a call it gives up on goes on    *)
(* running on the server.  Several loops share one server.                 *)
(*                                                                         *)
(* Call <<l, i>> is the i-th call of loop l: start_session, then per step  *)
(* egomotion, route, image, drive and get_vehicle_command, then            *)
(* close_session.  A loop's uuid4 is the loop itself.                      *)
(***************************************************************************)
EXTENDS EgodriverServicer

CONSTANTS
    Loops,
    Steps,     \* steps of FakeLoop.run
    Camera,    \* the camera it declares
    Overruns   \* the RPCs whose calls may outlast timeout_s

PerStep == 5

CloseAt == PerStep * Steps + 1

EndAt == CloseAt + 1

LoopCalls == Loops \X (0..CloseAt)

\* The step and the place in it of the i-th call.
LoopStep(i) == (i - 1) \div PerStep

PlaceOf(i) == (i - 1) % PerStep

\* FakeLoop.run and _observe; the time of step k is k.
CallRequest(l, i) ==
    LET time == LoopStep(i) IN
    CASE i = 0 ->
           [rpc |-> "start_session", uuid |-> l, supported |-> TRUE,
            cameras |-> {Camera}]
      [] i = CloseAt -> [rpc |-> "close_session", uuid |-> l]
      [] OTHER ->
           CASE PlaceOf(i) = 0 ->
                  [rpc |-> "submit_egomotion", uuid |-> l, poses |-> <<time>>,
                   states |-> "paired"]
             [] PlaceOf(i) = 1 ->
                  [rpc |-> "submit_route", uuid |-> l, time |-> time]
             [] PlaceOf(i) = 2 ->
                  [rpc |-> "submit_image", uuid |-> l,
                   frame |-> [sensor |-> Camera, time |-> time]]
             [] PlaceOf(i) = 3 ->
                  [rpc |-> "drive", uuid |-> l, now |-> time, payload |-> None]
             [] PlaceOf(i) = 4 -> [rpc |-> "get_vehicle_command", uuid |-> l]

LoopRequests == {CallRequest(l, i) : l \in Loops, i \in 0..CloseAt}

ASSUME LoopAssumption ==
    /\ Steps \in Nat \ {0}
    /\ Camera \in Sensors
    /\ Overruns \subseteq {r.rpc : r \in LoopRequests}
    /\ Calls = LoopCalls /\ Uuids = Loops
    /\ Requests = LoopRequests

VARIABLES
    at,    \* the call each loop is at
    late   \* history: the calls each loop gave up on, by their place

loopVars == <<vars, at, late>>

LoopInit ==
    /\ Init
    /\ at = [l \in Loops |-> 0]
    /\ late = [l \in Loops |-> {}]

Current(l) == <<l, at[l]>>

Send(l) ==
    /\ at[l] # EndAt
    /\ Arrive(Current(l))
    /\ req'[Current(l)] = CallRequest(l, at[l])
    /\ UNCHANGED <<at, late>>

\* Seeded bug: no finally, the session is left as it is.
BugAfterFailure(i) == EndAt

\* Where an exception leads: out of run, or through its finally to close_session.
AfterFailure(i) == IF i \in {0, CloseAt} THEN EndAt ELSE CloseAt

\* Seeded bug: a frame is sent without waiting for the answer.
BugReceive(l) ==
    /\ at[l] # EndAt
    /\ pc[Current(l)] = "done" \/ Is(Current(l), "submit_image")
    /\ at' = [at EXCEPT ![l] = @ + 1]
    /\ UNCHANGED <<vars, late>>

\* A failed call raises.  A policy may terminate the session with any drive, which
\* the loop acts on after it has fetched the command.
Receive(l) ==
    /\ at[l] # EndAt
    /\ pc[Current(l)] = "done"
    /\ \/ /\ reply[Current(l)].status # "OK"
          /\ at' = [at EXCEPT ![l] = AfterFailure(@)]
       \/ /\ reply[Current(l)].status = "OK"
          /\ at' = [at EXCEPT ![l] = @ + 1]
       \/ /\ reply[Current(l)].status = "OK"
          /\ Is(Current(l), "get_vehicle_command")
          /\ at' = [at EXCEPT ![l] = CloseAt]
    /\ UNCHANGED <<vars, late>>

MayTimeOut(l) ==
    /\ at[l] # EndAt /\ pc[Current(l)] # "done"
    /\ CallRequest(l, at[l]).rpc \in Overruns

\* The deadline passes first.  The server does not learn of it while its handler
\* runs; a call still waiting for a worker never runs.
TimeOut(l) ==
    /\ MayTimeOut(l)
    /\ at' = [at EXCEPT ![l] = AfterFailure(@)]
    /\ late' = [late EXCEPT ![l] = @ \cup {at[l]}]
    /\ UNCHANGED vars

Server(c) ==
    /\ Serve(c) \/ PolicyLocks(c) \/ PolicyUnlocks(c) \/ PolicyReturns(c)
    /\ UNCHANGED <<at, late>>

AllEnded == \A l \in Loops : at[l] = EndAt

Finished ==
    /\ AllEnded /\ Running = {}
    /\ UNCHANGED loopVars

LoopNext ==
    \/ \E l \in Loops : Send(l) \/ Receive(l) \/ TimeOut(l)
    \/ \E c \in Calls : Server(c)
    \/ Finished

LoopSpec == LoopInit /\ [][LoopNext]_loopVars

-----------------------------------------------------------------------------
(* The servicer under a closed loop implements PolicyLifecycle             *)

\* The rollout of loop l: its first call, and its last once that found the session.
Phase(l) ==
    LET s == <<l, 0>>
        k == <<l, CloseAt>>
    IN  CASE obj[k] = s /\ pc[k] = "done" -> "closed"
          [] obj[k] = s /\ pc[k] = "policy" -> "closing"
          [] obj[k] # s \/ pc[k] = "announce" ->
               CASE obj[s] = s /\ pc[s] = "policy" -> "starting"
                 [] obj[s] = s /\ pc[s] = "done" /\ reply[s].status = "OK" -> "open"
                 [] pc[s] = "reject" -> "refused"
                 [] obj[s] = s /\ pc[s] = "done" /\ reply[s].status # "OK" -> "refused"
                 [] OTHER -> "none"

Active(l) == {i \in 1..(CloseAt - 1) : InPolicy(<<l, i>>)}

Lifecycle == INSTANCE PolicyLifecycle WITH
    Rollouts <- Loops, Threads <- 0..CloseAt,
    phase <- [l \in Loops |-> Phase(l)], active <- [l \in Loops |-> Active(l)],
    stray <- late

\* The policy of a closed loop sees its hooks in the order BaseDriver documents;
\* only a call its loop gave up on is ever in the policy at the close or after it.
ImplementsLifecycle == Lifecycle!Spec

-----------------------------------------------------------------------------
(* Properties                                                              *)

\* testing.py:204: a loop that has ended has closed its session, so a server no
\* loop uses any more holds none.
NoSessionLeft ==
    AllEnded /\ Running = {} => \A u \in Uuids : sessions[u] = None

\* testing.py:133: the command a loop records after a drive is the one that very
\* drive decided, whatever the other loops on the server do.
CommandOfItsDrive ==
    \A l \in Loops, i \in 1..(CloseAt - 1) :
        LET d == <<l, i - 1>>
            k == <<l, i>>
        IN  Is(k, "get_vehicle_command") /\ pc[k] = "done" /\ reply[k].status = "OK"
            => reply[k].body = [time |-> req[d].now, indicator |-> decided[d]]
=============================================================================
