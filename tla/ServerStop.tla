----------------------------- MODULE ServerStop -----------------------------
(***************************************************************************)
(* server.py's run_server around an EgodriverServicer: the main thread     *)
(* waits for SIGTERM or Ctrl-C and stops the server, with one second of    *)
(* grace, while worker threads are in their handlers and in the policy.    *)
(*                                                                         *)
(* The grpc server is modelled from how server.py uses it.  Once stopping  *)
(* it accepts no call, so the calls here are those it took before.  When   *)
(* the grace is over it cancels those not yet answered: a call still       *)
(* queued is not begun, a handler that is running goes on to its end.      *)
(* wait() returns when no call is left, and Python joins the worker        *)
(* threads before the process exits.                                       *)
(***************************************************************************)
EXTENDS EgodriverServicer

CONSTANT HangingHooks \* policy hooks that may never return

ASSUME HangingAssumption == HangingHooks \subseteq Hooks

VARIABLES
    phase, \* of run_server and the grpc server it stops
    hung   \* the call whose hook will not return, at most one (a bound)

stopVars == <<vars, phase, hung>>

Serving == phase \in {"serving", "signalled"}

StopInit ==
    /\ Init
    /\ phase = "serving"
    /\ hung = {}

-----------------------------------------------------------------------------
(* Calls                                                                   *)

\* The pool runs an accepted call that has not been cancelled meanwhile.
Begin(c) ==
    /\ Serving \/ phase = "grace"
    /\ Arrive(c)
    /\ UNCHANGED <<phase, hung>>

\* A step of a handler that does not hang.
Alone(c) == c \notin hung /\ UNCHANGED <<phase, hung>>

Handle(c) ==
    /\ Serve(c) \/ PolicyLocks(c) \/ PolicyUnlocks(c) \/ PolicyReturns(c)
    /\ Alone(c)

Hang(c) ==
    /\ InPolicy(c) /\ Hook(c) \in HangingHooks /\ hung = {}
    /\ hung' = {c}
    /\ UNCHANGED <<vars, phase>>

-----------------------------------------------------------------------------
(* Stopping                                                                *)

\* SIGTERM sets the event; Ctrl-C raises out of the wait for it.
Signal ==
    /\ phase = "serving"
    /\ phase' \in {"signalled", "grace"}
    /\ UNCHANGED <<vars, hung>>

\* Out of stop.wait() and into serving's finally: server.stop(grace=1.0).
BeginStop ==
    /\ phase = "signalled"
    /\ phase' = "grace"
    /\ UNCHANGED <<vars, hung>>

\* Seeded bug: stop(grace) without an end waits for the handlers.
BugGraceEnds == FALSE

GraceEnds == phase = "grace"

Cancel ==
    /\ GraceEnds
    /\ phase' = "cancelled"
    /\ UNCHANGED <<vars, hung>>

\* wait() and run_server return: no call is left, whatever the threads still do.
Return ==
    /\ phase = "cancelled" \/ (phase = "grace" /\ Running = {})
    /\ phase' = "returned"
    /\ UNCHANGED <<vars, hung>>

Exit ==
    /\ phase = "returned" /\ Running = {}
    /\ phase' = "exited"
    /\ UNCHANGED <<vars, hung>>

Stop == BeginStop \/ Cancel \/ Return \/ Exit

-----------------------------------------------------------------------------
StopNext ==
    \/ \E c \in Calls : Begin(c) \/ Handle(c) \/ Hang(c)
    \/ Signal \/ Stop

\* Threads are scheduled, a hook that does not hang returns, however often it
\* takes the session's lock before, and the grace ends; nothing is assumed of
\* signals or of a hanging policy.
StopSpec ==
    /\ StopInit /\ [][StopNext]_stopVars
    /\ WF_stopVars(Stop)
    /\ \A c \in Calls :
          /\ WF_stopVars(Begin(c))
          /\ WF_stopVars(Serve(c) /\ Alone(c))
          /\ WF_stopVars(PolicyUnlocks(c) /\ Alone(c))
          /\ SF_stopVars(PolicyReturns(c) /\ Alone(c))

-----------------------------------------------------------------------------
(* Properties                                                              *)

\* No lock is left held and no thread waits forever: every call the server takes
\* is answered or, when the server stops first, cancelled, unless the policy hangs
\* in a server nobody stops.
EveryCallAnswered ==
    \A c \in Calls :
        (pc[c] # "done") ~> \/ pc[c] = "done"
                            \/ phase \in {"cancelled", "returned", "exited"}
                            \/ phase = "serving" /\ hung # {}

\* server.py:107: SIGTERM stops the server as Ctrl-C does.  run_server returns
\* whatever the policy does, and unless the policy hangs the process exits.
StopsCleanly ==
    (phase = "signalled") ~> /\ phase \in {"returned", "exited"}
                             /\ phase = "exited" \/ hung # {}
=============================================================================
