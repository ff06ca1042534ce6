-------------------------- MODULE PolicyLifecycle --------------------------
(***************************************************************************)
(* What BaseDriver (driver.py) promises a policy about the order its hooks *)
(* are called in, per rollout: on_session_start once, before anything      *)
(* else; observation hooks and drive only while the rollout is open, from  *)
(* any number of threads; on_session_close once, after all of them; and    *)
(* nothing for a rollout the policy refused.  A call its client has given  *)
(* up is the one exception: its hook may still run, or be called, when     *)
(* on_session_close is and after it.                                       *)
(***************************************************************************)
CONSTANTS
    Rollouts,
    Threads

VARIABLES
    phase,   \* where each rollout is
    active,  \* the threads inside an observation hook or drive of it
    stray    \* the threads whose call was given up

vars == <<phase, active, stray>>

Phases == {"none", "starting", "refused", "open", "closing", "closed"}

Init ==
    /\ phase = [r \in Rollouts |-> "none"]
    /\ active = [r \in Rollouts |-> {}]
    /\ stray = [r \in Rollouts |-> {}]

Become(r, from, to) ==
    /\ phase[r] = from
    /\ phase' = [phase EXCEPT ![r] = to]
    /\ UNCHANGED <<active, stray>>

Start(r) == Become(r, "none", "starting")

Accept(r) == Become(r, "starting", "open")

Refuse(r) == Become(r, "starting", "refused")

Enter(r, t) ==
    /\ \/ phase[r] = "open"
       \/ phase[r] \in {"closing", "closed"} /\ t \in stray[r]
    /\ t \notin active[r]
    /\ active' = [active EXCEPT ![r] = @ \cup {t}]
    /\ UNCHANGED <<phase, stray>>

Leave(r, t) ==
    /\ t \in active[r]
    /\ active' = [active EXCEPT ![r] = @ \ {t}]
    /\ UNCHANGED <<phase, stray>>

\* The client stops waiting, wherever the call is.
GiveUp(r, t) ==
    /\ stray' = [stray EXCEPT ![r] = @ \cup {t}]
    /\ UNCHANGED <<phase, active>>

Close(r) == active[r] \subseteq stray[r] /\ Become(r, "open", "closing")

Closed(r) == Become(r, "closing", "closed")

Next ==
    \E r \in Rollouts :
        \/ Start(r) \/ Accept(r) \/ Refuse(r) \/ Close(r) \/ Closed(r)
        \/ \E t \in Threads : Enter(r, t) \/ Leave(r, t) \/ GiveUp(r, t)

Spec == Init /\ [][Next]_vars
=============================================================================
