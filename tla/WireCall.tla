------------------------------ MODULE WireCall ------------------------------
(***************************************************************************)
(* A unary call between a gRPC client and a gRPC server, as both see it:   *)
(* the client refuses the call itself, gets the server's status, or gives  *)
(* up at its deadline, whatever the server has done or will still do.      *)
(***************************************************************************)
CONSTANTS
    Calls,
    Results,     \* what a server ends a call with: a status with metadata
    None,        \* no result yet
    Succeeds(_), \* whether a result is a response
    Local(_)     \* what the client may make of a response it cannot take

VARIABLES
    client,      \* "none", "waiting", "refused", "answered" or "gave up"
    answer,      \* the result the client got
    server,      \* "none", "handling" or "ended"
    result,      \* what the server ended with
    expired      \* whether the deadline of the call has passed

vars == <<client, answer, server, result, expired>>

Init ==
    /\ client = [c \in Calls |-> "none"] /\ answer = [c \in Calls |-> None]
    /\ server = [c \in Calls |-> "none"] /\ result = [c \in Calls |-> None]
    /\ expired = [c \in Calls |-> FALSE]

Start(c, to) ==
    /\ client[c] = "none"
    /\ client' = [client EXCEPT ![c] = to]
    /\ UNCHANGED <<answer, server, result, expired>>

Handle(c) ==
    /\ client[c] # "none" /\ server[c] = "none"
    /\ server' = [server EXCEPT ![c] = "handling"]
    /\ UNCHANGED <<client, answer, result, expired>>

End(c) ==
    /\ client[c] # "none" /\ server[c] # "ended"
    /\ server' = [server EXCEPT ![c] = "ended"]
    /\ \E r \in Results : result' = [result EXCEPT ![c] = r]
    /\ UNCHANGED <<client, answer, expired>>

\* The server's status arrives in time.
Deliver(c) ==
    /\ client[c] = "waiting" /\ server[c] = "ended" /\ ~expired[c]
    /\ client' = [client EXCEPT ![c] = "answered"]
    /\ \/ answer' = [answer EXCEPT ![c] = result[c]]
       \/ /\ Succeeds(result[c])
          /\ \E r \in Local(result[c]) : answer' = [answer EXCEPT ![c] = r]
    /\ UNCHANGED <<server, result, expired>>

GiveUp(c) ==
    /\ client[c] = "waiting" /\ expired[c]
    /\ client' = [client EXCEPT ![c] = "gave up"]
    /\ UNCHANGED <<answer, server, result, expired>>

\* Time passes; a deadline that has passed stays so.
Pass ==
    /\ \E late \in SUBSET Calls :
          expired' = [c \in Calls |-> expired[c] \/ c \in late]
    /\ UNCHANGED <<client, answer, server, result>>

Next ==
    \/ \E c \in Calls :
          \/ Start(c, "refused") \/ Start(c, "waiting")
          \/ Handle(c) \/ End(c) \/ Deliver(c) \/ GiveUp(c)
    \/ Pass

Spec == Init /\ [][Next]_vars
=============================================================================
