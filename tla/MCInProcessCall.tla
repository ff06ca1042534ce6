-------------------------- MODULE MCInProcessCall --------------------------
(***************************************************************************)
(* Instances of InProcessCall for model checking.                          *)
(***************************************************************************)
EXTENDS InProcessCall, TLC

\* One method is served twice over, by a registered handler and by a generic one
\* that would stream it; the second generic handler comes too late for "watch".
RegisteredHandlers == "/Egodriver/drive" :> "unary"

GenericHandlers ==
    << "/Egodriver/watch" :> "stream",
       "/Egodriver/drive" :> "stream" @@ "/Egodriver/watch" :> "unary"
           @@ "/Egodriver/close" :> "unary" >>

Plain(timeout) ==
    [metadata |-> "legal", timeout |-> timeout, serializes |-> TRUE, fits |-> TRUE,
     method |-> "/Egodriver/drive"]

\* Calls with a deadline, without one, with the 0 that means none; and one for each
\* check _invoke makes.
AllRequests ==
    {Plain(1), [Plain(1) EXCEPT !.method = "/Egodriver/close"], Plain(0), Plain(None), Plain(-1),
     [Plain(1) EXCEPT !.metadata = "type"], [Plain(1) EXCEPT !.metadata = "key"],
     [Plain(1) EXCEPT !.serializes = FALSE], [Plain(1) EXCEPT !.fits = FALSE],
     [Plain(1) EXCEPT !.method = "/Egodriver/watch"], [Plain(1) EXCEPT !.method = "/Egodriver/fly"]}
=============================================================================
