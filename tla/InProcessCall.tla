--------------------------- MODULE InProcessCall ---------------------------
(***************************************************************************)
(* inprocess.py: calls on an InProcessChannel.  _invoke runs the servicer  *)
(* on the calling thread, so the client's half and the server's take turns *)
(* in one call; other threads make calls of their own, close the channel,  *)
(* and register termination callbacks with a context a handler gave them.  *)
(***************************************************************************)
EXTENDS Integers, FiniteSets, FiniteSetsExt

CONSTANTS
    Calls,
    Requests,     \* what the clients ask for
    Registered,   \* _registered: the handlers by method
    Generics,     \* _generic_handlers: a sequence of handlers by method
    Codes,        \* statuses a servicer may set or abort with
    MaxClock,     \* the last instant (bounds a run)
    MaxCallbacks, \* callbacks registered with a call (bounds a run)
    None          \* Python's None

\* What _invoke looks at before the servicer runs.
Request ==
    [metadata : {"legal", "type", "key"}, timeout : Int \cup {None},
     serializes : BOOLEAN, fits : BOOLEAN, method : STRING]

ASSUME ChannelAssumption ==
    /\ Requests \subseteq Request
    /\ MaxClock \in Nat /\ MaxCallbacks \in Nat
    /\ None \notin Codes \cup Int
    /\ Codes \cap {"response", "DEADLINE_EXCEEDED"} = {}

VARIABLES
    closed,    \* _closed
    now,       \* time.time()
    pc,        \* where each call is
    deadline,  \* its deadline or None
    status,    \* _ServicerContext.status_code
    aborted,   \* _ServicerContext.aborted
    metadata,  \* the metadata its servicer sent: a subset of {"initial", "trailing"}
    active,    \* _ServicerContext._active
    callbacks, \* how many termination callbacks are registered and not yet run
    accepted,  \* history: how many add_callback accepted
    ran,       \* history: how many ran
    ending,    \* what _serve ended with
    outcome    \* what the client got

context == <<status, aborted, metadata>>
termination == <<active, callbacks, accepted, ran>>
vars == <<closed, now, pc, deadline, context, termination, ending, outcome>>

\* How a call ended: a code, and the metadata that came with it.
Status(code, sent) == [code |-> code, metadata |-> sent]

\* The ways to make a call: __call__, with_call and future.
Forms == {"call", "with_call", "future"}

\* What is no InProcessRpcError: the caller's own mistake.
Misuse == {"ValueError", "TypeError", "NotImplementedError"}

\* What can be read of it: __call__ drops the _Call its response came with, and the
\* _Future reads it, or the error in its place.
Read(form, result) ==
    IF form = "call" /\ result.code = "response" THEN Status("response", {}) ELSE result

\* What the caller is left with: a future holds a response and an RPC error alike.
Handed(form, result) ==
    [how |-> CASE result.code \in Misuse -> "raised"
               [] result.code \notin Misuse /\ form = "future" -> "held"
               [] result.code = "response" /\ form = "with_call" -> "paired"
               [] result.code = "response" /\ form = "call" -> "bare"
               [] OTHER -> "raised",
     result |-> Read(form, result)]

Init ==
    /\ closed = FALSE /\ now = 0
    /\ pc = [c \in Calls |-> "none"]
    /\ deadline = [c \in Calls |-> None]
    /\ status = [c \in Calls |-> None]
    /\ aborted = [c \in Calls |-> FALSE]
    /\ metadata = [c \in Calls |-> {}]
    /\ active = [c \in Calls |-> TRUE]
    /\ callbacks = [c \in Calls |-> 0]
    /\ accepted = [c \in Calls |-> 0]
    /\ ran = [c \in Calls |-> 0]
    /\ ending = [c \in Calls |-> None]
    /\ outcome = [c \in Calls |-> None]

GoTo(c, place) == pc' = [pc EXCEPT ![c] = place]

Tick ==
    /\ now < MaxClock
    /\ now' = now + 1
    /\ UNCHANGED <<closed, pc, deadline, context, termination, ending, outcome>>

Close ==
    /\ ~closed
    /\ closed' = TRUE
    /\ UNCHANGED <<now, pc, deadline, context, termination, ending, outcome>>

-----------------------------------------------------------------------------
(* _invoke, up to the servicer                                             *)

\* The kind of the method's handler: a registered one first, then that of the first
\* generic handler which has one.
Handler(method) ==
    LET serving == {i \in DOMAIN Generics : method \in DOMAIN Generics[i]}
    IN  CASE method \in DOMAIN Registered -> Registered[method]
          [] method \notin DOMAIN Registered /\ serving # {} -> Generics[Min(serving)][method]
          [] OTHER -> "none"

\* The first of _invoke's checks the request fails; "none" when it may be served.
Refusal(r) ==
    CASE closed -> "ValueError"
      [] r.metadata = "type" -> "TypeError"
      [] r.metadata = "key" -> "INTERNAL"
      [] r.timeout # None /\ r.timeout < 0 -> "DEADLINE_EXCEEDED"
      [] ~r.serializes -> "INTERNAL"
      [] ~r.fits -> "RESOURCE_EXHAUSTED"
      [] Handler(r.method) = "none" -> "UNIMPLEMENTED"
      [] Handler(r.method) = "stream" -> "NotImplementedError"
      [] OTHER -> "none"

\* timeout=0 is no deadline at all.
Deadline(timeout) == IF timeout \in {None, 0} THEN None ELSE now + timeout

Refuse(c, r) ==
    /\ pc[c] = "none" /\ Refusal(r) # "none"
    /\ \E form \in Forms :
          outcome' = [outcome EXCEPT ![c] = Handed(form, Status(Refusal(r), {}))]
    /\ GoTo(c, "refused")
    /\ UNCHANGED <<closed, now, deadline, context, termination, ending>>

Invoke(c, r) ==
    /\ pc[c] = "none" /\ Refusal(r) = "none"
    /\ deadline' = [deadline EXCEPT ![c] = Deadline(r.timeout)]
    /\ GoTo(c, "parsing")
    /\ UNCHANGED <<closed, now, context, termination, ending, outcome>>

-----------------------------------------------------------------------------
(* _serve and the context it hands the servicer                            *)

Failed(c, code) ==
    Status(IF status[c] = None THEN code ELSE status[c], metadata[c])

\* _serve is over for c; its finally calls finish().
Conclude(c, result) ==
    /\ ending' = [ending EXCEPT ![c] = result]
    /\ GoTo(c, "finishing")
    /\ UNCHANGED <<closed, now, deadline, context, termination, outcome>>

Parse(c) ==
    /\ pc[c] = "parsing"
    /\ GoTo(c, "handling")
    /\ UNCHANGED <<closed, now, deadline, context, termination, ending, outcome>>

\* No servicer has the context yet, so no thread can race with its finish().
ParseFails(c) ==
    /\ pc[c] = "parsing"
    /\ ending' = [ending EXCEPT ![c] = Failed(c, "INTERNAL")]
    /\ active' = [active EXCEPT ![c] = FALSE]
    /\ GoTo(c, "calling back")
    /\ UNCHANGED <<closed, now, deadline, context, callbacks, accepted, ran, outcome>>

SetCode(c) ==
    /\ pc[c] = "handling"
    /\ \E code \in Codes : status' = [status EXCEPT ![c] = code]
    /\ UNCHANGED <<closed, now, pc, deadline, aborted, metadata, termination, ending, outcome>>

\* A second send_initial_metadata raises.
SendInitialMetadata(c) ==
    /\ pc[c] = "handling"
    /\ \/ "initial" \in metadata[c] /\ GoTo(c, "raising") /\ UNCHANGED metadata
       \/ /\ "initial" \notin metadata[c]
          /\ metadata' = [metadata EXCEPT ![c] = @ \cup {"initial"}]
          /\ UNCHANGED pc
    /\ UNCHANGED <<closed, now, deadline, status, aborted, termination, ending, outcome>>

SetTrailingMetadata(c) ==
    /\ pc[c] = "handling"
    /\ metadata' = [metadata EXCEPT ![c] = @ \cup {"trailing"}]
    /\ UNCHANGED <<closed, now, pc, deadline, status, aborted, termination, ending, outcome>>

\* abort and cancel: abort(OK) becomes UNKNOWN, and either raises.
Abort(c) ==
    /\ pc[c] = "handling"
    /\ \E code \in Codes \cup {"CANCELLED"} :
          status' = [status EXCEPT ![c] = IF code = "OK" THEN "UNKNOWN" ELSE code]
    /\ aborted' = [aborted EXCEPT ![c] = TRUE]
    /\ GoTo(c, "raising")
    /\ UNCHANGED <<closed, now, deadline, metadata, termination, ending, outcome>>

Raise(c) ==
    /\ pc[c] = "handling"
    /\ GoTo(c, "raising")
    /\ UNCHANGED <<closed, now, deadline, context, termination, ending, outcome>>

\* The servicer catches what was raised, its own abort included, and goes on.
Catch(c) ==
    /\ pc[c] = "raising"
    /\ GoTo(c, "handling")
    /\ UNCHANGED <<closed, now, deadline, context, termination, ending, outcome>>

HandlerRaises(c) == pc[c] = "raising" /\ Conclude(c, Failed(c, "UNKNOWN"))

\* Seeded bug: a servicer that swallows its abort gets away with it.
BugStillAborted(c) == FALSE

StillAborted(c) == aborted[c]

HandlerReturns(c) ==
    /\ pc[c] = "handling"
    /\ \/ StillAborted(c) /\ Conclude(c, Failed(c, "UNKNOWN"))
       \/ ~StillAborted(c) /\ Conclude(c, Failed(c, "INTERNAL"))
       \/ /\ ~StillAborted(c) /\ status[c] \notin {None, "OK"}
          /\ Conclude(c, Failed(c, status[c]))
       \/ /\ ~StillAborted(c) /\ status[c] \in {None, "OK"}
          /\ Conclude(c, Status("response", metadata[c]))

\* Seeded bug: a context takes callbacks after its call has ended.
BugTakesCallbacks(c) == TRUE

TakesCallbacks(c) == active[c]

\* The servicer, or a thread it gave the context to, registers a callback.
AddCallback(c) ==
    /\ pc[c] \notin {"none", "refused", "parsing"}
    /\ accepted[c] < MaxCallbacks /\ TakesCallbacks(c)
    /\ callbacks' = [callbacks EXCEPT ![c] = @ + 1]
    /\ accepted' = [accepted EXCEPT ![c] = @ + 1]
    /\ UNCHANGED <<closed, now, pc, deadline, context, active, ran, ending, outcome>>

\* finish's critical section.
Finish(c) ==
    /\ pc[c] = "finishing"
    /\ active' = [active EXCEPT ![c] = FALSE]
    /\ GoTo(c, "calling back")
    /\ UNCHANGED <<closed, now, deadline, context, callbacks, accepted, ran, ending, outcome>>

\* A callback that raises is logged.
CallBack(c) ==
    /\ pc[c] = "calling back" /\ callbacks[c] > 0
    /\ callbacks' = [callbacks EXCEPT ![c] = @ - 1]
    /\ ran' = [ran EXCEPT ![c] = @ + 1]
    /\ UNCHANGED <<closed, now, pc, deadline, context, active, accepted, ending, outcome>>

-----------------------------------------------------------------------------
(* _invoke, after the servicer                                             *)

Late(c) == deadline[c] # None /\ now > deadline[c]

\* Seeded bug: the deadline is looked at for a response only.
BugGivesUp(c) == Late(c) /\ ending[c].code = "response"

\* The deadline hides a late response and a late failure alike.
GivesUp(c) == Late(c)

\* A response too large to receive, or that cannot be parsed.
Unusable == {"RESOURCE_EXHAUSTED", "INTERNAL"}

\* What _invoke makes of the end of _serve.
Ends(c) ==
    IF GivesUp(c) THEN {Status("DEADLINE_EXCEEDED", {})}
    ELSE {ending[c]} \cup (IF ending[c].code # "response" THEN {}
                          ELSE {Status(code, metadata[c]) : code \in Unusable})

Return(c) ==
    /\ pc[c] = "calling back" /\ callbacks[c] = 0
    /\ \E form \in Forms, result \in Ends(c) :
          outcome' = [outcome EXCEPT ![c] = Handed(form, result)]
    /\ GoTo(c, "done")
    /\ UNCHANGED <<closed, now, deadline, context, termination, ending>>

AllOver == \A c \in Calls : pc[c] \in {"refused", "done"}

Idle == AllOver /\ UNCHANGED vars

Next ==
    \/ \E c \in Calls :
          \/ \E r \in Requests : Refuse(c, r) \/ Invoke(c, r)
          \/ Parse(c) \/ ParseFails(c) \/ SetCode(c) \/ SendInitialMetadata(c)
          \/ SetTrailingMetadata(c) \/ Abort(c) \/ Raise(c) \/ Catch(c)
          \/ HandlerRaises(c) \/ HandlerReturns(c) \/ AddCallback(c) \/ Finish(c)
          \/ CallBack(c) \/ Return(c)
    \/ Tick \/ Close \/ Idle

Spec == Init /\ [][Next]_vars

-----------------------------------------------------------------------------
(* The channel implements a call over the wire                             *)

GaveUp(c) == pc[c] = "done" /\ outcome[c].result.code = "DEADLINE_EXCEEDED"

ClientAt(c) ==
    CASE pc[c] \in {"none", "refused"} -> pc[c]
      [] GaveUp(c) -> "gave up"
      [] pc[c] = "done" /\ ~GaveUp(c) -> "answered"
      [] OTHER -> "waiting"

\* The end of the call as its client saw it; a bare response shows no metadata.
Answer(c) ==
    CASE ClientAt(c) # "answered" -> None
      [] ClientAt(c) = "answered" /\ outcome[c].how = "bare" -> Status("response", metadata[c])
      [] OTHER -> outcome[c].result

ServerAt(c) ==
    CASE pc[c] \in {"none", "refused", "parsing"} -> "none"
      [] pc[c] \in {"handling", "raising"} -> "handling"
      [] OTHER -> "ended"

Results ==
    [code : Codes \cup Unusable \cup {"UNKNOWN", "CANCELLED", "response"},
     metadata : SUBSET {"initial", "trailing"}]

Wire == INSTANCE WireCall WITH
    Succeeds <- LAMBDA r : r.code = "response",
    Local <- LAMBDA r : {Status(code, r.metadata) : code \in Unusable},
    client <- [c \in Calls |-> ClientAt(c)],
    answer <- [c \in Calls |-> Answer(c)],
    server <- [c \in Calls |-> ServerAt(c)],
    result <- ending,
    expired <- [c \in Calls |-> Late(c)]

-----------------------------------------------------------------------------
(* Properties                                                              *)

\* inprocess.py:28: a client of the channel sees what one on a socket would: the
\* servicer's status and metadata, or its own deadline, even for a late abort.
ImplementsWire == Wire!Spec

\* Every callback add_callback accepted has run, once, by the time the call returns,
\* however the threads that register them race with its end.
CallbacksRunOnce ==
    \A c \in Calls : pc[c] = "done" => ran[c] = accepted[c] /\ callbacks[c] = 0

\* A servicer that aborts on its own thread never answers a response, whatever it
\* catches, whatever status it sets afterwards and whichever way it was called.
AbortedNeverAnswers ==
    \A c \in Calls : aborted[c] /\ pc[c] = "done" =>
        /\ outcome[c].how \in {"raised", "held"}
        /\ outcome[c].result.code # "response"
=============================================================================
