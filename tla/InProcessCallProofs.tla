------------------------- MODULE InProcessCallProofs -------------------------
(***************************************************************************)
(* Theorems about InProcessCall, for any number of calls on a channel, any *)
(* handlers, requests and deadlines, and any number of callbacks.          *)
(***************************************************************************)
EXTENDS InProcessCall, TLAPS

Places == {"none", "refused", "parsing", "handling", "raising", "finishing", "calling back", "done"}

Types ==
    /\ pc \in [Calls -> Places]
    /\ status \in [Calls -> Codes \cup {None, "UNKNOWN", "CANCELLED"}]
    /\ aborted \in [Calls -> BOOLEAN]
    /\ active \in [Calls -> BOOLEAN]
    /\ callbacks \in [Calls -> Nat]
    /\ accepted \in [Calls -> Nat]
    /\ ran \in [Calls -> Nat]
    /\ DOMAIN ending = Calls /\ DOMAIN outcome = Calls

\* Callbacks are neither lost nor run twice, and once a call has ended no more come.
Balanced(c) ==
    /\ accepted[c] = ran[c] + callbacks[c]
    /\ pc[c] \in {"calling back", "done"} => ~active[c]
    /\ pc[c] = "done" => callbacks[c] = 0

\* What an aborted call ends with is a failure, and so is what its client is handed.
Failing(c) ==
    /\ aborted[c] /\ pc[c] \in {"finishing", "calling back", "done"}
          => ending[c].code # "response"
    /\ aborted[c] /\ pc[c] = "done"
          => outcome[c].how \in {"raised", "held"} /\ outcome[c].result.code # "response"

Inv == Types /\ \A c \in Calls : Balanced(c) /\ Failing(c)

LEMMA InvInit == Init => Inv
  BY DEF Init, Inv, Types, Balanced, Failing, Places

\* A failure keeps the code the servicer set, which is no response.
LEMMA FailedIsNoResponse ==
    ASSUME Types, NEW c \in Calls, NEW code, code # "response"
    PROVE  Failed(c, code).code # "response"
  BY ChannelAssumption DEF Failed, Status, Types

\* No form of call makes a response of a failure.
LEMMA HandedFailure ==
    ASSUME NEW form, NEW result, result.code # "response"
    PROVE  /\ Handed(form, result).how \in {"raised", "held"}
           /\ Handed(form, result).result.code # "response"
  BY DEF Handed, Read

LEMMA EndsAborted ==
    ASSUME Inv, NEW c \in Calls, aborted[c], pc[c] = "calling back", NEW result \in Ends(c)
    PROVE  result.code # "response"
  <1>1. ending[c].code # "response"
    BY DEF Inv, Failing
  <1>2. CASE GivesUp(c)
    <2>1. Ends(c) = {Status("DEADLINE_EXCEEDED", {})}
      BY <1>2 DEF Ends
    <2>2. result = Status("DEADLINE_EXCEEDED", {})
      BY <2>1
    <2>3. QED
      BY <2>2 DEF Status
  <1>3. CASE ~GivesUp(c)
    <2>1. result = ending[c]
      BY <1>1, <1>3 DEF Ends
    <2>2. QED
      BY <1>1, <2>1
  <1>4. QED
    BY <1>2, <1>3

LEMMA InvStep == Inv /\ [Next]_vars => Inv'
  <1> SUFFICES ASSUME Inv, [Next]_vars PROVE Inv'
    OBVIOUS
  <1> USE DEF GoTo, context, termination
  <1>1. CASE UNCHANGED vars
    BY <1>1 DEF vars, Inv, Types, Balanced, Failing
  <1>2. CASE Tick \/ Close \/ Idle
    BY <1>1, <1>2 DEF Tick, Close, Idle, Inv, Types, Balanced, Failing
  <1>3. ASSUME NEW c \in Calls, NEW r \in Requests, Refuse(c, r) \/ Invoke(c, r) PROVE Inv'
    <2>1. /\ UNCHANGED <<status, aborted, active, callbacks, accepted, ran, ending>>
          /\ pc[c] = "none" /\ pc' \in [Calls -> Places] /\ pc'[c] \in {"refused", "parsing"}
          /\ DOMAIN outcome' = Calls
          /\ \A k \in Calls \ {c} : pc'[k] = pc[k] /\ outcome'[k] = outcome[k]
      BY <1>3, ZenonT(60) DEF Refuse, Invoke, Inv, Types, Places
    <2>2. \A k \in Calls : Balanced(k)' /\ Failing(k)'
      BY <2>1, ZenonT(60) DEF Inv, Balanced, Failing
    <2>3. QED
      BY <2>1, <2>2 DEF Inv, Types
  <1>4. ASSUME NEW c \in Calls,
               Parse(c) \/ SetCode(c) \/ SendInitialMetadata(c) \/ SetTrailingMetadata(c)
               \/ Raise(c) \/ Catch(c) \/ Abort(c)
        PROVE  Inv'
    <2>1. Types'
      <3>1. UNCHANGED <<active, callbacks, accepted, ran, ending, outcome>>
        BY <1>4 DEF Parse, SetCode, SendInitialMetadata, SetTrailingMetadata, Raise, Catch, Abort
      <3>2. pc' \in [Calls -> Places]
        BY <1>4, ZenonT(60) DEF Parse, SetCode, SendInitialMetadata, SetTrailingMetadata, Raise, Catch, Abort,
           Inv, Types, Places
      <3>3. CASE UNCHANGED <<status, aborted>>
        BY <3>1, <3>2, <3>3 DEF Inv, Types
      <3>4. CASE SetCode(c)
        BY <3>1, <3>2, <3>4 DEF SetCode, Inv, Types
      <3>5. CASE Abort(c)
        <4>1. PICK code \in Codes \cup {"CANCELLED"} :
                  status' = [status EXCEPT ![c] = IF code = "OK" THEN "UNKNOWN" ELSE code]
          BY <3>5 DEF Abort
        <4>2. status' \in [Calls -> Codes \cup {None, "UNKNOWN", "CANCELLED"}]
          BY <4>1 DEF Inv, Types
        <4>3. aborted' \in [Calls -> BOOLEAN]
          BY <3>5 DEF Abort, Inv, Types
        <4>4. QED
          BY <3>1, <3>2, <4>2, <4>3 DEF Inv, Types
      <3>6. QED
        BY <1>4, <3>3, <3>4, <3>5
        DEF Parse, SendInitialMetadata, SetTrailingMetadata, Raise, Catch
    <2>2. /\ UNCHANGED <<callbacks, accepted, ran, active, ending, outcome>>
          /\ pc[c] \in {"parsing", "handling", "raising"}
          /\ pc'[c] \in {"parsing", "handling", "raising"}
          /\ \A k \in Calls \ {c} : pc'[k] = pc[k] /\ aborted'[k] = aborted[k]
      BY <1>4 DEF Parse, SetCode, SendInitialMetadata, SetTrailingMetadata, Raise, Catch, Abort,
         Inv, Types
    <2>3. \A k \in Calls : Balanced(k)' /\ Failing(k)'
      BY <2>2 DEF Inv, Balanced, Failing
    <2>4. QED
      BY <2>1, <2>3 DEF Inv
  <1>5. ASSUME NEW c \in Calls, ParseFails(c) \/ HandlerRaises(c) \/ HandlerReturns(c)
        PROVE  Inv'
    <2>1. Types'
      <3>1. UNCHANGED <<status, aborted, callbacks, accepted, ran, outcome>>
        BY <1>5 DEF ParseFails, HandlerRaises, HandlerReturns, Conclude
      <3>2. /\ pc' = [pc EXCEPT ![c] = "finishing"] \/ pc' = [pc EXCEPT ![c] = "calling back"]
            /\ UNCHANGED active \/ active' = [active EXCEPT ![c] = FALSE]
            /\ \E result : ending' = [ending EXCEPT ![c] = result]
        BY <1>5 DEF ParseFails, HandlerRaises, HandlerReturns, Conclude
      <3>3. QED
        BY <3>1, <3>2 DEF Inv, Types, Places
    <2>2. /\ UNCHANGED <<callbacks, accepted, ran, aborted, outcome>>
          /\ pc'[c] = "finishing" \/ (pc'[c] = "calling back" /\ ~active'[c])
          /\ \A k \in Calls \ {c} :
                pc'[k] = pc[k] /\ active'[k] = active[k] /\ ending'[k] = ending[k]
      BY <1>5 DEF ParseFails, HandlerRaises, HandlerReturns, Conclude, Inv, Types
    <2>3. aborted[c] => ending'[c].code # "response"
      <3> SUFFICES ASSUME aborted[c] PROVE ending'[c].code # "response"
        OBVIOUS
      <3>1. PICK code \in {"INTERNAL", "UNKNOWN"} :
                ending' = [ending EXCEPT ![c] = Failed(c, code)]
        BY <1>5 DEF ParseFails, HandlerRaises, HandlerReturns, StillAborted, Conclude
      <3>2. Failed(c, code).code # "response"
        BY FailedIsNoResponse DEF Inv
      <3>3. QED
        BY <3>1, <3>2 DEF Inv, Types
    <2>4. \A k \in Calls : Balanced(k)' /\ Failing(k)'
      BY <2>2, <2>3 DEF Inv, Balanced, Failing
    <2>5. QED
      BY <2>1, <2>4 DEF Inv
  <1>6. ASSUME NEW c \in Calls, AddCallback(c) \/ Finish(c) \/ CallBack(c) PROVE Inv'
    <2>1. Types'
      <3>1. CASE AddCallback(c)
        BY <3>1 DEF AddCallback, Inv, Types
      <3>2. CASE Finish(c)
        BY <3>2 DEF Finish, Inv, Types, Places
      <3>3. CASE CallBack(c)
        <4>1. callbacks[c] \in Nat /\ ran[c] \in Nat
          BY DEF Inv, Types
        <4>2. callbacks[c] > 0
          BY <3>3 DEF CallBack
        <4>3. callbacks[c] - 1 \in Nat /\ ran[c] + 1 \in Nat
          BY <4>1, <4>2
        <4>4. /\ callbacks' = [callbacks EXCEPT ![c] = callbacks[c] - 1]
              /\ ran' = [ran EXCEPT ![c] = ran[c] + 1]
              /\ UNCHANGED <<pc, status, aborted, active, accepted, ending, outcome>>
          BY <3>3 DEF CallBack
        <4>5. QED
          BY <4>3, <4>4 DEF Inv, Types
      <3>4. QED
        BY <1>6, <3>1, <3>2, <3>3
    <2>2. Balanced(c)'
      <3>0. callbacks[c] \in Nat /\ accepted[c] \in Nat /\ ran[c] \in Nat /\ Balanced(c)
        BY DEF Inv, Types
      <3>5. accepted[c] = ran[c] + callbacks[c]
        BY <3>0 DEF Balanced
      <3>1. CASE AddCallback(c)
        <4>1. /\ accepted'[c] = accepted[c] + 1 /\ callbacks'[c] = callbacks[c] + 1
              /\ UNCHANGED <<ran, active, pc>> /\ active[c]
          BY <3>1 DEF AddCallback, TakesCallbacks, Inv, Types
        <4>2. accepted[c] + 1 = ran[c] + (callbacks[c] + 1)
          BY <3>0, <3>5
        <4>3. QED
          BY <3>0, <4>1, <4>2 DEF Balanced
      <3>2. CASE Finish(c)
        BY <3>0, <3>2 DEF Finish, Inv, Types, Balanced
      <3>3. CASE CallBack(c)
        <4>1. /\ ran'[c] = ran[c] + 1 /\ callbacks'[c] = callbacks[c] - 1
              /\ UNCHANGED <<accepted, active, pc>> /\ pc[c] = "calling back"
          BY <3>3 DEF CallBack, Inv, Types
        <4>2. accepted[c] = (ran[c] + 1) + (callbacks[c] - 1)
          BY <3>0, <3>5
        <4>3. QED
          BY <3>0, <4>1, <4>2 DEF Balanced
      <3>4. QED
        BY <1>6, <3>1, <3>2, <3>3
    <2>3. \A k \in Calls \ {c} : Balanced(k)'
      BY <1>6, ZenonT(60) DEF AddCallback, Finish, CallBack, Inv, Types, Balanced
    <2>4. \A k \in Calls : Failing(k)'
      BY <1>6, ZenonT(60) DEF AddCallback, Finish, CallBack, Inv, Types, Failing
    <2>5. QED
      BY <2>1, <2>2, <2>3, <2>4 DEF Inv
  <1>7. ASSUME NEW c \in Calls, Return(c) PROVE Inv'
    <2>1. PICK form \in Forms, result \in Ends(c) :
              outcome' = [outcome EXCEPT ![c] = Handed(form, result)]
      BY <1>7 DEF Return
    <2>2. aborted[c] => outcome'[c].how \in {"raised", "held"} /\ outcome'[c].result.code # "response"
      BY <1>7, <2>1, EndsAborted, HandedFailure, ZenonT(60) DEF Return, Inv, Types
    <2>3. /\ UNCHANGED <<status, aborted, active, callbacks, accepted, ran, ending>>
          /\ pc[c] = "calling back" /\ callbacks[c] = 0 /\ pc' = [pc EXCEPT ![c] = "done"]
      BY <1>7 DEF Return
    <2>4. Types'
      BY <2>1, <2>3 DEF Inv, Types, Places
    <2>5. \A k \in Calls : Balanced(k)'
      BY <2>3 DEF Inv, Types, Balanced
    <2>6. \A k \in Calls \ {c} : outcome'[k] = outcome[k] /\ pc'[k] = pc[k]
      BY <2>1, <2>3 DEF Inv, Types
    <2>7. \A k \in Calls : Failing(k)'
      <3>1. Failing(c)'
        <4>1. aborted[c] => ending[c].code # "response"
          BY <2>3 DEF Inv, Failing
        <4>2. QED
          BY <2>2, <2>3, <4>1 DEF Failing
      <3>2. \A k \in Calls \ {c} : Failing(k)'
        BY <2>3, <2>6 DEF Inv, Failing
      <3>3. QED
        BY <3>1, <3>2
    <2>8. QED
      BY <2>4, <2>5, <2>7 DEF Inv
  <1>8. QED
    BY <1>1, <1>2, <1>3, <1>4, <1>5, <1>6, <1>7 DEF Next

\* However threads race to register callbacks with a call that ends, every one that
\* was accepted has run by the time the call returns, and once.
THEOREM CallbacksHold == Spec => []CallbacksRunOnce
  <1>1. Inv => CallbacksRunOnce
    <2> SUFFICES ASSUME Inv, NEW c \in Calls, pc[c] = "done"
                 PROVE  ran[c] = accepted[c] /\ callbacks[c] = 0
      BY DEF CallbacksRunOnce
    <2>1. ran[c] \in Nat /\ accepted[c] = ran[c] + callbacks[c] /\ callbacks[c] = 0
      BY DEF Inv, Types, Balanced
    <2>2. QED
      BY <2>1
  <1>2. QED
    BY <1>1, InvInit, InvStep, PTL DEF Spec

\* A servicer that has aborted never answers its client a response, whatever it
\* catches or sets afterwards and whichever way it was called.
THEOREM AbortsHold == Spec => []AbortedNeverAnswers
  <1>1. Inv => AbortedNeverAnswers
    BY DEF Inv, Failing, AbortedNeverAnswers
  <1>2. QED
    BY <1>1, InvInit, InvStep, PTL DEF Spec

-----------------------------------------------------------------------------
(* The channel implements a call over the wire                             *)

WireTypes ==
    /\ now \in Int
    /\ deadline \in [Calls -> Int \cup {None}]
    /\ metadata \in [Calls -> SUBSET {"initial", "trailing"}]

\* A call not made yet has no deadline; one whose servicer is through has a status for
\* its client, and a response comes with the metadata its servicer sent.
Ended(c) ==
    /\ pc[c] = "none" => deadline[c] = None
    /\ pc[c] \in {"finishing", "calling back", "done"}
          => /\ ending[c] \in Results
             /\ ending[c].code = "response" => ending[c] = Status("response", metadata[c])

WireInv == Inv /\ WireTypes /\ \A c \in Calls : Ended(c)

LEMMA WireInvInit == Init => WireInv
  BY InvInit DEF Init, WireInv, WireTypes, Ended

\* Whatever fails in the servicer, its client gets a status of the wire.
LEMMA FailedIsResult ==
    ASSUME Types, WireTypes, NEW c \in Calls,
           NEW code \in Codes \cup {"UNKNOWN", "INTERNAL", "CANCELLED"}
    PROVE  Failed(c, code) \in Results /\ Failed(c, code).code # "response"
  <1> DEFINE failed == IF status[c] = None THEN code ELSE status[c]
  <1>1. failed \in Codes \cup {"UNKNOWN", "INTERNAL", "CANCELLED"}
    BY DEF Types
  <1>2. failed # "response"
    BY <1>1, ChannelAssumption
  <1>3. Failed(c, code) = [code |-> failed, metadata |-> metadata[c]]
    BY DEF Failed, Status
  <1>4. metadata[c] \in SUBSET {"initial", "trailing"}
    BY DEF WireTypes
  <1>5. failed \in Codes \cup Unusable \cup {"UNKNOWN", "CANCELLED", "response"}
    BY <1>1 DEF Unusable
  <1> HIDE DEF failed
  <1>6. QED
    BY <1>2, <1>3, <1>4, <1>5 DEF Results

LEMMA ResponseIsResult ==
    ASSUME WireTypes, NEW c \in Calls
    PROVE  Status("response", metadata[c]) \in Results
  BY DEF WireTypes, Status, Results

\* How a call ends: with a failure, or with a response and the metadata sent.
Over(c) ==
    \E result \in Results :
        /\ ending' = [ending EXCEPT ![c] = result]
        /\ result.code = "response" => result = Status("response", metadata[c])

LEMMA EndOfServe ==
    ASSUME WireInv, NEW c \in Calls, ParseFails(c) \/ HandlerRaises(c) \/ HandlerReturns(c)
    PROVE  Over(c) /\ UNCHANGED <<now, deadline, context, outcome>>
           /\ (pc' = [pc EXCEPT ![c] = "finishing"] \/ pc' = [pc EXCEPT ![c] = "calling back"])
           /\ pc[c] \in {"parsing", "handling", "raising"}
  <1>1. ASSUME NEW code \in Codes \cup {"UNKNOWN", "INTERNAL", "CANCELLED"},
               ending' = [ending EXCEPT ![c] = Failed(c, code)]
        PROVE  Over(c)
    BY <1>1, FailedIsResult DEF Over, WireInv, Inv
  <1>2. ASSUME ending' = [ending EXCEPT ![c] = Status("response", metadata[c])]
        PROVE  Over(c)
    <2>1. Status("response", metadata[c]) \in Results
      BY ResponseIsResult DEF WireInv
    <2>2. \E result \in Results :
              /\ ending' = [ending EXCEPT ![c] = result]
              /\ result.code = "response" => result = Status("response", metadata[c])
      BY <1>2, <2>1
    <2>3. QED
      BY <2>2 DEF Over
  <1>3. CASE ParseFails(c)
    BY <1>1, <1>3 DEF ParseFails, GoTo
  <1>4. CASE HandlerRaises(c)
    BY <1>1, <1>4 DEF HandlerRaises, Conclude, GoTo
  <1>5. CASE HandlerReturns(c)
    <2>1. status[c] \notin {None, "OK"} => status[c] \in Codes \cup {"UNKNOWN", "CANCELLED"}
      BY DEF WireInv, Inv, Types
    <2>2. QED
      BY <1>1, <1>2, <1>5, <2>1 DEF HandlerReturns, Conclude, GoTo
  <1>6. QED
    BY <1>3, <1>4, <1>5

LEMMA WireInvStep == WireInv /\ [Next]_vars => WireInv'
  <1> SUFFICES ASSUME WireInv, [Next]_vars PROVE WireInv'
    OBVIOUS
  <1>0. Inv'
    BY InvStep DEF WireInv
  <1> USE DEF GoTo, context, termination
  <1>1. CASE UNCHANGED vars
    BY <1>0, <1>1 DEF vars, WireInv, WireTypes, Ended
  <1>2. CASE Tick \/ Close \/ Idle
    <2>1. UNCHANGED <<pc, deadline, metadata, ending>> /\ now' \in Int
      BY <1>2 DEF Tick, Close, Idle, vars, WireInv, WireTypes
    <2>2. QED
      BY <1>0, <2>1 DEF WireInv, WireTypes, Ended
  <1>3. ASSUME NEW c \in Calls, NEW r \in Requests, Refuse(c, r) \/ Invoke(c, r) PROVE WireInv'
    <2>1. r.timeout \in Int \cup {None}
      BY ChannelAssumption DEF Request
    <2>2. Deadline(r.timeout) \in Int \cup {None}
      BY <2>1 DEF Deadline, WireInv, WireTypes
    <2>3. UNCHANGED <<now, metadata, ending>> /\ deadline' \in [Calls -> Int \cup {None}]
      BY <1>3, <2>2 DEF Refuse, Invoke, WireInv, WireTypes
    <2>4. pc'[c] \in {"refused", "parsing"} /\ \A k \in Calls \ {c} : pc'[k] = pc[k]
      BY <1>3 DEF Refuse, Invoke, WireInv, Inv, Types
    <2>5. \A k \in Calls \ {c} : deadline'[k] = deadline[k]
      BY <1>3 DEF Refuse, Invoke, WireInv, WireTypes
    <2>6. QED
      BY <1>0, <2>3, <2>4, <2>5 DEF WireInv, WireTypes, Ended
  <1>4. ASSUME NEW c \in Calls,
               Parse(c) \/ SetCode(c) \/ SendInitialMetadata(c) \/ SetTrailingMetadata(c)
               \/ Raise(c) \/ Catch(c) \/ Abort(c)
        PROVE  WireInv'
    <2>1. UNCHANGED <<now, deadline, ending>>
      BY <1>4 DEF Parse, SetCode, SendInitialMetadata, SetTrailingMetadata, Raise, Catch, Abort
    <2>2. /\ \A k \in Calls \ {c} : pc'[k] = pc[k] /\ metadata'[k] = metadata[k]
          /\ pc'[c] \in {"handling", "raising"}
          /\ metadata' \in [Calls -> SUBSET {"initial", "trailing"}]
      BY <1>4 DEF Parse, SetCode, SendInitialMetadata, SetTrailingMetadata, Raise, Catch, Abort,
         WireInv, WireTypes, Inv, Types
    <2>3. QED
      BY <1>0, <2>1, <2>2 DEF WireInv, WireTypes, Ended
  <1>5. ASSUME NEW c \in Calls, ParseFails(c) \/ HandlerRaises(c) \/ HandlerReturns(c)
        PROVE  WireInv'
    <2>1. PICK result \in Results :
              /\ ending' = [ending EXCEPT ![c] = result]
              /\ result.code = "response" => result = Status("response", metadata[c])
      BY <1>5, EndOfServe DEF Over
    <2>2. /\ UNCHANGED <<now, deadline, metadata>>
          /\ pc' = [pc EXCEPT ![c] = "finishing"] \/ pc' = [pc EXCEPT ![c] = "calling back"]
      BY <1>5, EndOfServe
    <2>3. ending'[c] = result /\ pc'[c] # "none"
      BY <2>1, <2>2 DEF WireInv, Inv, Types
    <2>4. \A k \in Calls \ {c} : pc'[k] = pc[k] /\ ending'[k] = ending[k]
      BY <2>1, <2>2 DEF WireInv, Inv, Types
    <2>5. \A k \in Calls : Ended(k)'
      BY <2>1, <2>2, <2>3, <2>4 DEF WireInv, Ended
    <2>6. QED
      BY <1>0, <2>2, <2>5 DEF WireInv, WireTypes
  <1>6. ASSUME NEW c \in Calls, AddCallback(c) \/ Finish(c) \/ CallBack(c) \/ Return(c)
        PROVE  WireInv'
    <2>1. UNCHANGED <<now, deadline, metadata, ending>>
      BY <1>6 DEF AddCallback, Finish, CallBack, Return
    <2>2. \A k \in Calls :
              \/ pc'[k] = pc[k]
              \/ /\ pc[k] \in {"finishing", "calling back"}
                 /\ pc'[k] \in {"calling back", "done"}
      BY <1>6 DEF AddCallback, Finish, CallBack, Return, WireInv, Inv, Types
    <2>3. \A k \in Calls : Ended(k)'
      BY <2>1, <2>2 DEF WireInv, Ended
    <2>4. QED
      BY <1>0, <2>1, <2>3 DEF WireInv, WireTypes
  <1>7. QED
    BY <1>1, <1>2, <1>3, <1>4, <1>5, <1>6 DEF Next

\* What the wire sees of a call.
Same(k) ==
    /\ ClientAt(k)' = ClientAt(k) /\ ServerAt(k)' = ServerAt(k)
    /\ Answer(k)' = Answer(k) /\ Late(k)' = Late(k)

LEMMA SameCall ==
    ASSUME NEW k \in Calls, pc'[k] = pc[k], outcome'[k] = outcome[k],
           pc[k] = "done" => metadata'[k] = metadata[k],
           deadline'[k] = deadline[k], now' = now
    PROVE  Same(k)
  <1>1. GaveUp(k)' = GaveUp(k)
    BY DEF GaveUp
  <1>2. ClientAt(k)' = ClientAt(k)
    BY <1>1 DEF ClientAt
  <1>3. ServerAt(k)' = ServerAt(k)
    BY DEF ServerAt
  <1>4. ClientAt(k) = "answered" => pc[k] = "done"
    BY DEF ClientAt
  <1>5. Answer(k)' = Answer(k)
    BY <1>2, <1>4 DEF Answer, Status
  <1>6. Late(k)' = Late(k)
    BY DEF Late
  <1>7. QED
    BY <1>2, <1>3, <1>5, <1>6 DEF Same

LEMMA Stutters ==
    ASSUME \A k \in Calls : Same(k), UNCHANGED ending
    PROVE  UNCHANGED Wire!vars
  BY DEF Wire!vars, Same

\* The variables of the wire, function by function, when one call moves.
LEMMA OneMoves ==
    ASSUME NEW c \in Calls, \A k \in Calls \ {c} : Same(k)
    PROVE  /\ [k \in Calls |-> ClientAt(k)]'
                 = [[k \in Calls |-> ClientAt(k)] EXCEPT ![c] = ClientAt(c)']
           /\ [k \in Calls |-> ServerAt(k)]'
                 = [[k \in Calls |-> ServerAt(k)] EXCEPT ![c] = ServerAt(c)']
           /\ [k \in Calls |-> Answer(k)]'
                 = [[k \in Calls |-> Answer(k)] EXCEPT ![c] = Answer(c)']
           /\ Late(c)' = Late(c) => UNCHANGED [k \in Calls |-> Late(k)]
  BY DEF Same

\* A call that is made: refused on the spot, or sent.
LEMMA Starts ==
    ASSUME WireInv, NEW c \in Calls, NEW r \in Requests, Refuse(c, r) \/ Invoke(c, r)
    PROVE  Wire!Start(c, "refused") \/ Wire!Start(c, "waiting")
  <1>1. /\ UNCHANGED <<now, metadata, ending>> /\ pc[c] = "none"
        /\ \A k \in Calls \ {c} :
              pc'[k] = pc[k] /\ outcome'[k] = outcome[k] /\ deadline'[k] = deadline[k]
        /\ pc'[c] \in {"refused", "parsing"}
    BY DEF Refuse, Invoke, GoTo, context, WireInv, WireTypes, Inv, Types
  <1>2. \A k \in Calls \ {c} : Same(k)
    BY <1>1, SameCall
  <1>3. /\ ClientAt(c) = "none" /\ ClientAt(c)' \in {"refused", "waiting"}
        /\ ServerAt(c)' = ServerAt(c)
    BY <1>1 DEF ClientAt, ServerAt, GaveUp
  <1>4. Answer(c)' = Answer(c)
    BY <1>3 DEF Answer
  <1>5. Late(c)' = Late(c)
    <2>1. ~Late(c)
      BY <1>1 DEF Late, WireInv, Ended
    <2>2. CASE Refuse(c, r)
      BY <2>2, <2>1 DEF Refuse, Late
    <2>3. CASE Invoke(c, r)
      <3>1. deadline'[c] = Deadline(r.timeout) /\ now' = now
        BY <2>3 DEF Invoke, WireInv, WireTypes
      <3>2. r.timeout \in Int \cup {None} /\ None \notin Int
        BY ChannelAssumption DEF Request
      <3>3. r.timeout = None \/ ~(r.timeout < 0)
        BY <2>3 DEF Invoke, Refusal
      <3>4. Deadline(r.timeout) # None => ~(now > Deadline(r.timeout))
        BY <3>2, <3>3 DEF Deadline, WireInv, WireTypes
      <3>5. QED
        BY <2>1, <3>1, <3>4 DEF Late
    <2>4. QED
      BY <2>2, <2>3
  <1>6. QED
    BY <1>1, <1>2, <1>3, <1>4, <1>5, OneMoves DEF Wire!Start

\* The servicer gets the request.
LEMMA Handles ==
    ASSUME WireInv, NEW c \in Calls, Parse(c)
    PROVE  Wire!Handle(c)
  <1>1. /\ UNCHANGED <<now, metadata, ending, outcome, deadline>> /\ pc[c] = "parsing"
        /\ \A k \in Calls \ {c} : pc'[k] = pc[k]
        /\ pc'[c] = "handling"
    BY DEF Parse, GoTo, context, WireInv, Inv, Types
  <1>2. \A k \in Calls \ {c} : Same(k)
    BY <1>1, SameCall
  <1>3. /\ ClientAt(c) = "waiting" /\ ClientAt(c)' = ClientAt(c)
        /\ ServerAt(c) = "none" /\ ServerAt(c)' = "handling"
    BY <1>1 DEF ClientAt, ServerAt, GaveUp
  <1>4. Answer(c)' = Answer(c)
    BY <1>3 DEF Answer
  <1>5. Late(c)' = Late(c)
    BY <1>1 DEF Late
  <1>6. QED
    BY <1>1, <1>2, <1>3, <1>4, <1>5, OneMoves DEF Wire!Handle

\* The servicer is through.
LEMMA Concludes ==
    ASSUME WireInv, NEW c \in Calls, ParseFails(c) \/ HandlerRaises(c) \/ HandlerReturns(c)
    PROVE  Wire!End(c)
  <1>1. /\ UNCHANGED <<now, metadata, outcome, deadline>> /\ Over(c)
        /\ pc[c] \in {"parsing", "handling", "raising"}
        /\ \A k \in Calls \ {c} : pc'[k] = pc[k]
        /\ pc'[c] \in {"finishing", "calling back"}
    BY EndOfServe, ZenonT(60) DEF context, WireInv, Inv, Types
  <1>2. \A k \in Calls \ {c} : Same(k)
    BY <1>1, SameCall
  <1>3. /\ ClientAt(c) = "waiting" /\ ClientAt(c)' = ClientAt(c)
        /\ ServerAt(c) # "ended" /\ ServerAt(c)' = "ended"
    BY <1>1 DEF ClientAt, ServerAt, GaveUp
  <1>4. Answer(c)' = Answer(c)
    BY <1>3 DEF Answer
  <1>5. Late(c)' = Late(c)
    BY <1>1 DEF Late
  <1>6. \E result \in Results : ending' = [ending EXCEPT ![c] = result]
    BY <1>1 DEF Over
  <1>7. QED
    BY <1>2, <1>3, <1>4, <1>5, <1>6, OneMoves DEF Wire!End

\* What each form hands over can be read, and only a bare response hides its metadata.
LEMMA HandedParts ==
    ASSUME NEW form \in Forms, NEW result
    PROVE  /\ Handed(form, result).result = Read(form, result)
           /\ Handed(form, result).how = "bare" <=> form = "call" /\ result.code = "response"
  <1>1. Handed(form, result).result = Read(form, result)
    BY DEF Handed
  <1>2. CASE result.code \in Misuse
    BY <1>2 DEF Handed, Misuse
  <1>3. CASE result.code \notin Misuse /\ form = "future"
    BY <1>3 DEF Handed
  <1>4. CASE result.code = "response" /\ form # "future"
    BY <1>4 DEF Handed, Misuse, Forms
  <1>5. CASE result.code \notin Misuse /\ form # "future" /\ result.code # "response"
    BY <1>5 DEF Handed
  <1>6. QED
    BY <1>1, <1>2, <1>3, <1>4, <1>5 DEF Misuse

\* The client gets the status, or what it makes of a response it cannot take; or it
\* has given up.
LEMMA Returns ==
    ASSUME WireInv, NEW c \in Calls, Return(c)
    PROVE  Wire!Deliver(c) \/ Wire!GiveUp(c)
  <1>1. PICK form \in Forms, result \in Ends(c) :
            outcome' = [outcome EXCEPT ![c] = Handed(form, result)]
    BY DEF Return
  <1>2. /\ UNCHANGED <<now, metadata, ending, deadline>>
        /\ pc[c] = "calling back" /\ pc'[c] = "done"
        /\ \A k \in Calls \ {c} : pc'[k] = pc[k] /\ outcome'[k] = outcome[k]
        /\ outcome'[c] = Handed(form, result)
    BY <1>1 DEF Return, GoTo, context, WireInv, Inv, Types
  <1>3. \A k \in Calls \ {c} : Same(k)
    BY <1>2, SameCall
  <1>4. ClientAt(c) = "waiting" /\ ServerAt(c) = "ended" /\ ServerAt(c)' = ServerAt(c)
    BY <1>2 DEF ClientAt, ServerAt, GaveUp
  <1>5. Late(c)' = Late(c)
    BY <1>2 DEF Late
  <1>6. outcome'[c].result = Read(form, result)
        /\ (outcome'[c].how = "bare" <=> form = "call" /\ result.code = "response")
    <2>1. form \in Forms
      BY <1>1
    <2>2. /\ Handed(form, result).result = Read(form, result)
          /\ Handed(form, result).how = "bare" <=> form = "call" /\ result.code = "response"
      BY <2>1, HandedParts
    <2> HIDE DEF Handed, Read
    <2>3. QED
      BY <1>2, <2>2
  <1>7. result.code # "response" => Read(form, result) = result
    BY DEF Read
  <1>8. /\ ending[c] \in Results
        /\ ending[c].code = "response" => ending[c] = Status("response", metadata[c])
    BY <1>2 DEF WireInv, Ended
  <1>9. CASE GivesUp(c)
    <2>1. result = Status("DEADLINE_EXCEEDED", {})
      BY <1>9 DEF Ends
    <2>2. result.code = "DEADLINE_EXCEEDED" /\ result.code # "response"
      BY <2>1 DEF Status
    <2>3. ClientAt(c)' = "gave up"
      BY <1>2, <1>6, <1>7, <2>2 DEF ClientAt, GaveUp
    <2>4. Answer(c)' = Answer(c)
      BY <1>4, <2>3 DEF Answer
    <2>5. Late(c)
      BY <1>9 DEF GivesUp
    <2>6. QED
      BY <1>2, <1>3, <1>4, <1>5, <2>3, <2>4, <2>5, OneMoves DEF Wire!GiveUp
  <1>10. CASE ~GivesUp(c)
    <2>1. ~Late(c)
      BY <1>10 DEF GivesUp
    <2>2. \/ result = ending[c]
          \/ /\ ending[c].code = "response"
             /\ \E code \in Unusable : result = Status(code, metadata[c])
      BY <1>10 DEF Ends
    <2>3. result.code # "DEADLINE_EXCEEDED"
      <3>1. ending[c].code # "DEADLINE_EXCEEDED"
        BY <1>8, ChannelAssumption DEF Results, Unusable
      <3>2. QED
        BY <2>2, <3>1 DEF Status, Unusable
    <2>4. Read(form, result).code = result.code
      BY DEF Read, Status
    <2>5. ClientAt(c)' = "answered"
      BY <1>2, <1>6, <2>3, <2>4 DEF ClientAt, GaveUp
    <2>6. Answer(c)' = result
      <3>1. CASE outcome'[c].how = "bare"
        <4>1. result = Status("response", metadata[c])
          BY <1>6, <1>8, <2>2, <3>1 DEF Status, Unusable
        <4>2. QED
          BY <1>2, <2>5, <3>1, <4>1 DEF Answer, Status
      <3>2. CASE outcome'[c].how # "bare"
        <4>1. form = "call" => result.code # "response"
          BY <1>6, <3>2
        <4>2. Read(form, result) = result
          BY <4>1 DEF Read
        <4>3. QED
          BY <1>6, <2>5, <3>2, <4>2 DEF Answer
      <3>3. QED
        BY <3>1, <3>2
    <2>7. \/ Answer(c)' = ending[c]
          \/ /\ ending[c].code = "response"
             /\ Answer(c)' \in {Status(code, ending[c].metadata) : code \in Unusable}
      BY <1>8, <2>2, <2>6 DEF Status
    <2>8. QED
      BY <1>2, <1>3, <1>4, <1>5, <2>1, <2>5, <2>7, OneMoves DEF Wire!Deliver
  <1>11. QED
    BY <1>9, <1>10

\* Time passes for every call.
LEMMA Passes ==
    ASSUME WireInv, Tick
    PROVE  Wire!Pass
  <1>1. UNCHANGED <<pc, metadata, ending, outcome, deadline>> /\ now' = now + 1
    BY DEF Tick, context
  <1>2. \A k \in Calls : /\ ClientAt(k)' = ClientAt(k) /\ ServerAt(k)' = ServerAt(k)
                         /\ Answer(k)' = Answer(k)
    BY <1>1 DEF ClientAt, ServerAt, Answer, GaveUp, Status
  <1>3. ASSUME NEW k \in Calls, Late(k) PROVE Late(k)'
    <2>1. deadline[k] \in Int /\ now \in Int /\ now > deadline[k]
      BY <1>3 DEF Late, WireInv, WireTypes
    <2>2. now + 1 > deadline[k]
      BY <2>1
    <2>3. QED
      BY <1>1, <1>3, <2>2 DEF Late
  <1> DEFINE late == {k \in Calls : Late(k)'}
  <1>4. \A k \in Calls : Late(k)' = (Late(k) \/ k \in late)
    BY <1>3 DEF Late
  <1>5. [k \in Calls |-> Late(k)]' = [k \in Calls |-> Late(k) \/ k \in late]
    BY <1>4
  <1>6. late \in SUBSET Calls
    OBVIOUS
  <1> HIDE DEF late
  <1>7. [k \in Calls |-> Late(k)]' =
            [k \in Calls |-> [j \in Calls |-> Late(j)][k] \/ k \in late]
    BY <1>5
  <1>8. QED
    BY <1>1, <1>2, <1>6, <1>7 DEF Wire!Pass

LEMMA WireStep == WireInv /\ [Next]_vars => [Wire!Next]_Wire!vars
  <1> SUFFICES ASSUME WireInv, [Next]_vars PROVE [Wire!Next]_Wire!vars
    OBVIOUS
  <1>1. ASSUME NEW c \in Calls, NEW r \in Requests, Refuse(c, r) \/ Invoke(c, r)
        PROVE  Wire!Next
    BY <1>1, Starts DEF Wire!Next
  <1>2. ASSUME NEW c \in Calls, Parse(c) PROVE Wire!Next
    BY <1>2, Handles DEF Wire!Next
  <1>3. ASSUME NEW c \in Calls, ParseFails(c) \/ HandlerRaises(c) \/ HandlerReturns(c)
        PROVE  Wire!Next
    BY <1>3, Concludes DEF Wire!Next
  <1>4. ASSUME NEW c \in Calls, Return(c) PROVE Wire!Next
    BY <1>4, Returns DEF Wire!Next
  <1>5. ASSUME Tick PROVE Wire!Next
    BY <1>5, Passes DEF Wire!Next
  <1>6. ASSUME NEW c \in Calls,
               SetCode(c) \/ SendInitialMetadata(c) \/ SetTrailingMetadata(c) \/ Abort(c)
               \/ Raise(c) \/ Catch(c) \/ AddCallback(c) \/ Finish(c) \/ CallBack(c)
        PROVE  UNCHANGED Wire!vars
    <2>1. /\ UNCHANGED <<now, deadline, outcome, ending>>
          /\ \A k \in Calls \ {c} : pc'[k] = pc[k] /\ metadata'[k] = metadata[k]
      BY <1>6 DEF SetCode, SendInitialMetadata, SetTrailingMetadata, Abort, Raise, Catch,
         AddCallback, Finish, CallBack, GoTo, context, termination,
         WireInv, WireTypes, Inv, Types
    <2>2. \/ pc[c] \in {"handling", "raising"} /\ pc'[c] \in {"handling", "raising"}
          \/ pc[c] = "finishing" /\ pc'[c] = "calling back"
          \/ UNCHANGED <<pc, metadata>>
      BY <1>6 DEF SetCode, SendInitialMetadata, SetTrailingMetadata, Abort, Raise, Catch,
         AddCallback, Finish, CallBack, GoTo, context, WireInv, Inv, Types
    <2>3. \A k \in Calls \ {c} : Same(k)
      BY <2>1, SameCall
    <2>4. Same(c)
      <3>1. CASE UNCHANGED <<pc, metadata>>
        BY <2>1, <3>1, SameCall
      <3>2. CASE ~UNCHANGED <<pc, metadata>>
        <4>1. /\ pc[c] \in {"handling", "raising", "finishing"}
              /\ pc'[c] \in {"handling", "raising", "calling back"}
              /\ pc[c] = "finishing" <=> pc'[c] = "calling back"
          BY <2>2, <3>2
        <4>2. ClientAt(c) = "waiting" /\ ClientAt(c)' = "waiting" /\ ServerAt(c)' = ServerAt(c)
          BY <4>1 DEF ClientAt, ServerAt, GaveUp
        <4>3. Answer(c)' = Answer(c)
          BY <4>2 DEF Answer
        <4>4. Late(c)' = Late(c)
          BY <2>1 DEF Late
        <4>5. QED
          BY <4>2, <4>3, <4>4 DEF Same
      <3>3. QED
        BY <3>1, <3>2
    <2>5. QED
      BY <2>1, <2>3, <2>4, Stutters
  <1>7. ASSUME Close \/ Idle \/ UNCHANGED vars PROVE UNCHANGED Wire!vars
    <2>1. UNCHANGED <<now, pc, deadline, metadata, ending, outcome>>
      BY <1>7 DEF Close, Idle, vars, context
    <2>2. QED
      BY <2>1, SameCall, Stutters
  <1>8. QED
    BY <1>1, <1>2, <1>3, <1>4, <1>5, <1>6, <1>7 DEF Next

\* A client of the channel sees what a client on a socket would: every behaviour of
\* InProcessCall is one of WireCall.
THEOREM ChannelIsAWire == Spec => ImplementsWire
  <1>1. Init => Wire!Init
    BY DEF Init, Wire!Init, ClientAt, ServerAt, Answer, GaveUp, Late
  <1>2. QED
    BY <1>1, WireInvInit, WireInvStep, WireStep, PTL DEF Spec, ImplementsWire, Wire!Spec
=============================================================================
