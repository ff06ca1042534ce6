---------------------------- MODULE T4SceneDriver ----------------------------
(***************************************************************************)
(* t4_scene.py's T4SceneDriver as the policy of an EgodriverServicer: a T4 *)
(* driver that keeps its state by session uuid, and the map resources its  *)
(* scenes refer to.                                                        *)
(*                                                                         *)
(* A T4 state is named by the start_session call it was made for.  The T4  *)
(* driver, the store that keeps the most recently registered maps, and the *)
(* codec are the devkit's, modelled from how t4_scene.py uses them.        *)
(***************************************************************************)
EXTENDS EgodriverServicer

CONSTANT MaxMaps \* MapResourceStore(max_maps=64)

ASSUME MaxMapsAssumption == MaxMaps \in Nat \ {0}

VARIABLES
    state,   \* the T4 driver's sessions: uuid -> the start it was made for
    t4lock,  \* _lock
    read,    \* _read: the maps read, in order
    store,   \* _store: the maps registered, the latest last
    place,   \* where a drive is in T4SceneDriver.drive
    used,    \* history: the T4 states a drive's model worked on
    cause    \* history: what a drive raised

t4vars == <<state, t4lock, read, store, place, used, cause>>
allvars == <<vars, t4vars>>

T4Init ==
    /\ Init
    /\ state = [u \in Uuids |-> None]
    /\ t4lock = None
    /\ read = <<>> /\ store = <<>>
    /\ place = [c \in Calls |-> "outside"]
    /\ used = [c \in Calls |-> {}]
    /\ cause = [c \in Calls |-> "nothing"]

-----------------------------------------------------------------------------
(* Sessions                                                                *)

\* Seeded bug: the T4 driver does not hear of the session.
BugBegin(c) == state

\* scene_driver.start_session(uuid)
Begin(c) == [state EXCEPT ![req[c].uuid] = obj[c]]

\* Seeded bug: the T4 driver is not told of the end.
BugEnd(c) == state

\* scene_driver.close_session(uuid), whoever has the uuid by now.
End(c) == [state EXCEPT ![req[c].uuid] = None]

OnSessionStart(c) ==
    /\ Is(c, "start_session") /\ HookReturns(c)
    /\ state' = Begin(c)
    /\ UNCHANGED <<t4lock, read, store, place, used, cause>>

OnSessionClose(c) ==
    /\ Is(c, "close_session") /\ HookReturns(c)
    /\ state' = End(c)
    /\ UNCHANGED <<t4lock, read, store, place, used, cause>>

\* The hooks T4SceneDriver leaves to BaseDriver, and a T4 driver that refuses.
OtherHook(c) ==
    /\ \/ ~Is(c, "start_session") /\ ~Is(c, "close_session") /\ HookReturns(c)
       \/ HookRaises(c)
    /\ UNCHANGED t4vars

-----------------------------------------------------------------------------
(* drive                                                                   *)

At(c, where) == pc[c] = "planning" /\ place[c] = where

Enter(c) ==
    /\ At(c, "outside") /\ t4lock = None
    /\ t4lock' = c
    /\ place' = [place EXCEPT ![c] = "scene"]
    /\ UNCHANGED <<vars, state, read, store, used, cause>>

\* Seeded bug: an exception leaves the lock held.
BugLeave(c) == t4lock

\* with self._lock
Leave(c) == None

Raise(c, what) ==
    /\ DriveRaises(c)
    /\ cause' = [cause EXCEPT ![c] = what]
    /\ place' = [place EXCEPT ![c] = "raised"]

NoScene(c) ==
    /\ At(c, "scene") /\ RendererData(c) = None
    /\ Raise(c, "no scene")
    /\ t4lock' = Leave(c)
    /\ UNCHANGED <<state, read, store, used>>

\* MapResourceStore.register, of a map the store has not got: the most recent
\* max_maps are kept.
Registering(s, m) == Trimmed(Append(s, m), MaxMaps)

\* Seeded bug: a map is looked for in the store, which lets maps go.
BugReadBefore(m) == m \in Range(store)

ReadBefore(m) == m \in Range(read)

\* _map_store: a map set's resource is read once.
MapStore(c) ==
    /\ At(c, "scene") /\ RendererData(c) # None
    /\ \/ /\ MapId(c) = None \/ ReadBefore(MapId(c))
          /\ place' = [place EXCEPT ![c] = "decode"]
          /\ UNCHANGED <<vars, t4lock, read, store, cause>>
       \/ /\ MapId(c) # None /\ ~ReadBefore(MapId(c))
          /\ read' = Append(read, MapId(c))
          /\ store' = Registering(store, MapId(c))
          /\ place' = [place EXCEPT ![c] = "decode"]
          /\ UNCHANGED <<vars, t4lock, cause>>
       \/ /\ MapId(c) # None /\ ~ReadBefore(MapId(c))
          /\ Raise(c, "unreadable")
          /\ t4lock' = Leave(c)
          /\ UNCHANGED <<read, store>>
    /\ UNCHANGED <<state, used>>

\* Seeded bug: a map the store let go is not registered again.
BugResolving(m) == store

\* from_proto fails on a map that is not registered, which then is, again.
Resolving(m) == IF m \in Range(store) THEN store ELSE Registering(store, m)

Decode(c) ==
    /\ At(c, "decode")
    /\ \/ /\ MapId(c) = None
          /\ place' = [place EXCEPT ![c] = "driving"]
          /\ UNCHANGED <<vars, t4lock, store, cause>>
       \/ /\ MapId(c) # None
          /\ store' = Resolving(MapId(c))
          /\ IF MapId(c) \in Range(store')
             THEN /\ place' = [place EXCEPT ![c] = "driving"]
                  /\ UNCHANGED <<vars, t4lock, cause>>
             ELSE Raise(c, "not registered") /\ t4lock' = Leave(c)
       \/ /\ Raise(c, "undecodable")
          /\ t4lock' = Leave(c)
          /\ UNCHANGED store
    /\ UNCHANGED <<state, read, used>>

\* The model works on the uuid's state from here, for as long as it takes.
BeginModel(c) ==
    /\ At(c, "driving")
    /\ used' = [used EXCEPT ![c] = {state[req[c].uuid]}]
    /\ place' = [place EXCEPT ![c] = "model"]
    /\ UNCHANGED <<vars, state, t4lock, read, store, cause>>

EndModel(c) ==
    /\ At(c, "model")
    /\ used' = [used EXCEPT ![c] = @ \cup {state[req[c].uuid]}]
    /\ \/ /\ place' = [place EXCEPT ![c] = "result"]
          /\ UNCHANGED <<vars, cause>>
       \/ Raise(c, "model")
    /\ t4lock' = Leave(c)
    /\ UNCHANGED <<state, read, store>>

\* result: outside the lock, and a plan of the wrong shape or spacing is refused.
Result(c) ==
    /\ At(c, "result")
    /\ \/ /\ DriveReturns(c)
          /\ UNCHANGED <<place, cause>>
       \/ Raise(c, "result")
    /\ UNCHANGED <<state, t4lock, read, store, used>>

-----------------------------------------------------------------------------
T4Policy(c) ==
    \/ OnSessionStart(c) \/ OnSessionClose(c) \/ OtherHook(c)
    \/ Enter(c) \/ NoScene(c) \/ MapStore(c) \/ Decode(c)
    \/ BeginModel(c) \/ EndModel(c) \/ Result(c)

T4Next ==
    \/ \E c \in Calls : \/ (Arrive(c) \/ Serve(c)) /\ UNCHANGED t4vars
                        \/ T4Policy(c)
    \/ Idle /\ UNCHANGED t4vars

T4Spec == T4Init /\ [][T4Next]_allvars

-----------------------------------------------------------------------------
(* Properties                                                              *)

\* "One drive at a time": the lock is held by exactly the drive that decodes its
\* scene or is in the model, however drives end.
OneDriveAtATime ==
    \A c \in Calls : At(c, "scene") \/ At(c, "decode") \/ At(c, "driving") \/ At(c, "model")
                     <=> t4lock = c

\* A drive whose map set could be read never fails for its map, whatever other
\* maps were registered since it was read, and each map set is read once.
MapAlwaysResolved ==
    /\ \A c \in Calls : cause[c] # "not registered"
    /\ IsInjective(read)
    /\ Range(store) \subseteq Range(read) /\ Len(store) <= MaxMaps

\* Another session under s's uuid was being started or closed when s's own start
\* was asked for, or later.
Beside(s) ==
    \E k \in Calls \ before[s] :
        /\ Is(k, "start_session") \/ Is(k, "close_session")
        /\ req[k].uuid = req[s].uuid /\ obj[k] \notin {s, None}

\* A drive asked for after its session had started works on the T4 state made for
\* that session from its first to its last moment, unless the session is closed,
\* or a start or close of another session of its uuid is under way beside it.
OwnT4State ==
    \A c \in Calls :
        LET s == obj[c] IN
        /\ Is(c, "drive") /\ s # None /\ s \in before[c]
        => used[c] \subseteq {s} \/ TakenByClose(s) \/ Beside(s)

\* The T4 driver keeps no state of a session whose close is answered, if it was
\* asked for after the session had started.
NoT4StateLeft ==
    \A k \in Calls :
        /\ Is(k, "close_session") /\ pc[k] = "done" /\ reply[k].status = "OK"
        /\ obj[k] # None /\ obj[k] \in before[k]
        => state[req[k].uuid] # obj[k]
=============================================================================
