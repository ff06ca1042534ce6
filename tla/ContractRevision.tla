-------------------------- MODULE ContractRevision --------------------------
(***************************************************************************)
(* contract.py: peers of different releases agree on what a camera pose    *)
(* means.  A client of this release asks get_version which revision the    *)
(* server speaks, declares its cameras in it and says so with              *)
(* start_session; the server may be replaced by another release at any     *)
(* time, also between the two calls.                                       *)
(***************************************************************************)
EXTENDS Geometry

CONSTANTS
    Clients,
    Mount,    \* where the body of each client's camera is, as a message says it
    Junk,     \* a revision text that is no integer
    None      \* no metadata

ContractRevision == 2

LegacyRevision == 1

SupportedRevisions == {1, 2}

\* Releases of the package, and an upstream alpasim runtime as a client.
Servers == {"1.x", "2.x", "newer", "broken"}

Kinds(mode) ==
    {"2.x", "newer", "broken"} \cup (IF mode = "carla" THEN {"1.x"} ELSE {"alpasim"})

ASSUME RevisionAssumption ==
    /\ None \notin Int /\ Junk \notin Int /\ None # Junk
    /\ Mount \in [Clients -> Pose]

VARIABLES
    mode,       \* what the deployment's runtime is: "carla" or "alpasim"
    release,    \* the server's release
    replaced,   \* history: an older server took the place of the one a client asked
    kind,       \* each client's release
    pc,         \* "idle", "negotiated", "gave up", "refused" or "started"
    agreed,     \* the revision negotiate returned
    policy      \* what the policy of its session was handed

server == <<mode, release, replaced>>
client == <<kind, pc, agreed, policy>>
vars == <<server, client>>

Init ==
    /\ mode \in {"carla", "alpasim"}
    \* carla-driver-interface 1.x serves alpasim runtimes its own way.
    /\ release \in (IF mode = "carla" THEN Servers ELSE Servers \ {"1.x"})
    /\ replaced = [c \in Clients |-> FALSE]
    /\ kind \in [Clients -> Kinds(mode)]
    /\ pc = [c \in Clients |-> "idle"]
    /\ agreed = [c \in Clients |-> None]
    /\ policy = [c \in Clients |-> None]

-----------------------------------------------------------------------------
(* Camera poses                                                            *)

Body(c) == from_proto(Mount[c])

\* Seeded bug: the two turns are swapped.
BugCameraToRevision(pose, from, to) ==
    CASE from = to -> pose
      [] from # to /\ to = 1 -> body_to_optical(from_proto(pose))
      [] from # to /\ to # 1 -> optical_to_body(from_proto(pose))

\* The pose is copied as it is between equal revisions, an unset rotation included.
CameraToRevision(pose, from, to) ==
    CASE from = to -> pose
      [] from # to /\ to = 1 -> optical_to_body(from_proto(pose))
      [] from # to /\ to # 1 -> body_to_optical(from_proto(pose))

-----------------------------------------------------------------------------
(* Metadata                                                                *)

\* What a peer of a release puts in its metadata, unasked.
Declares(peer) ==
    CASE peer = "2.x" -> ContractRevision
      [] peer = "newer" -> 3
      [] peer = "broken" -> Junk
      [] OTHER -> None

\* Seeded bug: only the revision this release speaks is taken.
BugSupported(revision) == revision = ContractRevision

Supported(revision) == revision \in SupportedRevisions

\* read_revision raises when what is declared is no supported revision.
Readable(declared) == declared = None \/ Supported(declared)

ReadRevision(declared, default) == IF declared = None THEN default ELSE declared

DefaultRevision == IF mode = "alpasim" THEN ContractRevision ELSE LegacyRevision

-----------------------------------------------------------------------------
(* The client                                                              *)

GoTo(c, place) == pc' = [pc EXCEPT ![c] = place]

Negotiate(c) ==
    /\ pc[c] = "idle" /\ kind[c] = "2.x"
    /\ \/ /\ ~Readable(Declares(release))
          /\ GoTo(c, "gave up")
          /\ UNCHANGED agreed
       \/ /\ Readable(Declares(release))
          /\ agreed' = [agreed EXCEPT ![c] = ReadRevision(Declares(release), LegacyRevision)]
          /\ GoTo(c, "negotiated")
    /\ UNCHANGED <<server, kind, policy>>

\* Seeded bug: contract_metadata() without the revision agreed on.
BugSends(c) == Declares(kind[c])

\* The revision start_session comes with.
Sends(c) == IF kind[c] = "2.x" THEN agreed[c] ELSE Declares(kind[c])

\* The camera it comes with, a client of this release with its own in revision 2;
\* a 1.x client sends its body.
Camera(c) ==
    CASE kind[c] = "2.x" ->
           CameraToRevision(body_to_optical(Body(c)), ContractRevision, agreed[c])
      [] kind[c] = "1.x" -> Mount[c]
      [] OTHER -> body_to_optical(Body(c))

-----------------------------------------------------------------------------
(* The server                                                              *)

\* What start_session makes of the cameras for its policy.
Handed(c, revision) == CameraToRevision(Camera(c), revision, ContractRevision)

\* start_session on a server of this release.
Start(c) ==
    /\ release = "2.x"
    /\ \/ /\ ~Readable(Sends(c))
          /\ GoTo(c, "refused")
          /\ UNCHANGED policy
       \/ /\ Readable(Sends(c))
          /\ policy' = [policy EXCEPT
                ![c] = [release |-> release,
                        camera |-> Handed(c, ReadRevision(Sends(c), DefaultRevision))]]
          /\ GoTo(c, "started")
    /\ UNCHANGED <<server, kind, agreed>>

\* A 1.x server looks at no metadata and hands the cameras on as they are.
StartOnOlder(c) ==
    /\ release = "1.x"
    /\ policy' = [policy EXCEPT ![c] = [release |-> release, camera |-> Camera(c)]]
    /\ GoTo(c, "started")
    /\ UNCHANGED <<server, kind, agreed>>

StartSession(c) ==
    /\ pc[c] = IF kind[c] = "2.x" THEN "negotiated" ELSE "idle"
    /\ Start(c) \/ StartOnOlder(c)

\* The server is stopped and another release started in its place.
Replace(new) ==
    /\ new # release
    /\ mode = "alpasim" => new # "1.x"
    /\ release' = new
    /\ replaced' = [c \in Clients |->
                      replaced[c] \/ (agreed[c] = ContractRevision /\ new = "1.x")]
    /\ UNCHANGED <<mode, client>>

\* A session ends, and its client runs another: FakeLoop.run from the start.
Again(c) ==
    /\ pc[c] \in {"started", "refused", "gave up"}
    /\ GoTo(c, "idle")
    /\ agreed' = [agreed EXCEPT ![c] = None]
    /\ policy' = [policy EXCEPT ![c] = None]
    /\ replaced' = [replaced EXCEPT ![c] = FALSE]
    /\ UNCHANGED <<mode, release, kind>>

Next ==
    \/ \E c \in Clients : Negotiate(c) \/ StartSession(c) \/ Again(c)
    \/ \E new \in Servers : Replace(new)

Spec == Init /\ [][Next]_vars

-----------------------------------------------------------------------------
(* Properties                                                              *)

\* contract.py:26: whatever release the client is of and whatever server it had
\* asked before, a policy on this release sees cameras as revision 2 declares them.
PolicySeesOptical ==
    \A c \in Clients :
        pc[c] = "started" /\ policy[c].release = "2.x" =>
            FramesOfOneCamera(Body(c), from_proto(policy[c].camera))

\* contract.py:27: a 1.x policy gets a carla client's cameras as 1.x declares them,
\* unless its server took the place of a newer one after the client had asked.
OlderPolicySeesBody ==
    \A c \in Clients :
        /\ pc[c] = "started" /\ policy[c].release = "1.x"
        /\ kind[c] \in {"1.x", "2.x"} /\ ~replaced[c]
        => from_proto(policy[c].camera) = Body(c)

\* contract.py:28: supported releases always pair: a session is refused only to
\* a client that declares a revision this release does not know.
RefusedOnlyUnknown ==
    \A c \in Clients : pc[c] = "refused" => kind[c] \in {"newer", "broken"}
=============================================================================
