----------------------- MODULE ContractRevisionProofs -----------------------
(***************************************************************************)
(* Theorems about ContractRevision, for any number of clients and any      *)
(* sequence of servers.                                                    *)
(***************************************************************************)
EXTENDS ContractRevision, TLAPS

\* A message's pose, read, has a rotation, and reading it again changes nothing.
Rotated(pose) == pose \in Pose /\ ~Unset(pose.rotation)

LEMMA Reading ==
    ASSUME NEW pose \in Pose
    PROVE  Rotated(from_proto(pose)) /\ (~Unset(pose.rotation) => from_proto(pose) = pose)
  <1>1. Identity \in Matrix /\ ~Unset(Identity)
    BY DEF Identity, Matrix, Axes, Unset
  <1>2. QED
    BY <1>1 DEF Rotated, from_proto, Pose

\* A turn of a rotation by either matrix, entry by entry.
LEMMA TurnEntries ==
    ASSUME NEW m \in Matrix
    PROVE  /\ Times(m, BODY_TO_OPTICAL) =
                 [i \in Axes |-> [j \in Axes |->
                    IF j = 1 THEN -m[i][2] ELSE IF j = 2 THEN -m[i][3] ELSE m[i][1]]]
           /\ Times(m, Transposed(BODY_TO_OPTICAL)) =
                 [i \in Axes |-> [j \in Axes |->
                    IF j = 1 THEN m[i][3] ELSE IF j = 2 THEN -m[i][1] ELSE -m[i][2]]]
  <1>1. \A i, j \in Axes : m[i][j] \in Int
    BY DEF Matrix
  <1>2. \A i \in Axes :
            /\ m[i][1] \in Int /\ m[i][2] \in Int /\ m[i][3] \in Int
    BY <1>1 DEF Axes
  <1>3. ASSUME NEW i \in Axes, NEW j \in Axes
        PROVE  /\ Times(m, BODY_TO_OPTICAL)[i][j] =
                     (IF j = 1 THEN -m[i][2] ELSE IF j = 2 THEN -m[i][3] ELSE m[i][1])
               /\ Times(m, Transposed(BODY_TO_OPTICAL))[i][j] =
                     (IF j = 1 THEN m[i][3] ELSE IF j = 2 THEN -m[i][1] ELSE -m[i][2])
    <2>1. CASE j = 1
      BY <1>2, <2>1 DEF Times, Transposed, BODY_TO_OPTICAL, Axes
    <2>2. CASE j = 2
      BY <1>2, <2>2 DEF Times, Transposed, BODY_TO_OPTICAL, Axes
    <2>3. CASE j = 3
      BY <1>2, <2>3 DEF Times, Transposed, BODY_TO_OPTICAL, Axes
    <2>4. QED
      BY <2>1, <2>2, <2>3 DEF Axes
  <1>4. QED
    BY <1>3 DEF Times

\* Either turn of a rotation is one, and relates the two frames of a camera.
LEMMA Turns ==
    ASSUME NEW pose, Rotated(pose)
    PROVE  /\ Rotated(body_to_optical(pose))
           /\ FramesOfOneCamera(pose, body_to_optical(pose))
           /\ Rotated(optical_to_body(pose))
           /\ FramesOfOneCamera(optical_to_body(pose), pose)
  <1> DEFINE m == pose.rotation
  <1>1. m \in Matrix /\ pose.position \in Vector
    BY DEF Rotated, Pose
  <1>2. \A i \in Axes : m[i][1] \in Int /\ m[i][2] \in Int /\ m[i][3] \in Int
    BY <1>1 DEF Matrix, Axes
  <1>3. PICK i, j \in Axes : m[i][j] # 0
    BY DEF Rotated, Unset
  <1>4. Rotated(body_to_optical(pose)) /\ FramesOfOneCamera(pose, body_to_optical(pose))
    <2> DEFINE t == [k \in Axes |-> [l \in Axes |->
                       IF l = 1 THEN -m[k][2] ELSE IF l = 2 THEN -m[k][3] ELSE m[k][1]]]
    <2>1. body_to_optical(pose) = [position |-> pose.position, rotation |-> t]
      BY <1>1, TurnEntries DEF body_to_optical, Turned
    <2>2. t \in Matrix
      BY <1>2 DEF Matrix
    <2>3. t[i][1] # 0 \/ t[i][2] # 0 \/ t[i][3] # 0
      BY <1>2, <1>3 DEF Axes
    <2>4. ~Unset(t)
      <3> HIDE DEF t
      <3>1. 1 \in Axes /\ 2 \in Axes /\ 3 \in Axes
        BY DEF Axes
      <3>2. Unset(t) => t[i][1] = 0 /\ t[i][2] = 0 /\ t[i][3] = 0
        BY <3>1, Zenon DEF Unset
      <3>3. QED
        BY <2>3, <3>2, Zenon
    <2>5. \A k \in Axes : t[k][1] = -m[k][2] /\ t[k][2] = -m[k][3] /\ t[k][3] = m[k][1]
      BY DEF Axes
    <2>6. /\ body_to_optical(pose).position = pose.position
          /\ body_to_optical(pose).rotation = t
      BY <2>1
    <2>7. FramesOfOneCamera(pose, body_to_optical(pose))
      BY <2>5, <2>6, Zenon DEF FramesOfOneCamera
    <2>8. QED
      BY <1>1, <2>1, <2>2, <2>4, <2>7 DEF Rotated, Pose
  <1>5. Rotated(optical_to_body(pose)) /\ FramesOfOneCamera(optical_to_body(pose), pose)
    <2> DEFINE t == [k \in Axes |-> [l \in Axes |->
                       IF l = 1 THEN m[k][3] ELSE IF l = 2 THEN -m[k][1] ELSE -m[k][2]]]
    <2>1. optical_to_body(pose) = [position |-> pose.position, rotation |-> t]
      BY <1>1, TurnEntries DEF optical_to_body, Turned
    <2>2. t \in Matrix
      BY <1>2 DEF Matrix
    <2>3. t[i][1] # 0 \/ t[i][2] # 0 \/ t[i][3] # 0
      BY <1>2, <1>3 DEF Axes
    <2>4. ~Unset(t)
      <3> HIDE DEF t
      <3>1. 1 \in Axes /\ 2 \in Axes /\ 3 \in Axes
        BY DEF Axes
      <3>2. Unset(t) => t[i][1] = 0 /\ t[i][2] = 0 /\ t[i][3] = 0
        BY <3>1, Zenon DEF Unset
      <3>3. QED
        BY <2>3, <3>2, Zenon
    <2>5. \A k \in Axes : t[k][1] = m[k][3] /\ t[k][2] = -m[k][1] /\ t[k][3] = -m[k][2]
      BY DEF Axes
    <2>6. \A k \in Axes : m[k][1] = -t[k][2] /\ m[k][2] = -t[k][3] /\ m[k][3] = t[k][1]
      <3>1. \A a \in Int : a = -(-a)
        OBVIOUS
      <3>2. TAKE k \in Axes
      <3>3. m[k][1] = -(-m[k][1]) /\ m[k][2] = -(-m[k][2])
        BY <1>2, <3>1
      <3>4. t[k][1] = m[k][3] /\ t[k][2] = -m[k][1] /\ t[k][3] = -m[k][2]
        BY <2>5
      <3> HIDE DEF t
      <3>5. QED
        BY <3>3, <3>4, Zenon
    <2>7. /\ optical_to_body(pose).position = pose.position
          /\ optical_to_body(pose).rotation = t
      BY <2>1
    <2>8. FramesOfOneCamera(optical_to_body(pose), pose)
      BY <2>6, <2>7, Zenon DEF FramesOfOneCamera
    <2>9. QED
      BY <1>1, <2>1, <2>2, <2>4, <2>8 DEF Rotated, Pose
  <1>6. QED
    BY <1>4, <1>5

\* The body is all there is to the frames of one camera: its optical frame has no other.
LEMMA OneBody ==
    ASSUME NEW body, NEW other, NEW optical, Rotated(body), Rotated(other),
           FramesOfOneCamera(body, optical), FramesOfOneCamera(other, optical)
    PROVE  body = other
  <1> DEFINE m == body.rotation n == other.rotation
  <1>1. m \in Matrix /\ n \in Matrix
    BY DEF Rotated, Pose
  <1>2. \A i \in Axes :
            /\ m[i][1] \in Int /\ m[i][2] \in Int /\ m[i][3] \in Int
            /\ n[i][1] \in Int /\ n[i][2] \in Int /\ n[i][3] \in Int
    BY <1>1 DEF Matrix, Axes
  <1>3. ASSUME NEW i \in Axes
        PROVE  m[i][1] = n[i][1] /\ m[i][2] = n[i][2] /\ m[i][3] = n[i][3]
    <2> DEFINE o == optical.rotation
    <2>1. /\ o[i][1] = -m[i][2] /\ o[i][2] = -m[i][3] /\ o[i][3] = m[i][1]
          /\ o[i][1] = -n[i][2] /\ o[i][2] = -n[i][3] /\ o[i][3] = n[i][1]
      BY Zenon DEF FramesOfOneCamera
    <2>2. \A a, b \in Int : -a = -b => a = b
      OBVIOUS
    <2>3. -m[i][2] = -n[i][2] /\ -m[i][3] = -n[i][3] /\ m[i][1] = n[i][1]
      BY <2>1, Zenon
    <2>4. QED
      BY <1>2, <2>2, <2>3
  <1>4. \A i \in Axes : m[i][1] = n[i][1] /\ m[i][2] = n[i][2] /\ m[i][3] = n[i][3]
    BY <1>3
  <1>5. \A i, j \in Axes : m[i][j] = n[i][j]
    BY <1>4 DEF Axes
  <1>6. m = n
    BY <1>1, <1>5 DEF Matrix
  <1>7. body.position = other.position
    BY Zenon DEF FramesOfOneCamera
  <1>8. QED
    BY <1>6, <1>7 DEF Rotated, Pose

\* A pose that is a frame of c's camera in the convention of a revision.
Declared(c, pose, revision) ==
    /\ pose \in Pose
    /\ revision = 1 => from_proto(pose) = Body(c)
    /\ revision = 2 => FramesOfOneCamera(Body(c), from_proto(pose))

\* Translating between the supported revisions gives the other's convention.
LEMMA Translation ==
    ASSUME NEW c \in Clients, NEW pose, NEW from \in {1, 2}, NEW to \in {1, 2},
           Declared(c, pose, from)
    PROVE  Declared(c, CameraToRevision(pose, from, to), to)
  <1>1. Mount[c] \in Pose
    BY RevisionAssumption
  <1>2. Rotated(Body(c)) /\ Rotated(from_proto(pose))
    BY <1>1, Reading DEF Body, Declared
  <1>3. CASE from = to
    BY <1>3 DEF CameraToRevision
  <1>4. CASE from = 1 /\ to = 2
    <2>1. CameraToRevision(pose, from, to) = body_to_optical(from_proto(pose))
      BY <1>4 DEF CameraToRevision
    <2>2. QED
      BY <1>2, <1>4, <2>1, Turns, Reading DEF Declared, Rotated
  <1>5. CASE from = 2 /\ to = 1
    <2> DEFINE body == optical_to_body(from_proto(pose))
    <2>1. CameraToRevision(pose, from, to) = body
      BY <1>5 DEF CameraToRevision
    <2>2. Rotated(body) /\ FramesOfOneCamera(body, from_proto(pose))
      BY <1>2, Turns
    <2>3. body = Body(c)
      BY <1>2, <1>5, <2>2, OneBody DEF Declared
    <2>4. from_proto(body) = body
      BY <2>2, Reading DEF Rotated
    <2>5. QED
      BY <1>5, <2>1, <2>2, <2>3, <2>4 DEF Declared, Rotated
  <1>6. QED
    BY <1>3, <1>4, <1>5

\* What each client has before it translates anything.
LEMMA Own ==
    ASSUME NEW c \in Clients
    PROVE  Declared(c, Mount[c], 1) /\ Declared(c, body_to_optical(Body(c)), 2)
  <1>1. Mount[c] \in Pose
    BY RevisionAssumption
  <1>2. Rotated(Body(c))
    BY <1>1, Reading DEF Body
  <1>3. QED
    BY <1>1, <1>2, Turns, Reading DEF Declared, Body, Rotated

\* What a client has, by where it is: the revision it agreed on is a supported one,
\* and if it is the newer, a 1.x server can only have come after it was agreed on.
ClientOK(c) ==
    /\ kind[c] \in Kinds(mode)
    /\ agreed[c] \in {None, 1, 2}
    /\ pc[c] = "negotiated" => kind[c] = "2.x" /\ agreed[c] # None
    /\ agreed[c] = 2 /\ release = "1.x" => replaced[c]

Agreement ==
    /\ mode \in {"carla", "alpasim"} /\ (mode = "alpasim" => release # "1.x")
    /\ DOMAIN pc = Clients /\ DOMAIN agreed = Clients /\ DOMAIN policy = Clients
    /\ DOMAIN replaced = Clients
    /\ \A c \in Clients : ClientOK(c)

\* The three properties, each inductive together with Agreement.
Conventions == PolicySeesOptical /\ OlderPolicySeesBody /\ RefusedOnlyUnknown

LEMMA AgreementInit == Init => Agreement /\ Conventions
  BY RevisionAssumption DEF Init, Agreement, ClientOK, Kinds, Conventions, PolicySeesOptical,
     OlderPolicySeesBody, RefusedOnlyUnknown

\* What a client of each kind sends a server of this release is readable when its
\* kind is known, and then its cameras become optical.
LEMMA HandedOptical ==
    ASSUME Agreement, NEW c \in Clients,
           pc[c] = IF kind[c] = "2.x" THEN "negotiated" ELSE "idle"
    PROVE  /\ kind[c] \notin {"newer", "broken"} => Readable(Sends(c))
           /\ Readable(Sends(c)) =>
                 Declared(c, Handed(c, ReadRevision(Sends(c), DefaultRevision)), 2)
  <1> USE DEF Readable, Supported, SupportedRevisions, Sends, Handed, ReadRevision,
          DefaultRevision, ContractRevision, LegacyRevision, Camera
  <1>0. None \notin Int /\ Junk \notin Int /\ None # Junk /\ ClientOK(c)
        /\ mode \in {"carla", "alpasim"}
    BY RevisionAssumption DEF Agreement
  <1>1. CASE kind[c] = "2.x"
    <2>1. agreed[c] \in {1, 2}
      BY <1>0, <1>1 DEF ClientOK
    <2>2. QED
      BY <1>0, <1>1, <2>1, Own, Translation
  <1>2. CASE kind[c] = "1.x"
    <2>1. mode = "carla"
      BY <1>0, <1>2 DEF ClientOK, Kinds
    <2>2. QED
      BY <1>2, <2>1, Own, Translation DEF Declares
  <1>3. CASE kind[c] = "alpasim"
    <2>1. mode = "alpasim"
      BY <1>0, <1>3 DEF ClientOK, Kinds
    <2>2. QED
      BY <1>3, <2>1, Own, Translation DEF Declares
  <1>4. CASE kind[c] \in {"newer", "broken"}
    BY <1>0, <1>4 DEF Declares
  <1>5. QED
    BY <1>0, <1>1, <1>2, <1>3, <1>4 DEF ClientOK, Kinds

LEMMA AgreementStep == Agreement /\ [Next]_vars => Agreement'
  <1> SUFFICES ASSUME Agreement, [Next]_vars PROVE Agreement'
    OBVIOUS
  <1> USE RevisionAssumption DEF Agreement, ClientOK, server, client, GoTo
  <1>1. CASE UNCHANGED vars
    BY <1>1 DEF vars
  <1>2. ASSUME NEW c \in Clients, Negotiate(c) PROVE Agreement'
    <2>1. release = "1.x" => agreed'[c] # 2
      BY <1>2 DEF Negotiate, ReadRevision, Declares, Readable, Supported, SupportedRevisions,
         LegacyRevision, ContractRevision
    <2>2. agreed'[c] \in {None, 1, 2} /\ (pc'[c] = "negotiated" => agreed'[c] # None)
      <3>1. CASE ~Readable(Declares(release))
        BY <1>2, <3>1 DEF Negotiate
      <3>2. CASE Readable(Declares(release))
        <4>1. agreed'[c] = ReadRevision(Declares(release), LegacyRevision)
          BY <1>2, <3>2 DEF Negotiate
        <4>2. agreed'[c] \in {1, 2}
          BY <3>2, <4>1 DEF ReadRevision, Readable, Supported, SupportedRevisions, LegacyRevision
        <4>3. QED
          BY <4>2
      <3>3. QED
        BY <3>1, <3>2
    <2>3. \A k \in Clients \ {c} : pc'[k] = pc[k] /\ agreed'[k] = agreed[k]
      BY <1>2 DEF Negotiate
    <2>4. /\ UNCHANGED <<server, kind, policy>> /\ kind[c] = "2.x"
          /\ DOMAIN pc' = Clients /\ DOMAIN agreed' = Clients
      BY <1>2 DEF Negotiate
    <2>5. QED
      BY <2>1, <2>2, <2>3, <2>4
  <1>3. ASSUME NEW c \in Clients, StartSession(c) PROVE Agreement'
    BY <1>3 DEF StartSession, Start, StartOnOlder
  <1>4. ASSUME NEW c \in Clients, Again(c) PROVE Agreement'
    <2>1. UNCHANGED <<mode, release, kind>> /\ pc'[c] = "idle" /\ agreed'[c] = None
      BY <1>4 DEF Again
    <2>2. \A k \in Clients \ {c} :
              pc'[k] = pc[k] /\ agreed'[k] = agreed[k] /\ replaced'[k] = replaced[k]
      BY <1>4 DEF Again
    <2>3. /\ DOMAIN pc' = Clients /\ DOMAIN agreed' = Clients
          /\ DOMAIN policy' = Clients /\ DOMAIN replaced' = Clients
      BY <1>4 DEF Again
    <2>4. ClientOK(c)'
      BY <2>1
    <2>5. QED
      BY <2>1, <2>2, <2>3, <2>4
  <1>5. ASSUME NEW new \in Servers, Replace(new) PROVE Agreement'
    BY <1>5 DEF Replace, ContractRevision
  <1>6. QED
    BY <1>1, <1>2, <1>3, <1>4, <1>5 DEF Next

LEMMA ConventionsStep == Agreement /\ Conventions /\ [Next]_vars => Conventions'
  <1> SUFFICES ASSUME Agreement, Conventions, [Next]_vars PROVE Conventions'
    OBVIOUS
  <1> USE DEF Conventions, PolicySeesOptical, OlderPolicySeesBody, RefusedOnlyUnknown,
          server, client, GoTo, Declared
  <1>1. CASE UNCHANGED vars
    BY <1>1 DEF vars
  <1>2. ASSUME NEW c \in Clients, Negotiate(c) PROVE Conventions'
    BY <1>2, ZenonT(60) DEF Negotiate, Agreement
  <1>3. ASSUME NEW c \in Clients, StartSession(c) PROVE Conventions'
    <2> DEFINE seen == policy'[c].camera
    <2>1. CASE Start(c)
      <3>1. pc'[c] = "refused" => kind[c] \in {"newer", "broken"}
        BY <1>3, <2>1, HandedOptical DEF StartSession, Start, Agreement
      <3>2. pc'[c] = "started" => policy'[c].release = "2.x" /\ Declared(c, seen, 2)
        BY <1>3, <2>1, HandedOptical DEF StartSession, Start, Agreement
      <3>3. \A k \in Clients \ {c} : pc'[k] = pc[k] /\ policy'[k] = policy[k]
        BY <2>1 DEF Start, Agreement
      <3>4. UNCHANGED <<replaced, kind>>
        BY <2>1 DEF Start
      <3>5. QED
        BY <3>1, <3>2, <3>3, <3>4
    <2>2. CASE StartOnOlder(c)
      <3>1. policy'[c].release = "1.x" /\ seen = Camera(c) /\ pc'[c] = "started"
        BY <2>2 DEF StartOnOlder, Agreement
      <3>2. kind[c] = "2.x" /\ ~replaced[c] => agreed[c] = 1
        BY <1>3, <2>2 DEF StartSession, StartOnOlder, Agreement, ClientOK
      <3>3. kind[c] \in {"1.x", "2.x"} /\ ~replaced[c] => Declared(c, Camera(c), 1)
        BY <3>2, Own, Translation DEF Camera, ContractRevision
      <3>4. \A k \in Clients \ {c} : pc'[k] = pc[k] /\ policy'[k] = policy[k]
        BY <2>2 DEF StartOnOlder, Agreement
      <3>5. UNCHANGED <<replaced, kind>>
        BY <2>2 DEF StartOnOlder
      <3>6. QED
        BY <3>1, <3>3, <3>4, <3>5
    <2>3. QED
      BY <1>3, <2>1, <2>2 DEF StartSession
  <1>4. ASSUME NEW c \in Clients, Again(c) PROVE Conventions'
    <2>1. pc'[c] = "idle" /\ UNCHANGED kind
      BY <1>4 DEF Again, Agreement
    <2>2. \A k \in Clients \ {c} :
              pc'[k] = pc[k] /\ policy'[k] = policy[k] /\ replaced'[k] = replaced[k]
      BY <1>4 DEF Again, Agreement
    <2>3. QED
      BY <2>1, <2>2
  <1>5. ASSUME NEW new \in Servers, Replace(new) PROVE Conventions'
    BY <1>5 DEF Replace
  <1>6. QED
    BY <1>1, <1>2, <1>3, <1>4, <1>5 DEF Next

\* Whatever releases its clients are of and whichever servers they asked before, a
\* policy on this release is handed cameras as revision 2 declares them.
THEOREM PolicyIsHandedOptical == Spec => []PolicySeesOptical
  <1>1. Conventions => PolicySeesOptical
    BY DEF Conventions
  <1>2. QED
    BY <1>1, AgreementInit, AgreementStep, ConventionsStep, PTL DEF Spec

\* A 1.x policy is handed cameras as 1.x declares them, but for a server put in the
\* place of a newer one after its client had agreed on revision 2.
THEOREM OlderPolicyIsHandedBody == Spec => []OlderPolicySeesBody
  <1>1. Conventions => OlderPolicySeesBody
    BY DEF Conventions
  <1>2. QED
    BY <1>1, AgreementInit, AgreementStep, ConventionsStep, PTL DEF Spec

\* This release refuses sessions only to peers that declare an unknown revision.
THEOREM KnownReleasesPair == Spec => []RefusedOnlyUnknown
  <1>1. Conventions => RefusedOnlyUnknown
    BY DEF Conventions
  <1>2. QED
    BY <1>1, AgreementInit, AgreementStep, ConventionsStep, PTL DEF Spec
=============================================================================
