-------------------------- MODULE DriverImageProofs --------------------------
(***************************************************************************)
(* Theorems about DriverImage, for any number of builds and wizard configs *)
(* that share a machine, whatever they are asked for.                      *)
(***************************************************************************)
EXTENDS DriverImage, TLAPS

-----------------------------------------------------------------------------
(* The two files of a wizard config                                        *)

Tables ==
    /\ DOMAIN pc = Commands /\ DOMAIN order = Commands /\ DOMAIN beside = Commands
    /\ DOMAIN driver = Names /\ DOMAIN service = Names
    /\ \A c \in Commands : beside[c] \in BOOLEAN

\* A wizard config has been asked for once it is begun, not before.
Asked == \A w \in Wizards : IF pc[w] = "none" THEN ~beside[w] ELSE order[w] \in Configs

\* One half way is valid, and has its name to itself and its driver's file in
\* place, or knows of another.
HalfAlone ==
    \A w \in Wizards : pc[w] = "halfway" =>
        /\ Valid(order[w])
        /\ ~beside[w] => /\ driver[order[w].name] = order[w]
                         /\ Writing(order[w].name) = {w}

\* Why the two files of a name may differ.
Excuse(w, n) ==
    /\ order[w] # None /\ order[w].name = n
    /\ pc[w] = "halfway" \/ beside[w] \/ HalfWritten(w)

ConfigInv == Tables /\ Asked /\ HalfAlone /\ ConfigsPaired

LEMMA ConfigInit == Init => ConfigInv
  BY DEF Init, ConfigInv, Tables, Asked, HalfAlone, ConfigsPaired, Commands

\* A build and a container leave the wizard's files and configs alone.
LEMMA ConfigBeside ==
  ASSUME ConfigInv, UNCHANGED <<driver, service>>,
         DOMAIN pc' = Commands, DOMAIN order' = Commands, DOMAIN beside' = Commands,
         \A c \in Commands : beside'[c] \in BOOLEAN,
         \A w \in Wizards : pc'[w] = pc[w] /\ order'[w] = order[w] /\ beside'[w] = beside[w]
  PROVE  ConfigInv'
  <1>1. Tables' /\ Asked'
    BY DEF ConfigInv, Tables, Asked
  <1>2. \A n : Writing(n)' = Writing(n)
    BY DEF Writing
  <1>3. HalfAlone'
    BY <1>2 DEF ConfigInv, HalfAlone, Valid
  <1>4. ConfigsPaired'
    BY DEF ConfigInv, ConfigsPaired, Excuse, HalfWritten
  <1>5. QED
    BY <1>1, <1>3, <1>4 DEF ConfigInv

LEMMA ConfigBuilds ==
  ASSUME ConfigInv, NEW b \in Builds,
         \/ StartBuild(b) \/ Clear(b) \/ MakePackages(b) \/ Copy(b)
         \/ WriteDockerfile(b) \/ Send(b) \/ Build(b)
  PROVE  ConfigInv'
  <1> USE DEF ConfigInv, Tables
  <1>1. b \notin Wizards /\ b \in Commands
    BY ImageAssumption DEF Commands
  <1>2. CASE StartBuild(b)
    <2>1. \A d : Working(d) \cap Wizards = {}
      BY ImageAssumption DEF Working
    <2>2. UNCHANGED <<driver, service>> /\ DOMAIN pc' = Commands /\ DOMAIN order' = Commands
      BY <1>2 DEF StartBuild, GoTo, files
    <2>3. \A w \in Wizards : pc'[w] = pc[w] /\ order'[w] = order[w]
      BY <1>1, <1>2 DEF StartBuild, GoTo, Commands
    <2>4. /\ DOMAIN beside' = Commands
          /\ \A c \in Commands : beside'[c] \in BOOLEAN
          /\ \A w \in Wizards : beside'[w] = beside[w]
      BY <1>1, <1>2, <2>1 DEF StartBuild, Commands
    <2>5. QED
      BY <2>2, <2>3, <2>4, ConfigBeside
  <1>3. CASE Clear(b) \/ MakePackages(b) \/ Copy(b) \/ WriteDockerfile(b) \/ Send(b) \/ Build(b)
    <2>1. UNCHANGED <<driver, service, order, beside>>
      BY <1>3 DEF Clear, MakePackages, Copy, WriteDockerfile, Send, Build, files
    <2>2. DOMAIN pc' = Commands /\ \A w \in Wizards : pc'[w] = pc[w]
      <3>1. CASE Copy(b)
        BY <1>1, <3>1 DEF Copy, GoTo, Commands
      <3>2. CASE Clear(b) \/ MakePackages(b) \/ WriteDockerfile(b) \/ Send(b) \/ Build(b)
        BY <1>1, <3>2 DEF Clear, MakePackages, WriteDockerfile, Send, Build, GoTo, Commands
      <3>3. QED
        BY <1>3, <3>1, <3>2
    <2>3. QED
      BY <1>1, <2>1, <2>2, ConfigBeside
  <1>4. QED
    BY <1>2, <1>3

\* It goes on excusing them when neither it nor they change.
LEMMA ExcuseStays ==
  ASSUME NEW v \in Wizards, NEW n, Excuse(v, n),
         pc'[v] = pc[v], order'[v] = order[v], beside[v] => beside'[v],
         driver'[n] = driver[n], service'[n] = service[n]
  PROVE  Excuse(v, n)'
  <1>1. order'[v].name = n /\ order'[v] # None
    BY DEF Excuse
  <1>2. HalfWritten(v) => HalfWritten(v)'
    BY <1>1 DEF Excuse, HalfWritten
  <1>3. QED
    BY <1>1, <1>2 DEF Excuse

LEMMA ConfigStarts ==
  ASSUME ConfigInv, NEW w \in Wizards, StartConfig(w) PROVE ConfigInv'
  <1> USE DEF ConfigInv
  <1>0. w \in Commands /\ \A v \in Wizards : v \in Commands
    BY DEF Commands
  <1>1. PICK c \in Configs :
           /\ order' = [order EXCEPT ![w] = c]
           /\ \/ Writes(c) /\ driver' = [driver EXCEPT ![c.name] = c] /\ pc' = [pc EXCEPT ![w] = "halfway"]
              \/ Writes(c) /\ driver' \in Torn(driver, c.name) /\ pc' = [pc EXCEPT ![w] = "crashed"]
              \/ ~Writes(c) /\ pc' = [pc EXCEPT ![w] = "usage"] /\ UNCHANGED driver
    BY DEF StartConfig, GoTo
  <1>2. pc[w] = "none" /\ ~beside[w] /\ UNCHANGED service
    BY DEF StartConfig, Asked
  <1>3. c # None /\ c.name \in Names
    BY <1>1, ImageAssumption
  <1>4. order'[w] = c /\ \A v \in Wizards \ {w} : order'[v] = order[v] /\ pc'[v] = pc[v]
    BY <1>0, <1>1 DEF Tables
  <1>5. /\ pc'[w] \in {"halfway", "crashed", "usage"}
        /\ pc'[w] = "halfway" => Writes(c) /\ driver' = [driver EXCEPT ![c.name] = c]
        /\ pc'[w] = "crashed" => driver' \in Torn(driver, c.name)
        /\ pc'[w] = "usage" => UNCHANGED driver
        /\ DOMAIN pc' = Commands
    BY <1>0, <1>1 DEF Tables
  <1>6. DOMAIN driver' = Names /\ \A n \in Names \ {c.name} : driver'[n] = driver[n]
    BY <1>5 DEF Tables, Torn
  <1>7. /\ DOMAIN beside' = Commands
        /\ \A d \in Commands : beside'[d] \in BOOLEAN /\ (beside[d] => beside'[d])
        /\ pc'[w] # "usage" => \A v \in Writing(c.name) : beside'[v] /\ beside'[w]
        /\ \A v \in Wizards \ {w} : beside'[v] => beside[v] \/ pc[v] = "halfway"
    <2>1. \A n : Writing(n)' \ {w} = Writing(n) /\ (pc'[w] # "halfway" => Writing(n)' = Writing(n))
      BY <1>2, <1>4 DEF Writing
    <2>2. beside' = [d \in Commands |->
                      \/ beside[d]
                      \/ pc'[w] # "usage" /\ \/ d \in Writing(order'[w].name)
                                             \/ d = w /\ Writing(order'[w].name) # {}]
      BY DEF StartConfig
    <2>3. order'[w].name = c.name
      BY <1>4
    <2>4. \A v \in Writing(c.name) : v \in Wizards /\ pc[v] = "halfway"
      BY DEF Writing
    <2>5. QED
      BY <1>0, <2>2, <2>3, <2>4 DEF Tables
  <1>8. Tables'
    BY <1>1, <1>2, <1>5, <1>6, <1>7 DEF Tables
  <1>9. Asked'
    <2>1. pc'[w] # "none" /\ order'[w] \in Configs
      BY <1>1, <1>4, <1>5
    <2>2. ASSUME NEW v \in Wizards, v # w
          PROVE  IF pc'[v] = "none" THEN ~beside'[v] ELSE order'[v] \in Configs
      BY <1>4, <1>7, <2>2 DEF Asked
    <2>3. QED
      BY <2>1, <2>2 DEF Asked
  <1>10. HalfAlone'
    <2>1. ASSUME NEW v \in Wizards, pc'[v] = "halfway" PROVE Valid(order[v])'
      BY <1>4, <1>5, <2>1 DEF HalfAlone, Valid, Writes
    <2>2. ASSUME NEW v \in Wizards, pc'[v] = "halfway", ~beside'[v]
          PROVE  /\ driver'[order'[v].name] = order'[v]
                 /\ Writing(order[v].name)' = {v}
      <3>1. CASE v = w
        <4>1. Writing(c.name) = {}
          BY <1>7, <2>2, <3>1
        <4>2. Writing(c.name)' = {w}
          BY <1>4, <2>2, <3>1, <4>1 DEF Writing
        <4>3. QED
          BY <1>3, <1>4, <1>5, <2>2, <3>1, <4>2 DEF Tables
      <3>2. CASE v # w
        <4>1. order'[v] = order[v] /\ pc[v] = "halfway" /\ ~beside[v]
          BY <1>0, <1>4, <1>7, <2>2, <3>2
        <4>2. pc'[w] # "usage" => order[v].name # c.name
          BY <1>7, <2>2, <4>1 DEF Writing
        <4>3. driver[order[v].name] = order[v] /\ Writing(order[v].name) = {v}
          BY <4>1 DEF HalfAlone
        <4>4. order[v].name \in Names
          BY <4>1, ImageAssumption DEF Asked
        <4>5. driver'[order[v].name] = order[v]
          BY <1>5, <1>6, <4>2, <4>3, <4>4
        <4>6. Writing(order[v].name)' = {v}
          <5>1. ASSUME NEW n, n = order[v].name PROVE Writing(n)' = {v}
            BY <1>2, <1>4, <1>5, <4>1, <4>2, <4>3, <2>2, <5>1 DEF Writing
          <5>2. QED
            BY <4>1, <5>1
        <4>7. QED
          BY <4>1, <4>5, <4>6
      <3>3. QED
        BY <3>1, <3>2
    <2>3. QED
      BY <2>1, <2>2 DEF HalfAlone
  <1>11. ConfigsPaired'
    <2>1. SUFFICES ASSUME NEW n \in Names, driver'[n] # service'[n]
                   PROVE  \E v \in Wizards : Excuse(v, n)'
      BY DEF ConfigsPaired, Excuse
    <2>2. CASE n = c.name /\ pc'[w] = "halfway"
      BY <1>3, <1>4, <2>2 DEF Excuse
    <2>3. CASE n = c.name /\ pc'[w] = "crashed" /\ driver'[n] = None
      BY <1>3, <1>4, <2>3 DEF Excuse, HalfWritten
    <2>4. CASE driver'[n] = driver[n]
      <3>1. PICK v \in Wizards : Excuse(v, n)
        BY <1>2, <2>1, <2>4 DEF ConfigsPaired, Excuse
      <3>2. v # w
        BY <1>2, <3>1 DEF Excuse, HalfWritten
      <3>3. QED
        BY <1>0, <1>2, <1>4, <1>7, <2>4, <3>1, <3>2, ExcuseStays
    <2>5. QED
      BY <1>5, <1>6, <2>2, <2>3, <2>4 DEF Torn, Tables
  <1>12. QED
    BY <1>8, <1>9, <1>10, <1>11

LEMMA ConfigEnds ==
  ASSUME ConfigInv, NEW w \in Wizards, EndConfig(w) PROVE ConfigInv'
  <1> USE DEF ConfigInv
  <1>0. w \in Commands /\ \A v \in Wizards : v \in Commands
    BY DEF Commands
  <1> DEFINE name == order[w].name
  <1>1. /\ \/ service' = [service EXCEPT ![name] = order[w]] /\ pc' = [pc EXCEPT ![w] = "written"]
           \/ service' \in Torn(service, name) /\ pc' = [pc EXCEPT ![w] = "crashed"]
        /\ UNCHANGED <<driver, order, beside>>
        /\ pc[w] = "halfway" /\ order[w] \in Configs
    BY DEF EndConfig, GoTo, HalfAlone, Asked
  <1>2. order[w] # None /\ name \in Names
    BY <1>1, ImageAssumption
  <1>3. /\ pc'[w] \in {"written", "crashed"} /\ DOMAIN pc' = Commands
        /\ pc'[w] = "written" => service' = [service EXCEPT ![name] = order[w]]
        /\ \A v \in Wizards \ {w} : pc'[v] = pc[v]
    BY <1>0, <1>1 DEF Tables
  <1>4. DOMAIN service' = Names /\ \A n \in Names \ {name} : service'[n] = service[n]
    BY <1>1 DEF Tables, Torn
  <1>5. Tables' /\ Asked'
    BY <1>1, <1>3, <1>4 DEF Tables, Asked
  <1>6. \A n : Writing(n)' = Writing(n) \ {w}
    BY <1>1, <1>3 DEF Writing
  <1>7. HalfAlone'
    <2>1. ASSUME NEW v \in Wizards, pc'[v] = "halfway"
          PROVE  v # w /\ pc[v] = "halfway" /\ Valid(order[v])'
      BY <1>1, <1>3, <2>1 DEF HalfAlone, Valid
    <2>2. QED
      BY <1>1, <1>6, <2>1 DEF HalfAlone
  <1>8. ConfigsPaired'
    <2>1. SUFFICES ASSUME NEW n \in Names, driver'[n] # service'[n]
                   PROVE  \E v \in Wizards : Excuse(v, n)'
      BY DEF ConfigsPaired, Excuse
    <2>2. CASE n = name /\ beside[w]
      BY <1>1, <1>2, <2>2 DEF Excuse
    <2>3. CASE n = name /\ ~beside[w]
      <3>1. driver'[n] = order'[w]
        BY <1>1, <2>3 DEF HalfAlone
      <3>2. pc'[w] = "crashed"
        BY <1>1, <1>2, <1>3, <2>1, <2>3, <3>1 DEF Tables
      <3>3. QED
        BY <1>1, <1>2, <2>3, <3>1, <3>2 DEF Excuse, HalfWritten
    <2>4. CASE n # name
      <3>1. service'[n] = service[n]
        BY <1>4, <2>4
      <3>2. PICK v \in Wizards : Excuse(v, n)
        BY <1>1, <2>1, <3>1 DEF ConfigsPaired, Excuse
      <3>3. v # w
        BY <2>4, <3>2 DEF Excuse
      <3>4. QED
        BY <1>1, <1>3, <3>1, <3>2, <3>3, ExcuseStays
    <2>5. QED
      BY <2>2, <2>3, <2>4
  <1>9. QED
    BY <1>5, <1>7, <1>8

LEMMA ConfigStep == ConfigInv /\ [Next]_vars => ConfigInv'
  <1> SUFFICES ASSUME ConfigInv, [Next]_vars PROVE ConfigInv'
    OBVIOUS
  <1>1. CASE Run \/ Finished \/ UNCHANGED vars
    <2>1. UNCHANGED <<driver, service, pc, order, beside>>
      BY <1>1 DEF Run, Finished, vars, files, commands
    <2>2. QED
      BY <2>1, ConfigBeside DEF ConfigInv, Tables
  <1>2. QED
    BY <1>1, ConfigBuilds, ConfigStarts, ConfigEnds DEF Next

\* A wizard config that ends replaces both files of its name or neither: they differ only
\* while one is being written, after two were written at once, or when the last stopped
\* in between.
THEOREM ConfigsInPairs == Spec => []ConfigsPaired
  <1>1. Spec => []ConfigInv
    BY ConfigInit, ConfigStep, PTL DEF Spec
  <1>2. QED
    BY <1>1, PTL DEF ConfigInv

-----------------------------------------------------------------------------
(* What a container serves                                                 *)

LEMMA ArgsInit == Init => ArgsOfItsPolicy
  BY DEF Init, ArgsOfItsPolicy

\* Whatever image and config a container is started with.
LEMMA ArgsServed ==
  ASSUME NEW image, NEW c, Serve(image, c) PROVE ArgsOfItsPolicy'
  <1>1. /\ served'.image = image /\ served'.config = c
        /\ served'.policy = Policy(image, c) /\ served'.args = Arguments(image, c)
    BY DEF Serve
  <1>2. \A k \in DOMAIN c.args : served'.args[k] = c.args[k]
    BY <1>1 DEF Arguments
  <1>3. ASSUME c.environment = None, NEW k \in DOMAIN served'.args \ DOMAIN c.args
        PROVE  /\ served'.policy = image.file.policy
               /\ k \in DOMAIN image.file.args /\ served'.args[k] = image.file.args[k]
    <2>1. k \in DOMAIN Baked(image, c) /\ served'.args[k] = Baked(image, c)[k]
      BY <1>1, <1>3 DEF Arguments
    <2>2. DOMAIN <<>> = {}
      OBVIOUS
    <2>3. Policy(image, c) = Environment(image, c) /\ Baked(image, c) = image.file.args
      BY <2>1, <2>2 DEF Baked
    <2>4. QED
      BY <1>1, <1>3, <2>1, <2>3 DEF Environment
  <1>4. QED
    BY <1>1, <1>2, <1>3 DEF ArgsOfItsPolicy

LEMMA ArgsStep == ArgsOfItsPolicy /\ [Next]_vars => ArgsOfItsPolicy'
  <1>1. ASSUME ArgsOfItsPolicy, Run PROVE ArgsOfItsPolicy'
    BY <1>1, ArgsServed DEF Run
  <1>2. ASSUME [Next]_vars, ~Run PROVE UNCHANGED served
    BY <1>2 DEF Next, StartBuild, Clear, MakePackages, Copy, WriteDockerfile, Send, Build,
       StartConfig, EndConfig, Finished, vars
  <1>3. QED
    BY <1>1, <1>2 DEF ArgsOfItsPolicy

\* A container's own arguments come first, and those baked into an image go to the
\* policy they were baked for.
THEOREM ArgsGoToTheirPolicy == Spec => []ArgsOfItsPolicy
  BY ArgsInit, ArgsStep, PTL DEF Spec

-----------------------------------------------------------------------------
(* What a build lays out                                                   *)

BuildTables ==
    /\ DOMAIN pc = Commands /\ DOMAIN order = Commands /\ DOMAIN at = Commands
    /\ DOMAIN requirements = Commands /\ DOMAIN sent = Commands /\ DOMAIN beside = Commands
    /\ DOMAIN packages = Dirs /\ DOMAIN dockerfile = Dirs /\ DOMAIN images = Tags
    /\ \A c \in Commands : beside[c] \in BOOLEAN

\* A build lays out what it was asked for, in order, and renders a Dockerfile when
\* it is through.
LayingOf(b) ==
    IF pc[b] = "none"
    THEN at[b] = 1 /\ requirements[b] = <<>> /\ beside[b] = FALSE
    ELSE /\ order[b] \in Orders
         /\ at[b] \in 1 .. Len(Wanted(b)) + 1
         /\ requirements[b] = [i \in 1 .. at[b] - 1 |-> Laid(b, i)]
         /\ pc[b] \in {"clearing", "making"} => at[b] = 1
         /\ pc[b] \in {"sending", "building", "built"} => at[b] = Len(Wanted(b)) + 1

Laying == \A b \in Builds : LayingOf(b)

LayInv == BuildTables /\ Laying

\* The parts of a build's state that only its own steps change.
StateOf(b) == <<pc[b], order[b], at[b], requirements[b], sent[b]>>

BuildStep(b) ==
    \/ StartBuild(b) \/ Clear(b) \/ MakePackages(b) \/ Copy(b)
    \/ WriteDockerfile(b) \/ Send(b) \/ Build(b)

LEMMA OrderWanted ==
  ASSUME NEW b \in Builds, order[b] \in Orders
  PROVE  /\ Wanted(b) \in Seq(Requirements) /\ Len(Wanted(b)) = Len(order[b].install) + 1
         /\ \A i \in 1 .. Len(Wanted(b)) :
               /\ Laid(b, i) \in Requirements
               /\ Local(Laid(b, i)) => Laid(b, i) \in Numbered(order[b])
  <1>1. order[b].self \in Requirements /\ order[b].install \in Seq(Requirements)
    BY ImageAssumption
  <1>2. Wanted(b) \in Seq(Requirements) /\ Len(Wanted(b)) = Len(order[b].install) + 1
    BY <1>1 DEF Wanted
  <1>3. ASSUME NEW i \in 1 .. Len(Wanted(b))
        PROVE  Wanted(b)[i] \in {order[b].self} \cup Range(order[b].install)
    <2>1. CASE i = 1
      BY <1>1, <2>1 DEF Wanted
    <2>2. CASE i # 1
      <3>1. i - 1 \in 1 .. Len(order[b].install) /\ Wanted(b)[i] = order[b].install[i - 1]
        BY <1>1, <1>2, <2>2 DEF Wanted
      <3>2. QED
        BY <1>1, <3>1 DEF Range
    <2>3. QED
      BY <2>1, <2>2
  <1>4. ASSUME NEW i \in 1 .. Len(Wanted(b))
        PROVE  /\ Laid(b, i) \in Requirements
               /\ Local(Laid(b, i)) => Laid(b, i) \in Numbered(order[b])
    <2>1. Wanted(b)[i] \in Requirements /\ i \in Nat /\ i \in 1 .. Len(order[b].install) + 1
      BY <1>1, <1>2
    <2>2. Laid(b, i) \in Requirements
      BY <2>1 DEF Laid, Requirements
    <2>3. Local(Laid(b, i)) => Laid(b, i) = [Wanted(b)[i] EXCEPT !.index = i]
      BY DEF Laid
    <2>4. QED
      BY <1>3, <2>1, <2>2, <2>3 DEF Numbered
  <1>5. QED
    BY <1>2, <1>4

LEMMA BuildMoves ==
  ASSUME BuildTables, NEW b \in Builds, BuildStep(b)
  PROVE  BuildTables' /\ \A c \in Builds \ {b} : UNCHANGED StateOf(c)
  <1> USE DEF BuildTables
  <1>1. \A c \in Builds : c \in Commands
    BY DEF Commands
  <1>2. CASE StartBuild(b)
    BY <1>1, <1>2 DEF StartBuild, GoTo, files, StateOf
  <1>3. CASE Clear(b) \/ MakePackages(b) \/ WriteDockerfile(b) \/ Send(b)
    BY <1>1, <1>3 DEF Clear, MakePackages, WriteDockerfile, Torn, Send, GoTo, files, StateOf
  <1>4. CASE Build(b)
    BY <1>1, <1>4 DEF Build, GoTo, files, StateOf
  <1>5. CASE Copy(b)
    <2>1. /\ pc' = pc \/ \E place : pc' = [pc EXCEPT ![b] = place]
          /\ UNCHANGED <<order, sent, beside, images, dockerfile>>
          /\ requirements' = requirements
                \/ \E r : requirements' = [requirements EXCEPT ![b] = r]
          /\ at' = at \/ \E n : at' = [at EXCEPT ![b] = n]
          /\ DOMAIN packages' = Dirs
      BY <1>5 DEF Copy, GoTo
    <2>2. QED
      BY <1>1, <2>1 DEF StateOf
  <1>6. QED
    BY <1>2, <1>3, <1>4, <1>5 DEF BuildStep

\* The other steps change nothing of a build's.
LEMMA BuildsStand ==
  ASSUME BuildTables, [Next]_vars, \A b \in Builds : ~BuildStep(b)
  PROVE  /\ BuildTables' /\ UNCHANGED <<packages, dockerfile, images>>
         /\ \A b \in Builds : UNCHANGED StateOf(b) /\ beside'[b] = beside[b]
  <1> USE DEF BuildTables
  <1>1. \A b \in Builds : b \in Commands /\ b \notin Wizards
    BY ImageAssumption DEF Commands
  <1>2. CASE Run \/ Finished \/ UNCHANGED vars
    BY <1>2 DEF Run, Finished, vars, files, commands, StateOf
  <1>3. ASSUME NEW w \in Wizards, EndConfig(w)
        PROVE  /\ BuildTables' /\ UNCHANGED <<packages, dockerfile, images>>
               /\ \A b \in Builds : UNCHANGED StateOf(b) /\ beside'[b] = beside[b]
    BY <1>1, <1>3 DEF EndConfig, GoTo, StateOf
  <1>4. ASSUME NEW w \in Wizards, StartConfig(w)
        PROVE  /\ BuildTables' /\ UNCHANGED <<packages, dockerfile, images>>
               /\ \A b \in Builds : UNCHANGED StateOf(b) /\ beside'[b] = beside[b]
    <2>1. /\ \A b \in Builds : pc'[b] = pc[b] /\ order'[b] = order[b]
          /\ DOMAIN pc' = Commands /\ DOMAIN order' = Commands
      BY <1>1, <1>4 DEF StartConfig, GoTo
    <2>2. \A n : Writing(n) \cap Builds = {}
      BY <1>1 DEF Writing
    <2>3. DOMAIN beside' = Commands
      BY <1>4 DEF StartConfig
    <2>4. QED
      BY <1>1, <1>4, <2>1, <2>2, <2>3 DEF StartConfig, StateOf
  <1>5. QED
    BY <1>2, <1>3, <1>4 DEF Next, BuildStep

LEMMA LayInit == Init => LayInv
  BY DEF Init, LayInv, BuildTables, Laying, LayingOf, Commands

LEMMA LayingKeeps ==
  ASSUME NEW b \in Builds, LayingOf(b), UNCHANGED StateOf(b), pc[b] = "none" => beside'[b] = FALSE
  PROVE  LayingOf(b)'
  <1>1. pc'[b] = pc[b] /\ order'[b] = order[b] /\ at'[b] = at[b] /\ requirements'[b] = requirements[b]
    BY DEF StateOf
  <1>2. Wanted(b)' = Wanted(b) /\ \A i : Laid(b, i)' = Laid(b, i)
    BY <1>1 DEF Wanted, Laid
  <1>3. QED
    BY <1>1, <1>2 DEF LayingOf

LEMMA LayingBuilds ==
  ASSUME LayInv, NEW b \in Builds, BuildStep(b) PROVE LayingOf(b)'
  <1>1. BuildTables /\ LayingOf(b) /\ b \in Commands
    BY DEF LayInv, Laying, Commands
  <1>2. CASE StartBuild(b)
    <2>1. pc[b] = "none" /\ order'[b] \in Orders /\ pc'[b] \in {"clearing", "usage"}
          /\ at'[b] = 1 /\ requirements'[b] = <<>>
      BY <1>1, <1>2 DEF StartBuild, GoTo, BuildTables, LayingOf
    <2>2. Len(Wanted(b)') \in Nat \ {0}
      <3>1. order'[b].install \in Seq(Requirements)
        BY <2>1, ImageAssumption
      <3>2. QED
        BY <3>1 DEF Wanted
    <2>3. QED
      BY <2>1, <2>2 DEF LayingOf
  <1>3. CASE ~StartBuild(b)
    <2>1. pc[b] # "none" /\ UNCHANGED order
      BY <1>3 DEF BuildStep, Clear, MakePackages, Copy, WriteDockerfile, Send, Build
    <2>2. Wanted(b)' = Wanted(b) /\ \A i : Laid(b, i)' = Laid(b, i)
      BY <2>1 DEF Wanted, Laid
    <2>3. order[b] \in Orders /\ Len(Wanted(b)) \in Nat \ {0}
      BY <1>1, <2>1, OrderWanted, ImageAssumption DEF LayingOf
    <2>4. CASE Clear(b) \/ MakePackages(b) \/ WriteDockerfile(b) \/ Send(b) \/ Build(b)
      <3>1. UNCHANGED <<at, requirements>> /\ pc'[b] # "none"
        BY <1>1, <2>4 DEF Clear, MakePackages, WriteDockerfile, Send, Build, GoTo, BuildTables
      <3>2. pc'[b] \in {"clearing", "making"} => at[b] = 1
        BY <1>1, <2>1, <2>4 DEF Clear, MakePackages, WriteDockerfile, Send, Build, GoTo, BuildTables,
           LayingOf
      <3>3. pc'[b] \in {"sending", "building", "built"} => at[b] = Len(Wanted(b)) + 1
        BY <1>1, <2>1, <2>3, <2>4 DEF Clear, MakePackages, WriteDockerfile, Send, Build, GoTo,
           BuildTables, LayingOf
      <3>4. QED
        BY <1>1, <2>1, <2>2, <3>1, <3>2, <3>3 DEF LayingOf
    <2>5. CASE Copy(b)
      <3>1. CASE UNCHANGED <<at, requirements>>
        BY <1>1, <2>1, <2>2, <2>5, <3>1 DEF Copy, GoTo, BuildTables, LayingOf
      <3>2. CASE ~UNCHANGED <<at, requirements>>
        <4>1. /\ UNCHANGED pc /\ pc[b] = "copying" /\ at[b] <= Len(Wanted(b))
              /\ at'[b] = at[b] + 1 /\ requirements'[b] = Append(requirements[b], Laid(b, at[b]))
          BY <1>1, <2>5, <3>2 DEF Copy, BuildTables
        <4>2. requirements'[b] = [i \in 1 .. at[b] |-> Laid(b, i)]
          BY <1>1, <2>1, <2>3, <4>1 DEF LayingOf
        <4>3. QED
          BY <1>1, <2>1, <2>2, <2>3, <4>1, <4>2 DEF LayingOf
      <3>3. QED
        BY <3>1, <3>2
    <2>6. QED
      BY <1>3, <2>4, <2>5 DEF BuildStep
  <1>4. QED
    BY <1>2, <1>3

LEMMA LayStep == LayInv /\ [Next]_vars => LayInv'
  <1> SUFFICES ASSUME LayInv, [Next]_vars PROVE LayInv'
    OBVIOUS
  <1>0. BuildTables /\ \A b \in Builds : LayingOf(b)
    BY DEF LayInv, Laying
  <1>1. ASSUME NEW b \in Builds, BuildStep(b) PROVE LayInv'
    <2>1. BuildTables' /\ \A c \in Builds \ {b} : UNCHANGED StateOf(c)
      BY <1>0, <1>1, BuildMoves
    <2>2. ASSUME NEW c \in Builds \ {b}, pc[c] = "none" PROVE beside'[c] = FALSE
      <3>1. beside[c] = FALSE /\ c \in Commands
        BY <1>0, <2>2 DEF LayingOf, Commands
      <3>2. \A d : c \notin Working(d)
        BY <2>2 DEF Working
      <3>3. CASE StartBuild(b)
        BY <2>2, <3>1, <3>2, <3>3 DEF StartBuild
      <3>4. QED
        BY <1>1, <3>1, <3>3 DEF BuildStep, Clear, MakePackages, Copy, WriteDockerfile, Send, Build
    <2>3. \A c \in Builds : LayingOf(c)'
      BY <1>0, <1>1, <2>1, <2>2, LayingBuilds, LayingKeeps
    <2>4. QED
      BY <2>1, <2>3 DEF LayInv, Laying
  <1>2. CASE \A b \in Builds : ~BuildStep(b)
    <2>1. BuildTables' /\ \A b \in Builds : UNCHANGED StateOf(b) /\ beside'[b] = beside[b]
      BY <1>0, <1>2, BuildsStand
    <2>2. \A b \in Builds : LayingOf(b)'
      BY <1>0, <2>1, LayingKeeps DEF LayingOf
    <2>3. QED
      BY <2>1, <2>2 DEF LayInv, Laying
  <1>3. QED
    BY <1>1, <1>2

LEMMA LayHolds == Spec => []LayInv
  BY LayInit, LayStep, PTL DEF Spec

-----------------------------------------------------------------------------
(* A policy that is checked loads                                          *)

Listed(f) == f.requirements \in Seq(Requirements)

\* Another build may have left the file empty.
Readable(f) == f = None \/ Listed(f)

Vetted(image) ==
    /\ Listed(image.file)
    /\ image.file.check => Checks(image.file.policy, image.file.requirements)

CheckInv ==
    /\ \A b \in Builds :
          /\ pc[b] = "sending" => Readable(dockerfile[Dir(b)])
          /\ pc[b] = "building" => Readable(sent[b].file)
    /\ \A t \in Tags : images[t] # None => Vetted(images[t])
    /\ served # None => Vetted(served.image) /\ CheckedPolicyLoads

LEMMA CheckInit == Init => CheckInv
  BY DEF Init, CheckInv, Commands

\* A policy that is installed takes some arguments.
LEMMA InstalledTakes ==
  ASSUME NEW f, Listed(f) PROVE Installed(f.requirements) \subseteq DOMAIN Takes
  <1>1. SUFFICES ASSUME NEW r \in Range(f.requirements), NEW p \in Contents[r.name]
                 PROVE  p \in DOMAIN Takes
    BY DEF Installed
  <1>2. r \in Requirements
    BY <1>1 DEF Listed, Range
  <1>3. r.name \in DOMAIN Contents
    BY <1>2 DEF Requirements
  <1>4. QED
    BY <1>1, <1>3, ImageAssumption

\* An image that was vetted serves its policy.
LEMMA VettedLoads ==
  ASSUME NEW image, Vetted(image), NEW c, Serve(image, c)
  PROVE  (served # None => Vetted(served.image) /\ CheckedPolicyLoads)'
  <1>1. /\ served'.image = image /\ served'.config = c
        /\ served'.loads = Loads(Policy(image, c), Arguments(image, c), image.file.requirements)
    BY DEF Serve
  <1>2. Vetted(served.image)'
    BY <1>1 DEF Vetted, Listed, Checks, Installed
  <1>3. ASSUME c = Plain, image.file.check, image.file.policy.module # None,
               DOMAIN image.file.args \subseteq Takes[image.file.policy]
        PROVE  served'.loads
    <2>1. Policy(image, c) = image.file.policy
      BY <1>3 DEF Policy, Environment, Plain
    <2>2. c.args = <<>> /\ Environment(image, c) = image.file.policy
      BY <1>3 DEF Environment, Plain
    <2>3. DOMAIN Arguments(image, c) = DOMAIN image.file.args
      <3>1. Baked(image, c) = image.file.args
        BY <2>1, <2>2 DEF Baked
      <3>2. DOMAIN c.args = {}
        BY <2>2
      <3>3. QED
        BY <3>1, <3>2 DEF Arguments
    <2>4. image.file.policy \in Installed(image.file.requirements)
      BY <1>3 DEF Vetted, Checks
    <2>5. image.file.policy \in DOMAIN Takes
      BY <2>4, InstalledTakes DEF Vetted
    <2>6. QED
      BY <1>1, <1>3, <2>1, <2>3, <2>4, <2>5 DEF Loads
  <1>4. QED
    BY <1>1, <1>2, <1>3 DEF CheckedPolicyLoads

\* What a build renders lists requirements.
LEMMA RenderedListed ==
  ASSUME LayInv, NEW b \in Builds, WriteDockerfile(b) PROVE Listed(Rendered(b))
  <1>1. pc[b] = "copying" /\ LayingOf(b)
    BY DEF WriteDockerfile, LayInv, Laying
  <1>2. order[b] \in Orders /\ at[b] \in 1 .. Len(Wanted(b)) + 1
        /\ requirements[b] = [i \in 1 .. at[b] - 1 |-> Laid(b, i)]
    BY <1>1 DEF LayingOf
  <1>3. \A i \in 1 .. Len(Wanted(b)) : Laid(b, i) \in Requirements
    BY <1>2, OrderWanted
  <1>4. at[b] - 1 \in 0 .. Len(Wanted(b)) /\ Len(Wanted(b)) \in Nat
    BY <1>2, OrderWanted
  <1>5. requirements[b] \in Seq(Requirements)
    BY <1>2, <1>3, <1>4
  <1>6. QED
    BY <1>5 DEF Listed, Rendered

LEMMA CheckBuilds ==
  ASSUME LayInv, CheckInv, NEW b \in Builds, BuildStep(b) PROVE CheckInv'
  <1>0. BuildTables /\ b \in Commands /\ LayingOf(b)
    BY DEF LayInv, Laying, Commands
  <1>1. UNCHANGED served
    BY DEF BuildStep, StartBuild, Clear, MakePackages, Copy, WriteDockerfile, Send, Build
  <1>2. (served # None => Vetted(served.image) /\ CheckedPolicyLoads)'
    BY <1>1 DEF CheckInv, Vetted, Listed, Checks, CheckedPolicyLoads
  <1>3. BuildTables' /\ \A c \in Builds \ {b} : UNCHANGED StateOf(c)
    BY <1>0, BuildMoves
  <1>4. \A c \in Builds \ {b} : /\ pc'[c] = pc[c] /\ sent'[c] = sent[c]
                                /\ Dir(c)' = Dir(c)
    BY <1>3 DEF StateOf, Dir
  <1>5. ASSUME NEW c \in Builds, pc'[c] = "building" PROVE Readable(sent[c].file)'
    <2>1. CASE c # b
      BY <1>4, <1>5, <2>1 DEF CheckInv, Readable, Listed
    <2>2. CASE c = b
      <3>1. Send(b)
        BY <1>0, <1>5, <2>2 DEF BuildStep, StartBuild, Clear, MakePackages, Copy, WriteDockerfile,
           Send, Build, GoTo, BuildTables
      <3>2. sent'[b].file = dockerfile[Dir(b)] /\ pc[b] = "sending"
        BY <1>0, <3>1 DEF Send, BuildTables
      <3>3. QED
        BY <2>2, <3>2 DEF CheckInv, Readable, Listed
    <2>3. QED
      BY <2>1, <2>2
  <1>6. ASSUME NEW c \in Builds, pc'[c] = "sending" PROVE Readable(dockerfile[Dir(c)])'
    <2>1. CASE WriteDockerfile(b)
      <3> DEFINE d == Dir(b)
      <3>1. /\ UNCHANGED order /\ pc[b] = "copying"
            /\ \/ dockerfile' = [dockerfile EXCEPT ![d] = Rendered(b)]
               \/ dockerfile' \in Torn(dockerfile, d) /\ pc'[b] = "crashed"
        BY <1>0, <2>1 DEF WriteDockerfile, GoTo, BuildTables
      <3>2. Listed(Rendered(b))
        BY <2>1, RenderedListed
      <3>3. d \in Dirs /\ Dir(b)' = d
        BY <1>0, <3>1, ImageAssumption DEF Dir, LayingOf
      <3>4. c # b => Readable(dockerfile[Dir(c)]) /\ Dir(c)' = Dir(c)
        BY <1>4, <1>6 DEF CheckInv
      <3>5. c # b => Dir(c) \in Dirs
        BY <1>4, <1>6, ImageAssumption DEF LayInv, Laying, LayingOf, Dir
      <3>6. \/ dockerfile'[Dir(c)] = Rendered(b) \/ dockerfile'[Dir(c)] = None
            \/ c # b /\ dockerfile'[Dir(c)] = dockerfile[Dir(c)]
        BY <1>0, <1>6, <3>1, <3>3, <3>5 DEF BuildTables, Torn
      <3>7. QED
        BY <3>2, <3>3, <3>4, <3>6 DEF Readable, Listed
    <2>2. CASE ~WriteDockerfile(b)
      <3>1. UNCHANGED dockerfile /\ c # b
        BY <1>0, <1>6, <2>2 DEF BuildStep, StartBuild, Clear, MakePackages, Copy, Send, Build,
           GoTo, BuildTables, files
      <3>2. QED
        BY <1>4, <1>6, <3>1 DEF CheckInv, Readable, Listed
    <2>3. QED
      BY <2>1, <2>2
  <1>7. ASSUME NEW t \in Tags, images'[t] # None PROVE Vetted(images[t])'
    <2>1. CASE images'[t] = images[t]
      BY <1>7, <2>1 DEF CheckInv, Vetted, Listed, Checks
    <2>2. CASE images'[t] # images[t]
      <3>1. /\ pc[b] = "building" /\ Succeeds(b)
            /\ images'[t] = [by |-> b, file |-> sent[b].file, packages |-> sent[b].packages]
        BY <1>0, <2>2 DEF BuildStep, StartBuild, Clear, MakePackages, Copy, WriteDockerfile, Send,
           Build, BuildTables
      <3>2. Listed(sent[b].file)
        BY <3>1 DEF CheckInv, Readable, Succeeds
      <3>3. sent[b].file.check => Checks(sent[b].file.policy, sent[b].file.requirements)
        BY <3>1 DEF Succeeds
      <3>4. images'[t].file = sent[b].file
        BY <3>1
      <3>5. QED
        BY <3>2, <3>3, <3>4 DEF Vetted, Listed, Checks
    <2>3. QED
      BY <2>1, <2>2
  <1>8. QED
    BY <1>2, <1>5, <1>6, <1>7 DEF CheckInv

LEMMA CheckStep == LayInv /\ CheckInv /\ [Next]_vars => CheckInv'
  <1> SUFFICES ASSUME LayInv, CheckInv, [Next]_vars PROVE CheckInv'
    OBVIOUS
  <1>1. CASE \A b \in Builds : ~BuildStep(b)
    <2>1. /\ UNCHANGED <<dockerfile, images>>
          /\ \A b \in Builds : UNCHANGED StateOf(b)
      BY <1>1, BuildsStand DEF LayInv
    <2>2. \A b \in Builds : pc'[b] = pc[b] /\ sent'[b] = sent[b] /\ Dir(b)' = Dir(b)
      BY <2>1 DEF StateOf, Dir
    <2>3. (served # None => Vetted(served.image) /\ CheckedPolicyLoads)'
      <3>1. CASE Run
        <4>1. PICK t \in Tags : images[t] # None /\ \E c : Serve(images[t], c)
          BY <3>1 DEF Run
        <4>2. Vetted(images[t])
          BY <4>1 DEF CheckInv
        <4>3. QED
          BY <4>1, <4>2, VettedLoads
      <3>2. CASE ~Run
        <4>1. UNCHANGED served
          BY <1>1, <3>2 DEF Next, BuildStep, StartConfig, EndConfig, Finished, vars
        <4>2. QED
          BY <4>1 DEF CheckInv, Vetted, Listed, Checks, CheckedPolicyLoads
      <3>3. QED
        BY <3>1, <3>2
    <2>4. (\A t \in Tags : images[t] # None => Vetted(images[t]))'
      BY <2>1 DEF CheckInv, Vetted, Listed, Checks
    <2>5. (\A b \in Builds : /\ pc[b] = "sending" => Readable(dockerfile[Dir(b)])
                             /\ pc[b] = "building" => Readable(sent[b].file))'
      BY <2>1, <2>2 DEF CheckInv, Readable, Listed
    <2>6. QED
      BY <2>3, <2>4, <2>5 DEF CheckInv
  <1>2. QED
    BY <1>1, CheckBuilds

\* alpasim.py's last check does what it is for, also when builds share a directory:
\* a container of an image that was checked loads the image's policy.
THEOREM CheckedImagesLoad == Spec => []CheckedPolicyLoads
  <1>1. Spec => []CheckInv
    BY LayHolds, CheckInit, CheckStep, PTL DEF Spec
  <1>2. CheckInv => CheckedPolicyLoads
    BY DEF CheckInv, CheckedPolicyLoads
  <1>3. QED
    BY <1>1, <1>2, PTL

-----------------------------------------------------------------------------
(* A build with its directory to itself                                    *)

Busy(b) == pc[b] \notin {"none"} \cup Ends

Alone(b) == Busy(b) /\ ~beside[b]

\* The local packages a build has laid out.
Locals(b) == {r \in Range(requirements[b]) : Local(r)}

\* A build knows of every other that works in its directory.
Apart == \A b, c \in Builds : Alone(b) /\ Busy(c) /\ Dir(c) = Dir(b) => c = b

\* Its directory, and what docker reads of it, hold what it has laid out.
Packing(b) ==
    Alone(b) =>
        /\ pc[b] \in {"copying", "sending"} => packages[Dir(b)] = Locals(b)
        /\ pc[b] = "sending" => dockerfile[Dir(b)] = Rendered(b)
        /\ pc[b] = "building" => /\ sent[b].packages = Locals(b)
                                 /\ sent[b].file = Rendered(b)

\* An image is of a build that is over, and is what that build laid out.
Tagged(t) ==
    images[t] # None =>
        LET b == images[t].by IN
        /\ b \in Builds /\ pc[b] = "built"
        /\ ~beside[b] => images[t].file = Rendered(b) /\ images[t].packages = Locals(b)

PackInv == Apart /\ (\A b \in Builds : Packing(b)) /\ (\A t \in Tags : Tagged(t))

LEMMA PackInit == Init => PackInv
  BY DEF Init, PackInv, Apart, Packing, Tagged, Alone, Busy, Commands

LEMMA StateStands ==
  ASSUME NEW b, UNCHANGED StateOf(b)
  PROVE  /\ Busy(b)' = Busy(b) /\ Dir(b)' = Dir(b)
         /\ Rendered(b)' = Rendered(b) /\ Locals(b)' = Locals(b)
         /\ UNCHANGED <<pc[b], sent[b]>>
  BY DEF StateOf, Busy, Dir, Rendered, Locals

\* The local packages are never None, of whatever list.
LEMMA LocalsThere ==
  ASSUME NEW b \in Builds, LayingOf(b), pc[b] # "none"
  PROVE  Locals(b) # None
  <1>1. order[b] \in Orders /\ at[b] \in 1 .. Len(Wanted(b)) + 1
        /\ requirements[b] = [i \in 1 .. at[b] - 1 |-> Laid(b, i)]
    BY DEF LayingOf
  <1>2. ASSUME NEW r \in Locals(b) PROVE r \in Numbered(order[b])
    <2>1. PICK i \in 1 .. at[b] - 1 : r = Laid(b, i)
      BY <1>1 DEF Locals, Range
    <2>2. i \in 1 .. Len(Wanted(b))
      BY <1>1, OrderWanted
    <2>3. QED
      BY <1>1, <2>1, <2>2, OrderWanted DEF Locals
  <1>3. Locals(b) \in SUBSET Numbered(order[b])
    BY <1>2
  <1>4. QED
    BY <1>1, <1>3, ImageAssumption

\* A build that begins in a directory is known to those at work in it, and they to it.
LEMMA ApartStarts ==
  ASSUME LayInv, Apart, NEW b \in Builds, StartBuild(b) PROVE Apart'
  <1>0. BuildTables /\ b \in Commands /\ \A c \in Builds : c \in Commands
    BY DEF LayInv, Commands
  <1>1. \A c \in Builds \ {b} : Busy(c)' = Busy(c) /\ Dir(c)' = Dir(c)
    BY <1>0, BuildMoves, StateStands DEF BuildStep
  <1>2. \A c \in Builds : beside[c] => beside'[c]
    BY <1>0 DEF StartBuild, BuildTables
  <1>3. pc'[b] \in {"clearing", "usage"} /\ pc[b] = "none"
    BY <1>0 DEF StartBuild, GoTo, BuildTables
  <1>4. ASSUME NEW c \in Builds \ {b}, Busy(b)', Busy(c), Dir(c) = Dir(b)'
        PROVE  beside'[b] /\ beside'[c]
    <2>1. pc'[b] = "clearing"
      BY <1>3, <1>4 DEF Busy, Ends
    <2>2. c \in Working(Dir(b)')
      BY <1>4 DEF Working, Busy
    <2>3. QED
      BY <1>0, <2>1, <2>2 DEF StartBuild
  <1>5. QED
    BY <1>1, <1>2, <1>4 DEF Apart, Alone

LEMMA PackingBuilds ==
  ASSUME LayInv, PackInv, NEW b \in Builds, BuildStep(b) PROVE Packing(b)'
  <1>0. BuildTables /\ b \in Commands /\ LayingOf(b) /\ Packing(b)
    BY DEF LayInv, Laying, PackInv, Commands
  <1>1. CASE StartBuild(b) \/ Clear(b) \/ Build(b)
    <2>1. pc'[b] \in {"clearing", "usage", "making", "built", "failed", "crashed"}
      BY <1>0, <1>1 DEF StartBuild, Clear, Build, GoTo, BuildTables
    <2>2. QED
      BY <2>1 DEF Packing
  <1>2. CASE ~(StartBuild(b) \/ Clear(b) \/ Build(b))
    <2>1. UNCHANGED <<order, beside, images>> /\ Busy(b)
      BY <1>2 DEF BuildStep, MakePackages, Copy, WriteDockerfile, Send, Busy, Ends
    <2>2. Dir(b)' = Dir(b) /\ Dir(b) \in Dirs
      BY <1>0, <2>1, ImageAssumption DEF LayingOf, Dir, Busy
    <2>3. SUFFICES ASSUME Alone(b) PROVE Packing(b)'
      BY <2>1 DEF Packing, Alone
    <2>4. CASE MakePackages(b)
      <3>1. CASE pc'[b] = "copying"
        <4>1. packages'[Dir(b)] = {} /\ requirements' = requirements
          BY <1>0, <2>2, <2>4, <3>1 DEF MakePackages, GoTo, BuildTables
        <4>2. Range(requirements[b]) = {}
          BY <1>0, <2>4 DEF MakePackages, LayingOf, Range
        <4>3. QED
          BY <2>2, <3>1, <4>1, <4>2 DEF Packing, Locals
      <3>2. CASE pc'[b] # "copying"
        <4>1. pc'[b] = "crashed"
          BY <1>0, <2>4, <3>2 DEF MakePackages, GoTo, BuildTables
        <4>2. QED
          BY <4>1 DEF Packing
      <3>3. QED
        BY <3>1, <3>2
    <2>5. CASE Copy(b)
      <3>1. CASE pc'[b] = "copying"
        <4>1. packages[Dir(b)] = Locals(b) /\ Locals(b) # None
          BY <1>0, <2>3, <2>5, LocalsThere DEF Copy, Packing
        <4> DEFINE r == Laid(b, at[b])
        <4>3. /\ requirements'[b] = Append(requirements[b], r)
              /\ packages'[Dir(b)] = IF Local(r) THEN Locals(b) \cup {r} ELSE Locals(b)
          BY <1>0, <2>2, <2>5, <3>1, <4>1 DEF Copy, GoTo, BuildTables
        <4>4. Range(requirements'[b]) = Range(requirements[b]) \cup {r}
          <5>1. /\ requirements[b] = [i \in 1 .. at[b] - 1 |-> Laid(b, i)]
                /\ at[b] \in 1 .. Len(Wanted(b)) + 1 /\ order[b] \in Orders
            BY <1>0, <2>5 DEF Copy, LayingOf
          <5>2. Len(Wanted(b)) \in Nat
            BY <5>1, OrderWanted
          <5>3. PICK n \in Nat : n = at[b] - 1
            BY <5>1, <5>2
          <5>4. DOMAIN requirements[b] = 1 .. n /\ requirements[b] \in Seq({Laid(b, i) : i \in 1 .. n})
            BY <5>1, <5>3
          <5>5. QED
            BY <4>3, <5>4 DEF Range
        <4>5. packages'[Dir(b)] = {s \in Range(requirements'[b]) : Local(s)}
          BY <4>3, <4>4 DEF Locals
        <4>6. QED
          BY <2>2, <3>1, <4>5 DEF Packing, Locals, Local
      <3>2. CASE pc'[b] # "copying"
        <4>1. pc'[b] \in {"usage", "crashed"}
          BY <1>0, <2>5, <3>2 DEF Copy, GoTo, BuildTables
        <4>2. QED
          BY <4>1 DEF Packing
      <3>3. QED
        BY <3>1, <3>2
    <2>6. CASE WriteDockerfile(b)
      <3>1. /\ UNCHANGED <<packages, requirements, order>> /\ pc'[b] \in {"sending", "written", "crashed"}
            /\ pc'[b] = "sending" => dockerfile'[Dir(b)] = Rendered(b)
            /\ pc[b] = "copying"
        BY <1>0, <2>2, <2>6 DEF WriteDockerfile, GoTo, BuildTables
      <3>2. packages[Dir(b)] = Locals(b)
        BY <1>0, <2>3, <3>1 DEF Packing
      <3>3. Rendered(b)' = Rendered(b) /\ Locals(b)' = Locals(b)
        BY <3>1 DEF Rendered, Locals
      <3>4. QED
        BY <2>2, <3>1, <3>2, <3>3 DEF Packing
    <2>7. CASE Send(b)
      <3>1. /\ UNCHANGED <<requirements, order>> /\ pc'[b] = "building" /\ pc[b] = "sending"
            /\ sent'[b].packages = packages[Dir(b)] /\ sent'[b].file = dockerfile[Dir(b)]
        BY <1>0, <2>7 DEF Send, GoTo, BuildTables
      <3>2. packages[Dir(b)] = Locals(b) /\ dockerfile[Dir(b)] = Rendered(b)
        BY <1>0, <2>3, <3>1 DEF Packing
      <3>3. Rendered(b)' = Rendered(b) /\ Locals(b)' = Locals(b)
        BY <3>1 DEF Rendered, Locals
      <3>4. QED
        BY <3>1, <3>2, <3>3 DEF Packing
    <2>8. QED
      BY <1>2, <2>4, <2>5, <2>6, <2>7 DEF BuildStep
  <1>3. QED
    BY <1>1, <1>2

\* An image once tagged is of a build that steps no more; a new one is of what
\* docker has read.
LEMMA TaggedBuilds ==
  ASSUME LayInv, PackInv, NEW b \in Builds, BuildStep(b), NEW t \in Tags PROVE Tagged(t)'
  <1>0. BuildTables /\ b \in Commands /\ Tagged(t) /\ Packing(b)
    BY DEF LayInv, PackInv, Commands
  <1>1. \A c \in Builds : ~beside'[c] => ~beside[c]
    BY <1>0 DEF BuildStep, StartBuild, Clear, MakePackages, Copy, WriteDockerfile, Send, Build,
       BuildTables, Commands
  <1>2. CASE images'[t] = images[t]
    <2>1. SUFFICES ASSUME images[t] # None PROVE Tagged(t)'
      BY <1>2 DEF Tagged
    <2>2. images[t].by \in Builds \ {b}
      BY <1>0, <2>1 DEF Tagged, BuildStep, StartBuild, Clear, MakePackages, Copy, WriteDockerfile,
         Send, Build
    <2>3. PICK c \in Builds \ {b} : c = images[t].by
      BY <2>2
    <2>4. pc'[c] = pc[c] /\ Rendered(c)' = Rendered(c) /\ Locals(c)' = Locals(c)
      BY <1>0, BuildMoves, StateStands
    <2>5. images'[t].by = c
      BY <1>2, <2>3
    <2>6. QED
      BY <1>0, <1>1, <1>2, <2>1, <2>3, <2>4, <2>5 DEF Tagged
  <1>3. CASE images'[t] # images[t]
    <2>1. /\ Build(b) /\ pc[b] = "building" /\ pc'[b] = "built" /\ UNCHANGED <<order, requirements, beside>>
          /\ images'[t] = [by |-> b, file |-> sent[b].file, packages |-> sent[b].packages]
      BY <1>0, <1>3 DEF BuildStep, StartBuild, Clear, MakePackages, Copy, WriteDockerfile, Send,
         Build, GoTo, BuildTables
    <2>2. ~beside[b] => sent[b].packages = Locals(b) /\ sent[b].file = Rendered(b)
      BY <1>0, <2>1 DEF Packing, Alone, Busy, Ends
    <2>3. Rendered(b)' = Rendered(b) /\ Locals(b)' = Locals(b)
      BY <2>1 DEF Rendered, Locals
    <2>4. /\ images'[t].by = b /\ images'[t].file = sent[b].file
          /\ images'[t].packages = sent[b].packages
      BY <2>1
    <2>5. QED
      BY <2>1, <2>2, <2>3, <2>4 DEF Tagged
  <1>4. QED
    BY <1>2, <1>3

LEMMA PackBuilds ==
  ASSUME LayInv, PackInv, NEW b \in Builds, BuildStep(b) PROVE PackInv'
  <1>0. BuildTables /\ b \in Commands
    BY DEF LayInv, Commands
  <1>1. \A c \in Builds \ {b} : UNCHANGED StateOf(c)
    BY <1>0, BuildMoves
  <1>2. \A c \in Builds : ~beside'[c] => ~beside[c]
    BY <1>0 DEF BuildStep, StartBuild, Clear, MakePackages, Copy, WriteDockerfile, Send, Build,
       BuildTables, Commands
  <1>3. Apart'
    <2>1. CASE StartBuild(b)
      BY <2>1, ApartStarts DEF PackInv
    <2>2. CASE ~StartBuild(b)
      <3>1. Busy(b) /\ UNCHANGED order
        BY <2>2 DEF BuildStep, Clear, MakePackages, Copy, WriteDockerfile, Send, Build, Busy, Ends
      <3>2. \A c \in Builds : Dir(c)' = Dir(c) /\ (Busy(c)' => Busy(c))
        BY <1>1, <3>1, StateStands DEF Dir
      <3>3. QED
        BY <1>2, <3>2 DEF PackInv, Apart, Alone
    <2>3. QED
      BY <2>1, <2>2
  <1>4. ASSUME NEW c \in Builds, c # b PROVE Packing(c)'
    <2>1. SUFFICES ASSUME Alone(c)' PROVE Packing(c)'
      BY DEF Packing
    <2>2. /\ Busy(c)' = Busy(c) /\ Dir(c)' = Dir(c) /\ Rendered(c)' = Rendered(c)
          /\ Locals(c)' = Locals(c) /\ UNCHANGED <<pc[c], sent[c]>>
      BY <1>1, <1>4, StateStands
    <2>3. Alone(c) /\ Packing(c)
      BY <1>2, <2>1, <2>2 DEF Alone, PackInv
    <2>4. packages'[Dir(c)] = packages[Dir(c)] /\ dockerfile'[Dir(c)] = dockerfile[Dir(c)]
      <3>1. CASE StartBuild(b)
        BY <3>1 DEF StartBuild, files
      <3>2. CASE ~StartBuild(b)
        <4>1. Busy(b)
          BY <3>2 DEF BuildStep, Clear, MakePackages, Copy, WriteDockerfile, Send, Build, Busy, Ends
        <4>2. Dir(b) # Dir(c)
          BY <1>4, <2>3, <4>1 DEF PackInv, Apart
        <4>3. Dir(c) \in Dirs
          BY <2>3, ImageAssumption DEF Alone, Busy, LayInv, Laying, LayingOf, Dir
        <4>4. QED
          BY <1>0, <3>2, <4>2, <4>3 DEF BuildStep, Clear, MakePackages, Copy, WriteDockerfile, Torn,
             Send, Build, files, BuildTables
      <3>3. QED
        BY <3>1, <3>2
    <2>5. QED
      BY <2>2, <2>3, <2>4 DEF Packing
  <1>5. QED
    BY <1>3, <1>4, PackingBuilds, TaggedBuilds DEF PackInv

LEMMA PackStep == LayInv /\ PackInv /\ [Next]_vars => PackInv'
  <1> SUFFICES ASSUME LayInv, PackInv, [Next]_vars PROVE PackInv'
    OBVIOUS
  <1>1. CASE \A b \in Builds : ~BuildStep(b)
    <2>1. /\ UNCHANGED <<packages, dockerfile, images>>
          /\ \A b \in Builds : UNCHANGED StateOf(b) /\ beside'[b] = beside[b]
      BY <1>1, BuildsStand DEF LayInv
    <2>2. \A b \in Builds : /\ Alone(b)' = Alone(b) /\ Busy(b)' = Busy(b) /\ Dir(b)' = Dir(b)
                            /\ Rendered(b)' = Rendered(b) /\ Locals(b)' = Locals(b)
                            /\ pc'[b] = pc[b] /\ sent'[b] = sent[b] /\ beside'[b] = beside[b]
      BY <2>1, StateStands DEF Alone
    <2>3. Apart' /\ \A b \in Builds : Packing(b)'
      BY <2>1, <2>2 DEF PackInv, Apart, Packing
    <2>4. ASSUME NEW t \in Tags PROVE Tagged(t)'
      <3>1. SUFFICES ASSUME images[t] # None PROVE Tagged(t)'
        BY <2>1 DEF Tagged
      <3>2. PICK b \in Builds : b = images[t].by
        BY <3>1 DEF PackInv, Tagged
      <3>3. images'[t] = images[t] /\ images'[t].by = b
        BY <2>1, <3>2
      <3>4. QED
        BY <2>2, <3>1, <3>2, <3>3 DEF PackInv, Tagged
    <2>5. QED
      BY <2>3, <2>4 DEF PackInv
  <1>2. QED
    BY <1>1, PackBuilds

\* An image tagged by a build that had its directory to itself holds what that build was
\* asked for, in order, and no package besides, whatever earlier builds left there.
THEOREM ImagesAsOrdered == Spec => []ImageOfItsOrder
  <1>1. Spec => [](LayInv /\ PackInv)
    BY LayHolds, PackInit, PackStep, PTL DEF Spec
  <1>2. LayInv /\ PackInv => ImageOfItsOrder
    <2>1. SUFFICES ASSUME LayInv, PackInv, NEW t \in Tags,
                          images[t] # None, ~beside[images[t].by]
                   PROVE  LET b == images[t].by IN
                          /\ images[t].file.policy = order[b].policy
                          /\ images[t].file.args = order[b].args
                          /\ images[t].file.requirements = [i \in DOMAIN Wanted(b) |-> Laid(b, i)]
                          /\ images[t].packages =
                                {r \in Range(images[t].file.requirements) : Local(r)}
      BY DEF ImageOfItsOrder
    <2>2. PICK b \in Builds : /\ b = images[t].by /\ pc[b] = "built"
                              /\ images[t].file = Rendered(b) /\ images[t].packages = Locals(b)
      BY <2>1 DEF PackInv, Tagged
    <2>3. /\ order[b] \in Orders /\ at[b] = Len(Wanted(b)) + 1
          /\ requirements[b] = [i \in 1 .. at[b] - 1 |-> Laid(b, i)]
      BY <2>1, <2>2 DEF LayInv, Laying, LayingOf
    <2>4. DOMAIN Wanted(b) = 1 .. at[b] - 1
      BY <2>3, OrderWanted
    <2>5. QED
      BY <2>2, <2>3, <2>4 DEF Rendered, Locals
  <1>3. QED
    BY <1>1, <1>2, PTL
=============================================================================
