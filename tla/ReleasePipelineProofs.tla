------------------------ MODULE ReleasePipelineProofs ------------------------
(***************************************************************************)
(* Theorems about ReleasePipeline, for any number of runs of the workflow  *)
(* and however often failed ones are started again.  What makes the        *)
(* invariants inductive: a commit's version never changes, and a version   *)
(* has one bump commit, because versions only increase along main.         *)
(***************************************************************************)
EXTENDS ReleasePipeline, TLAPS

Versions == Nat \X Nat \X Nat

Commit == [version : Versions, bump : BOOLEAN]

LEMMA BumpIsNewer ==
    ASSUME NEW v \in Versions, NEW kind \in Kinds
    PROVE  Bump(v, kind) \in Versions /\ Newer(Bump(v, kind), v)
  BY DEF Versions, Bump, Newer, Kinds

LEMMA NewerIrreflexive == ASSUME NEW v \in Versions PROVE ~Newer(v, v)
  BY DEF Versions, Newer

LEMMA NewerThanOlder ==
    ASSUME NEW u \in Versions, NEW v \in Versions, NEW w \in Versions,
           Newer(w, v), ~Newer(u, v)
    PROVE  Newer(w, u) /\ ~Newer(u, w)
  BY DEF Versions, Newer

LEMMA OlderTransitive ==
    ASSUME NEW u \in Versions, NEW v \in Versions, NEW w \in Versions,
           ~Newer(u, v), ~Newer(v, w)
    PROVE  ~Newer(u, w)
  BY DEF Versions, Newer

-----------------------------------------------------------------------------
(* The invariant                                                           *)

Releasing == {"tag", "push tag", "release", "create", "build", "publish"}

RunPlaces ==
    Releasing \cup {"none", "labels", "push", "resolve", "failed", "no release", "done"}

Typed ==
    /\ main \in Seq(Commit) /\ main # <<>>
    /\ pc \in [Runs -> RunPlaces]
    /\ version \in [Runs -> Versions \cup {None}]
    /\ main0 \in [Runs -> Versions]
    /\ marks \in [Runs -> BOOLEAN]
    /\ head = [r \in Runs |-> head[r]]
    /\ sha = [r \in Runs |-> sha[r]]
    /\ \A f \in pypi : f.file \in Files

\* i is the bump commit of v.
BumpOf(i, v) == i \in DOMAIN main /\ main[i].bump /\ main[i].version = v

\* What a run knows, by where it is.
RunOK(r) ==
    /\ pc[r] # "none" => head[r] \in DOMAIN main /\ main[head[r]].version = main0[r]
    /\ pc[r] = "push" => version[r] \in Versions /\ Newer(version[r], main0[r])
    /\ pc[r] = "resolve" => version[r] \in Versions
    /\ pc[r] \in Releasing =>
          /\ version[r] \in Versions /\ BumpOf(sha[r], version[r])
          /\ marks[r] => ~Newer(main0[r], version[r])
    /\ pc[r] \in {"release", "create", "build", "publish", "done"} => Tagged(version[r])
    /\ pc[r] \in {"build", "publish", "done"} => version[r] \in releases
    /\ pc[r] = "done" => There(version[r]) = Files

Artifacts == \A t \in tags \cup pypi : BumpOf(t.commit, t.version)

LatestOK ==
    latest # None => /\ latest.run \in Runs /\ pc[latest.run] # "none"
                     /\ ~Newer(main0[latest.run], latest.version)

Inv ==
    /\ Typed /\ VersionsIncrease /\ Artifacts /\ LatestOK
    /\ \A r \in Runs : RunOK(r)

LEMMA InvInit == Init => Inv
  <1> SUFFICES ASSUME Init PROVE Inv
    OBVIOUS
  <1> USE PipelineAssumption
  <1>1. main \in Seq(Commit) /\ main # <<>> /\ Len(main) = 1
    BY DEF Init, Commit, Versions
  <1>2. Typed
    BY <1>1 DEF Init, Typed, Versions, RunPlaces, Releasing
  <1>3. VersionsIncrease
    BY <1>1 DEF VersionsIncrease
  <1>4. QED
    BY <1>2, <1>3 DEF Init, Inv, Artifacts, LatestOK, RunOK, Releasing

-----------------------------------------------------------------------------
(* What no step takes back                                                 *)

Grows ==
    /\ main' \in Seq(Commit) /\ main' # <<>>
    /\ \A i \in DOMAIN main : i \in DOMAIN main' /\ main'[i] = main[i]
    /\ tags \subseteq tags' /\ releases \subseteq releases' /\ pypi \subseteq pypi'
    /\ \A f \in pypi' : f.file \in Files

\* One commit more.
LEMMA Grown ==
    ASSUME Typed, NEW x \in Commit, main' = Append(main, x),
           UNCHANGED <<tags, releases, pypi>>
    PROVE  /\ Grows
           /\ Len(main') = Len(main) + 1 /\ DOMAIN main' = 1..Len(main')
           /\ main'[Len(main')] = x /\ DOMAIN main = 1..Len(main) /\ Len(main) \in Nat
  BY DEF Typed, Grows

\* The head of main.
LEMMA HeadOfMain ==
    ASSUME Typed
    PROVE  /\ Len(main) \in DOMAIN main /\ Len(main) \in Nat
           /\ DOMAIN main = 1..Len(main)
           /\ Last(main) = main[Len(main)] /\ Last(main) \in Commit
           /\ Last(main).version \in Versions
  <1>1. main \in Seq(Commit) /\ main # <<>>
    BY DEF Typed
  <1>2. Len(main) \in Nat /\ DOMAIN main = 1..Len(main) /\ Len(main) # 0
    BY <1>1
  <1>3. main[Len(main)] \in Commit
    BY <1>1, <1>2
  <1>4. QED
    BY <1>2, <1>3 DEF Last, Commit

LEMMA VersionAt ==
    ASSUME Typed, NEW i \in DOMAIN main
    PROVE  main[i].version \in Versions
  <1>1. main[i] \in Commit
    BY HeadOfMain DEF Typed
  <1>2. QED
    BY <1>1 DEF Commit

\* A run that does not move keeps what it knows.
LEMMA OthersKeep ==
    ASSUME Typed, Grows, NEW r \in Runs, RunOK(r),
           pc'[r] = pc[r], head'[r] = head[r], main0'[r] = main0[r],
           version'[r] = version[r], sha'[r] = sha[r], marks'[r] = marks[r]
    PROVE  RunOK(r)'
  <1>1. \A v : Tagged(v) => Tagged(v)'
    BY DEF Grows, Tagged
  <1>2. \A v : There(v) = Files => There(v)' = Files
    BY DEF Grows, There
  <1>3. \A i, v : BumpOf(i, v) => BumpOf(i, v)'
    BY DEF Grows, BumpOf
  <1>4. QED
    BY <1>1, <1>2, <1>3 DEF Grows, RunOK

OthersStand(r) ==
    \A k \in Runs \ {r} :
        /\ pc'[k] = pc[k] /\ head'[k] = head[k] /\ main0'[k] = main0[k]
        /\ version'[k] = version[k] /\ sha'[k] = sha[k] /\ marks'[k] = marks[k]

\* What a step of a run has to show of the run and of what it publishes.
LEMMA StepOfRun ==
    ASSUME Inv, NEW r \in Runs, Grows, Typed', OthersStand(r), VersionsIncrease',
           RunOK(r)', pc'[r] # "none",
           pc[r] # "none" => main0'[r] = main0[r],
           \A t \in tags' \cup pypi' :
              t \in tags \cup pypi \/ BumpOf(t.commit, t.version)',
           \/ latest' = latest
           \/ latest'.run = r /\ ~Newer(main0'[r], latest'.version)
    PROVE  Inv'
  <1>1. \A k \in Runs : RunOK(k)'
    BY OthersKeep DEF Inv, OthersStand
  <1>2. Artifacts'
    BY DEF Inv, Artifacts, Grows, BumpOf
  <1>3. LatestOK'
    BY DEF Inv, LatestOK, OthersStand
  <1>4. QED
    BY <1>1, <1>2, <1>3 DEF Inv

\* Merges and bumps, on top of main, keep the versions in order.
LEMMA OrderKept ==
    ASSUME Typed, VersionsIncrease, NEW x \in Commit, main' = Append(main, x),
           \/ ~x.bump /\ x.version = Last(main).version
           \/ Newer(x.version, Last(main).version)
    PROVE  VersionsIncrease'
  <1>1. main \in Seq(Commit) /\ DOMAIN main = 1..Len(main) /\ Len(main) \in Nat
        /\ Last(main) = main[Len(main)] /\ Len(main) \in DOMAIN main
    BY HeadOfMain DEF Typed
  <1>2. DOMAIN main' = 1..(Len(main) + 1) /\ main'[Len(main) + 1] = x
        /\ \A i \in DOMAIN main : main'[i] = main[i] /\ main[i].version \in Versions
    <2>1. \A i \in DOMAIN main : main[i] \in Commit
      BY <1>1
    <2>2. DOMAIN main' = 1..(Len(main) + 1) /\ main'[Len(main) + 1] = x
          /\ \A i \in DOMAIN main : main'[i] = main[i]
      BY <1>1
    <2>3. QED
      BY <2>1, <2>2 DEF Commit
  <1>3. x.version \in Versions
    BY DEF Commit
  <1>4. \A i \in DOMAIN main : ~Newer(main[i].version, Last(main).version)
    BY <1>1, <1>2, NewerIrreflexive DEF VersionsIncrease
  <1>5. ASSUME NEW i \in DOMAIN main
        PROVE  /\ ~Newer(main[i].version, x.version)
               /\ x.bump => Newer(x.version, main[i].version)
    BY <1>1, <1>2, <1>3, <1>4, NewerThanOlder
  <1>6. QED
    BY <1>1, <1>2, <1>5 DEF VersionsIncrease

\* A version has one bump commit.
LEMMA OneBump ==
    ASSUME Typed, VersionsIncrease, NEW i, NEW j, NEW v, BumpOf(i, v), BumpOf(j, v)
    PROVE  i = j
  <1>1. DOMAIN main = 1..Len(main) /\ Len(main) \in Nat /\ main[i] \in Commit
    BY HeadOfMain DEF Typed, BumpOf
  <1>2. v \in Versions /\ DOMAIN main \subseteq Nat
    BY <1>1 DEF BumpOf, Commit
  <1>3. QED
    BY <1>1, <1>2, NewerIrreflexive DEF BumpOf, VersionsIncrease

-----------------------------------------------------------------------------
(* The steps                                                               *)

LEMMA MergeStep == ASSUME Inv, NEW r \in Runs, Merge(r) PROVE Inv'
  <1> DEFINE x == [version |-> Last(main).version, bump |-> FALSE]
  <1>1. Typed /\ VersionsIncrease /\ x \in Commit /\ main' = Append(main, x)
    BY HeadOfMain DEF Inv, Merge, Commit
  <1>2. UNCHANGED <<tags, releases, pypi, latest, version, sha, marks>>
    BY DEF Merge
  <1>3. /\ pc' = [pc EXCEPT ![r] = "labels"] /\ pc[r] = "none"
        /\ head' = [head EXCEPT ![r] = Len(main) + 1]
        /\ main0' = [main0 EXCEPT ![r] = Last(main).version]
    BY DEF Merge, Begin, GoTo
  <1> HIDE DEF x
  <1>4. Grows /\ main'[Len(main) + 1] = x /\ Len(main) + 1 \in DOMAIN main'
    BY <1>1, <1>2, Grown
  <1>5. VersionsIncrease'
    <2>1. ~x.bump /\ x.version = Last(main).version
      BY DEF x
    <2>2. QED
      BY <1>1, <2>1, OrderKept
  <1>6. Typed'
    BY <1>1, <1>2, <1>3, <1>4, HeadOfMain DEF Typed, Grows, RunPlaces
  <1>7. RunOK(r)'
    BY <1>1, <1>3, <1>4 DEF Typed, RunOK, Releasing, x
  <1>8. OthersStand(r)
    BY <1>1, <1>2, <1>3 DEF OthersStand, Typed
  <1>9. QED
    BY <1>1, <1>2, <1>3, <1>4, <1>5, <1>6, <1>7, <1>8, StepOfRun DEF Typed

LEMMA DispatchStep == ASSUME Inv, NEW r \in Runs, Dispatch(r) PROVE Inv'
  <1>1. Typed /\ VersionsIncrease
    BY DEF Inv
  <1>2. /\ UNCHANGED <<main, tags, releases, pypi, latest, sha, marks>>
        /\ pc[r] = "none" /\ pc' = [pc EXCEPT ![r] = "resolve"]
        /\ head' = [head EXCEPT ![r] = Len(main)]
        /\ main0' = [main0 EXCEPT ![r] = Last(main).version]
    BY DEF Dispatch, Begin, GoTo, remote
  <1>3. PICK i \in DOMAIN main : version' = [version EXCEPT ![r] = main[i].version]
    BY DEF Dispatch
  <1>4. main[i].version \in Versions
    BY <1>1, VersionAt
  <1>5. Grows /\ VersionsIncrease'
    BY <1>1, <1>2 DEF Typed, Grows, VersionsIncrease
  <1>6. Typed'
    BY <1>1, <1>2, <1>3, <1>4, HeadOfMain DEF Typed, RunPlaces
  <1>7. RunOK(r)' /\ pc'[r] # "none"
    BY <1>1, <1>2, <1>3, <1>4, HeadOfMain DEF Typed, RunOK, Releasing
  <1>8. OthersStand(r)
    BY <1>1, <1>2, <1>3 DEF OthersStand, Typed
  <1>9. QED
    BY <1>2, <1>5, <1>6, <1>7, <1>8, StepOfRun

\* A step of a started run that leaves the remote alone.
LEMMA QuietStep ==
    ASSUME Inv, NEW r \in Runs, UNCHANGED <<remote, head, main0>>,
           pc[r] # "none", NEW place \in RunPlaces \ {"none"},
           pc' = [pc EXCEPT ![r] = place],
           NEW v, version' = [version EXCEPT ![r] = v], v \in Versions \cup {None},
           NEW s, sha' = [sha EXCEPT ![r] = s],
           NEW m \in BOOLEAN, marks' = [marks EXCEPT ![r] = m],
           RunOK(r)'
    PROVE  Inv'
  <1>1. Typed /\ VersionsIncrease
    BY DEF Inv
  <1>2. Grows /\ VersionsIncrease'
    BY <1>1 DEF remote, Typed, Grows, VersionsIncrease
  <1>3. Typed'
    BY <1>1 DEF remote, Typed
  <1>4. OthersStand(r)
    BY <1>1 DEF OthersStand, Typed
  <1>5. QED
    BY <1>1, <1>2, <1>3, <1>4, StepOfRun DEF remote, Typed

\* The same, when the run only moves on.
LEMMA MoveStep ==
    ASSUME Inv, NEW r \in Runs, UNCHANGED <<remote, head, main0, version, sha, marks>>,
           pc[r] # "none", NEW place \in RunPlaces \ {"none"},
           pc' = [pc EXCEPT ![r] = place], RunOK(r)'
    PROVE  Inv'
  <1>1. Typed
    BY DEF Inv
  <1>2. /\ version' = [version EXCEPT ![r] = version[r]]
        /\ sha' = [sha EXCEPT ![r] = sha[r]]
        /\ marks' = [marks EXCEPT ![r] = marks[r]]
        /\ version[r] \in Versions \cup {None} /\ marks[r] \in BOOLEAN
    BY <1>1 DEF Typed
  <1>3. QED
    BY <1>2, QuietStep

LEMMA MovesOn ==
    ASSUME Inv, NEW r \in Runs,
           Rerun(r) \/ Fail(r) \/ LookForTag(r) \/ LookForRelease(r) \/ Build(r)
    PROVE  Inv'
  <1>1. Typed /\ RunOK(r)
    BY DEF Inv
  <1>2. UNCHANGED <<remote, head, main0, version, sha, marks>> /\ pc[r] # "none"
    BY DEF Rerun, Fail, LookForTag, LookForRelease, Build, Keeps, run
  <1>3. CASE Rerun(r)
    <2>1. pc' = [pc EXCEPT ![r] = "labels"]
      BY <1>3 DEF Rerun, GoTo
    <2>2. RunOK(r)'
      BY <1>1, <1>2, <2>1 DEF RunOK, Typed, Releasing, remote
    <2>3. QED
      BY <1>2, <2>1, <2>2, MoveStep DEF RunPlaces
  <1>4. CASE Fail(r)
    <2>1. pc' = [pc EXCEPT ![r] = "failed"]
      BY <1>4 DEF Fail, GoTo
    <2>2. RunOK(r)'
      BY <1>1, <1>2, <2>1 DEF RunOK, Typed, Releasing, remote
    <2>3. QED
      BY <1>2, <2>1, <2>2, MoveStep DEF RunPlaces
  <1>5. CASE LookForTag(r)
    <2>1. PICK place \in {"release", "push tag"} :
            /\ pc[r] = "tag" /\ pc' = [pc EXCEPT ![r] = place]
            /\ place = "release" => Tagged(version[r])
      BY <1>5 DEF LookForTag, GoTo
    <2>2. RunOK(r)'
      BY <1>1, <1>2, <2>1 DEF RunOK, Typed, Releasing, remote, BumpOf, Tagged
    <2>3. QED
      BY <1>2, <2>1, <2>2, MoveStep DEF RunPlaces, Releasing
  <1>6. CASE LookForRelease(r)
    <2>1. PICK place \in {"build", "create"} :
            /\ pc[r] = "release" /\ pc' = [pc EXCEPT ![r] = place]
            /\ place = "build" => version[r] \in releases
      BY <1>6 DEF LookForRelease, GoTo
    <2>2. RunOK(r)'
      BY <1>1, <1>2, <2>1 DEF RunOK, Typed, Releasing, remote, BumpOf, Tagged
    <2>3. QED
      BY <1>2, <2>1, <2>2, MoveStep DEF RunPlaces, Releasing
  <1>7. CASE Build(r)
    <2>1. PICK place \in {"publish", "failed"} :
            pc[r] = "build" /\ pc' = [pc EXCEPT ![r] = place]
      BY <1>7 DEF Build, GoTo
    <2>2. RunOK(r)'
      BY <1>1, <1>2, <2>1 DEF RunOK, Typed, Releasing, remote, BumpOf, Tagged
    <2>3. QED
      BY <1>2, <2>1, <2>2, MoveStep DEF RunPlaces, Releasing
  <1>8. QED
    BY <1>3, <1>4, <1>5, <1>6, <1>7

LEMMA BumpStep == ASSUME Inv, NEW r \in Runs, BumpVersion(r) PROVE Inv'
  <1>1. Typed /\ RunOK(r)
    BY DEF Inv
  <1>2. UNCHANGED <<remote, head, main0, sha, marks>> /\ pc[r] = "labels"
    BY DEF BumpVersion, Keeps, run
  <1>3. CASE \/ GoTo(r, "failed") /\ UNCHANGED version
             \/ GoTo(r, "no release") /\ UNCHANGED version
    <2>1. PICK place \in {"failed", "no release"} :
            pc' = [pc EXCEPT ![r] = place] /\ UNCHANGED version
      BY <1>3 DEF GoTo
    <2>2. RunOK(r)'
      BY <1>1, <1>2, <2>1 DEF RunOK, Typed, Releasing, remote
    <2>3. QED
      BY <1>2, <2>1, <2>2, MoveStep DEF RunPlaces
  <1>4. ASSUME NEW kind \in Kinds, GoTo(r, "push"),
               version' = [version EXCEPT ![r] = Bump(main[head[r]].version, kind)]
        PROVE  Inv'
    <2> DEFINE v == Bump(main[head[r]].version, kind)
    <2>1. /\ pc' = [pc EXCEPT ![r] = "push"]
          /\ head[r] \in DOMAIN main /\ main[head[r]].version = main0[r]
          /\ main0[r] \in Versions
      BY <1>1, <1>2, <1>4 DEF GoTo, RunOK, Typed
    <2>2. v \in Versions /\ Newer(v, main0[r])
      BY <2>1, BumpIsNewer
    <2> HIDE DEF v
    <2>3. version' = [version EXCEPT ![r] = v]
      BY <1>4 DEF v
    <2>4. RunOK(r)'
      BY <1>1, <1>2, <2>1, <2>2, <2>3 DEF RunOK, Typed, Releasing, remote
    <2>5. /\ sha' = [sha EXCEPT ![r] = sha[r]]
          /\ marks' = [marks EXCEPT ![r] = marks[r]] /\ marks[r] \in BOOLEAN
      BY <1>1, <1>2 DEF Typed
    <2>6. QED
      BY <1>2, <2>1, <2>2, <2>3, <2>4, <2>5, QuietStep DEF RunPlaces
  <1>5. QED
    BY <1>3, <1>4 DEF BumpVersion

LEMMA PushBumpStep == ASSUME Inv, NEW r \in Runs, PushBump(r) PROVE Inv'
  <1> DEFINE x == [version |-> version[r], bump |-> TRUE]
  <1>1. Typed /\ VersionsIncrease /\ RunOK(r)
    BY DEF Inv
  <1>2. /\ UNCHANGED <<tags, releases, latest, pypi, main0, version, head>>
        /\ pc[r] = "push"
    BY DEF PushBump, run
  <1>3. /\ head[r] \in DOMAIN main /\ main[head[r]].version = main0[r]
        /\ version[r] \in Versions /\ Newer(version[r], main0[r])
        /\ main0[r] \in Versions
    BY <1>1, <1>2 DEF RunOK, Typed
  <1>4. CASE /\ FastForwards(r) /\ main' = Append(main, x)
             /\ sha' = [sha EXCEPT ![r] = Len(main')]
             /\ marks' = [marks EXCEPT ![r] = TRUE]
             /\ GoTo(r, "tag")
    <2>1. x \in Commit /\ x.version = version[r] /\ x.bump
      BY <1>3 DEF Commit
    <2>2. Newer(x.version, Last(main).version)
      BY <1>1, <1>3, <1>4, HeadOfMain DEF FastForwards
    <2> HIDE DEF x
    <2>3. Grows /\ main'[Len(main')] = x /\ Len(main') \in DOMAIN main'
      BY <1>1, <1>2, <1>4, <2>1, Grown
    <2>4. VersionsIncrease'
      BY <1>1, <1>4, <2>1, <2>2, OrderKept
    <2>5. pc' = [pc EXCEPT ![r] = "tag"]
      BY <1>4 DEF GoTo
    <2>6. Typed'
      BY <1>1, <1>2, <1>4, <2>3, <2>5 DEF Typed, Grows, RunPlaces, Releasing
    <2>7. BumpOf(sha[r], version[r])'
      BY <1>1, <1>2, <1>4, <2>1, <2>3 DEF Typed, BumpOf
    <2>8. main'[head[r]] = main[head[r]] /\ head[r] \in DOMAIN main'
      BY <1>3, <2>3 DEF Grows
    <2>9. ~Newer(main0[r], version[r])
      BY <1>3, NewerIrreflexive, NewerThanOlder
    <2>10. RunOK(r)'
      BY <1>1, <1>2, <1>3, <2>5, <2>7, <2>8, <2>9 DEF RunOK, Typed, Releasing
    <2>11. OthersStand(r)
      BY <1>1, <1>2, <1>4, <2>5 DEF OthersStand, Typed
    <2>12. QED
      BY <1>1, <1>2, <2>3, <2>4, <2>5, <2>6, <2>10, <2>11, StepOfRun DEF Typed
  <1>5. CASE GoTo(r, "failed") /\ UNCHANGED <<main, sha, marks>>
    <2>1. pc' = [pc EXCEPT ![r] = "failed"] /\ UNCHANGED remote
      BY <1>2, <1>5 DEF GoTo, remote
    <2>2. RunOK(r)'
      BY <1>1, <1>2, <1>5, <2>1 DEF RunOK, Typed, Releasing
    <2>3. QED
      BY <1>2, <1>5, <2>1, <2>2, MoveStep DEF RunPlaces
  <1>6. QED
    BY <1>4, <1>5 DEF PushBump

LEMMA ResolveStep == ASSUME Inv, NEW r \in Runs, Resolve(r) PROVE Inv'
  <1>1. Typed /\ VersionsIncrease /\ RunOK(r) /\ Artifacts
    BY DEF Inv
  <1>2. UNCHANGED <<remote, head, main0, version>> /\ pc[r] = "resolve"
    BY DEF Resolve, Keeps, run
  <1>3. CASE GoTo(r, "failed") /\ UNCHANGED <<sha, marks>>
    <2>1. pc' = [pc EXCEPT ![r] = "failed"]
      BY <1>3 DEF GoTo
    <2>2. RunOK(r)'
      BY <1>1, <1>2, <2>1 DEF RunOK, Typed, Releasing, remote
    <2>3. QED
      BY <1>2, <1>3, <2>1, <2>2, MoveStep DEF RunPlaces
  <1>4. ASSUME NEW commit \in CommitOf(version[r]), GoTo(r, "tag"),
               main[commit].version = version[r],
               sha' = [sha EXCEPT ![r] = commit],
               marks' = [marks EXCEPT ![r] = IsLatest(r, commit)]
        PROVE  Inv'
    <2>1. BumpOf(commit, version[r])
      BY <1>1 DEF CommitOf, Artifacts, BumpOf
    <2>2. /\ head[r] \in DOMAIN main /\ main[head[r]].version = main0[r]
          /\ version[r] \in Versions /\ main0[r] \in Versions
      BY <1>1, <1>2 DEF RunOK, Typed
    <2>3. IsLatest(r, commit) => ~Newer(main0[r], version[r])
      <3>1. CASE Last(main).version = version[r]
        BY <1>1, <2>2, <3>1, HeadOfMain, NewerIrreflexive DEF VersionsIncrease
      <3>2. CASE commit = head[r]
        BY <1>4, <2>2, <3>2, NewerIrreflexive
      <3>3. QED
        BY <3>1, <3>2 DEF IsLatest
    <2>4. IsLatest(r, commit) \in BOOLEAN /\ pc' = [pc EXCEPT ![r] = "tag"]
      BY <1>4 DEF IsLatest, GoTo
    <2>5. BumpOf(sha[r], version[r])'
      BY <1>1, <1>2, <1>4, <2>1 DEF Typed, BumpOf, remote
    <2>6. marks'[r] = IsLatest(r, commit)
      BY <1>1, <1>4 DEF Typed
    <2>7. RunOK(r)'
      BY <1>1, <1>2, <2>2, <2>3, <2>4, <2>5, <2>6 DEF RunOK, Typed, Releasing, remote
    <2>8. version' = [version EXCEPT ![r] = version[r]] /\ version[r] \in Versions
      BY <1>1, <1>2, <2>2 DEF Typed
    <2>9. QED
      BY <1>2, <1>4, <2>4, <2>7, <2>8, QuietStep DEF RunPlaces, Releasing
  <1>5. QED
    BY <1>3, <1>4 DEF Resolve

\* A step that only publishes: one tag, one Release, or files of one version.
LEMMA PublishStep ==
    ASSUME Inv, NEW r \in Runs, UNCHANGED <<main, run, version, sha, head, marks>>,
           pc[r] # "none", NEW place \in RunPlaces \ {"none"},
           pc' = [pc EXCEPT ![r] = place],
           tags \subseteq tags', releases \subseteq releases', pypi \subseteq pypi',
           \A f \in pypi' : f.file \in Files,
           \A t \in tags' \cup pypi' :
              t \in tags \cup pypi \/ BumpOf(t.commit, t.version),
           \/ latest' = latest
           \/ latest'.run = r /\ ~Newer(main0[r], latest'.version),
           RunOK(r)'
    PROVE  Inv'
  <1>1. Typed /\ VersionsIncrease
    BY DEF Inv
  <1>2. Grows /\ VersionsIncrease' /\ Typed'
    BY <1>1 DEF run, Typed, Grows, VersionsIncrease
  <1>3. OthersStand(r)
    BY <1>1 DEF OthersStand, Typed, run
  <1>4. pc'[r] # "none" /\ main0'[r] = main0[r]
    BY <1>1 DEF Typed, run
  <1>5. \A t \in tags' \cup pypi' :
          t \in tags \cup pypi \/ BumpOf(t.commit, t.version)'
    BY DEF BumpOf
  <1>6. QED
    BY <1>2, <1>3, <1>4, <1>5, StepOfRun DEF run

LEMMA Publishes ==
    ASSUME Inv, NEW r \in Runs, PushTag(r) \/ CreateRelease(r) \/ Publish(r)
    PROVE  Inv'
  <1>1. Typed /\ RunOK(r)
    BY DEF Inv
  <1>2. UNCHANGED <<main, run, version, sha, head, marks>>
        /\ pc[r] \in {"push tag", "create", "publish"}
    BY DEF PushTag, CreateRelease, Publish
  <1>3. BumpOf(sha[r], version[r]) /\ version[r] \in Versions
        /\ (marks[r] => ~Newer(main0[r], version[r]))
    BY <1>1, <1>2 DEF RunOK, Releasing
  <1>4. CASE PushTag(r)
    <2> DEFINE mine == [version |-> version[r], commit |-> sha[r]]
    <2>1. UNCHANGED <<releases, latest, pypi>> /\ pc[r] = "push tag"
      BY <1>4 DEF PushTag
    <2>2. CASE tags' = tags \cup {mine} /\ GoTo(r, "release")
      <3>1. pc' = [pc EXCEPT ![r] = "release"] /\ Tagged(version[r])'
        <4>1. mine \in tags' /\ mine.version = version'[r]
          BY <1>2, <2>2
        <4>2. QED
          BY <2>2, <4>1 DEF GoTo, Tagged
      <3>2. RunOK(r)'
        BY <1>1, <1>2, <2>1, <3>1 DEF RunOK, Typed, Releasing, run, BumpOf
      <3>3. \A t \in tags' \cup pypi' :
              t \in tags \cup pypi \/ BumpOf(t.commit, t.version)
        <4>1. BumpOf(mine.commit, mine.version)
          BY <1>3
        <4>2. QED
          BY <2>1, <2>2, <4>1
      <3>4. QED
        BY <1>1, <1>2, <2>1, <2>2, <3>1, <3>2, <3>3, PublishStep
           DEF RunPlaces, Releasing, Typed
    <2>3. CASE GoTo(r, "failed") /\ UNCHANGED tags
      <3>1. pc' = [pc EXCEPT ![r] = "failed"] /\ UNCHANGED <<remote, main0>>
        BY <1>2, <2>1, <2>3 DEF GoTo, remote, run
      <3>2. RunOK(r)'
        BY <1>1, <1>2, <3>1 DEF RunOK, Typed, Releasing, remote
      <3>3. QED
        BY <1>2, <3>1, <3>2, MoveStep DEF RunPlaces
    <2>4. QED
      BY <1>4, <2>2, <2>3 DEF PushTag
  <1>5. CASE CreateRelease(r)
    <2>1. UNCHANGED <<tags, pypi>> /\ pc[r] = "create"
      BY <1>5 DEF CreateRelease
    <2>2. CASE /\ releases' = releases \cup {version[r]}
               /\ latest' = IF marks[r] THEN [version |-> version[r], run |-> r] ELSE latest
               /\ GoTo(r, "build")
      <3>1. pc' = [pc EXCEPT ![r] = "build"] /\ version'[r] \in releases'
        BY <1>2, <2>2 DEF GoTo
      <3>2. RunOK(r)'
        BY <1>1, <1>2, <2>1, <3>1 DEF RunOK, Typed, Releasing, run, BumpOf, Tagged
      <3>3. \/ latest' = latest
            \/ latest'.run = r /\ ~Newer(main0[r], latest'.version)
        <4>1. CASE marks[r]
          <5>1. latest' = [version |-> version[r], run |-> r]
            BY <2>2, <4>1
          <5>2. latest'.run = r /\ latest'.version = version[r]
            BY <5>1
          <5>3. QED
            BY <1>3, <4>1, <5>2
        <4>2. CASE ~marks[r]
          <5>1. marks[r] = FALSE
            BY <1>1, <4>2 DEF Typed
          <5>2. QED
            BY <2>2, <5>1
        <4>3. QED
          BY <4>1, <4>2
      <3>4. QED
        BY <1>1, <1>2, <2>1, <2>2, <3>1, <3>2, <3>3, PublishStep
           DEF RunPlaces, Releasing, Typed
    <2>3. CASE GoTo(r, "failed") /\ UNCHANGED <<releases, latest>>
      <3>1. pc' = [pc EXCEPT ![r] = "failed"] /\ UNCHANGED <<remote, main0>>
        BY <1>2, <2>1, <2>3 DEF GoTo, remote, run
      <3>2. RunOK(r)'
        BY <1>1, <1>2, <3>1 DEF RunOK, Typed, Releasing, remote
      <3>3. QED
        BY <1>2, <3>1, <3>2, MoveStep DEF RunPlaces
    <2>4. QED
      BY <1>5, <2>2, <2>3 DEF CreateRelease
  <1>6. CASE Publish(r)
    <2>1. UNCHANGED <<tags, releases, latest>> /\ pc[r] = "publish"
      BY <1>6 DEF Publish
    <2>2. PICK some \in SUBSET Missing(version[r]) :
            /\ pypi' = pypi \cup
                  {[version |-> version[r], file |-> f, commit |-> sha[r]] : f \in some}
            /\ GoTo(r, IF some = Missing(version[r]) THEN "done" ELSE "failed")
      BY <1>6 DEF Publish
    <2>3. PICK place \in {"done", "failed"} :
            /\ pc' = [pc EXCEPT ![r] = place]
            /\ place = "done" => some = Missing(version[r])
      BY <2>2 DEF GoTo
    <2>4. \A f \in pypi' : f.file \in Files
      BY <1>1, <2>2 DEF Typed, Missing
    <2>5. some = Missing(version[r]) => There(version[r])' = Files
      <3>1. There(version[r])' = There(version[r]) \cup some
        <4> DEFINE Uploaded(f) == [version |-> version[r], file |-> f, commit |-> sha[r]]
        <4>1. \A f \in some : Uploaded(f).version = version[r] /\ Uploaded(f).file = f
          OBVIOUS
        <4>2. pypi' = pypi \cup {Uploaded(f) : f \in some} /\ version' = version
          BY <1>2, <2>2
        <4> HIDE DEF Uploaded
        <4>3. {f \in pypi' : f.version = version[r]} =
                {f \in pypi : f.version = version[r]} \cup {Uploaded(f) : f \in some}
          BY <4>1, <4>2
        <4>4. {f.file : f \in {f \in pypi' : f.version = version[r]}} =
                There(version[r]) \cup some
          BY <4>1, <4>3 DEF There
        <4>5. QED
          BY <4>2, <4>4 DEF There
      <3>2. There(version[r]) \subseteq Files
        BY <1>1 DEF There, Typed
      <3>3. QED
        BY <3>1, <3>2 DEF Missing
    <2>6. RunOK(r)'
      BY <1>1, <1>2, <2>1, <2>3, <2>5 DEF RunOK, Typed, Releasing, run, BumpOf, Tagged
    <2>7. \A t \in tags' \cup pypi' :
            t \in tags \cup pypi \/ BumpOf(t.commit, t.version)
      BY <1>3, <2>1, <2>2
    <2>8. QED
      BY <1>1, <1>2, <2>1, <2>2, <2>3, <2>4, <2>6, <2>7, PublishStep DEF RunPlaces
  <1>7. QED
    BY <1>4, <1>5, <1>6

LEMMA InvStep == Inv /\ [Next]_vars => Inv'
  <1> SUFFICES ASSUME Inv, [Next]_vars PROVE Inv'
    OBVIOUS
  <1>1. CASE UNCHANGED vars
    BY <1>1 DEF vars, remote, run, Inv, Typed, VersionsIncrease, Artifacts, LatestOK, RunOK,
       BumpOf, Tagged, There
  <1>2. ASSUME NEW r \in Runs,
               \/ Merge(r) \/ Dispatch(r) \/ Rerun(r) \/ Fail(r)
               \/ BumpVersion(r) \/ PushBump(r) \/ Resolve(r) \/ LookForTag(r) \/ PushTag(r)
               \/ LookForRelease(r) \/ CreateRelease(r) \/ Build(r) \/ Publish(r)
        PROVE  Inv'
    BY <1>2, MergeStep, DispatchStep, MovesOn, BumpStep, PushBumpStep, ResolveStep, Publishes
  <1>3. QED
    BY <1>1, <1>2 DEF Next, Finished

\* What runs have decided stays true of main, the tags and the index: all of Inv holds.
THEOREM InvHolds == Spec => []Inv
  BY InvInit, InvStep, PTL DEF Spec

-----------------------------------------------------------------------------
(* The properties                                                          *)

\* However many runs overlap, fail and are run again, the versions along main only
\* increase, by one bump commit each: no version is bumped to twice.
THEOREM VersionsOnlyIncrease == Spec => []VersionsIncrease
  <1>1. Inv => VersionsIncrease
    BY DEF Inv
  <1>2. QED
    BY <1>1, InvHolds, PTL

\* Every tag and every file on PyPI is of the one bump commit of its version, whatever
\* was merged since the run that made it was started.
THEOREM OnlyBumpsReleased == Spec => []ReleasedFromBump
  <1>1. Inv => ReleasedFromBump
    <2> SUFFICES ASSUME Inv PROVE ReleasedFromBump
      OBVIOUS
    <2>1. Typed /\ VersionsIncrease /\ Artifacts
      BY DEF Inv
    <2>2. \A t \in tags \cup pypi : BumpOf(t.commit, t.version)
      BY <2>1 DEF Artifacts
    <2>3. QED
      BY <2>1, <2>2, OneBump DEF ReleasedFromBump, BumpOf
  <1>2. QED
    BY <1>1, InvHolds, PTL

\* No run makes latest a version older than the one main was at when the run was
\* started.
THEOREM LatestNeverBack == Spec => []LatestNotBack
  <1>1. Inv => LatestNotBack
    BY DEF Inv, LatestOK, LatestNotBack
  <1>2. QED
    BY <1>1, InvHolds, PTL

\* A run that ends well has tagged, released and uploaded its version completely.
THEOREM DoneReleasesAll == Spec => []DoneIsComplete
  <1>1. Inv => DoneIsComplete
    BY DEF Inv, RunOK, DoneIsComplete
  <1>2. QED
    BY <1>1, InvHolds, PTL
=============================================================================
