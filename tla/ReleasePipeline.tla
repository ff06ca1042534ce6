--------------------------- MODULE ReleasePipeline ---------------------------
(***************************************************************************)
(* .github/workflows/release.yml: runs started by merges to main and by    *)
(* hand, which bump the version, tag the bump commit, create the GitHub    *)
(* Release and upload the distributions.  No concurrency group keeps runs  *)
(* apart, a run may fail at any step, and a failed merge's run may be      *)
(* started again from its old merge commit.                                *)
(*                                                                         *)
(* main only grows, so a commit is its place in main.  The repository,     *)
(* its Releases and PyPI are modelled from how the workflow uses them.     *)
(***************************************************************************)
EXTENDS Integers, Sequences, FiniteSets, SequencesExt

CONSTANTS
    Runs,       \* runs of the workflow, each of one merge or one dispatch
    First,      \* the version main starts at: <<major, minor, patch>>
    MaxReruns,  \* how often failed runs are started again, together (bounds a run)
    None

ASSUME PipelineAssumption == First \in Nat \X Nat \X Nat /\ MaxReruns \in Nat

VARIABLES
    main,     \* the commits of main: [version, bump]
    tags,     \* [version, commit]
    releases, \* the versions that have a Release
    latest,   \* the latest Release: [version, run], or None
    pypi,     \* the files on PyPI: [version, file, commit]
    \* runs
    pc, event, labels, version, sha,
    head,     \* the commit the run checked out
    marks,    \* make_latest
    reruns,
    main0     \* history: the version main was at when the run was started

remote == <<main, tags, releases, latest, pypi>>
run == <<event, labels, main0>>
vars == <<remote, pc, run, version, sha, head, marks, reruns>>

Kinds == {"major", "minor", "patch"}

Files == {"wheel", "sdist"}

Init ==
    /\ main = <<[version |-> First, bump |-> FALSE]>>
    /\ tags = {} /\ releases = {} /\ latest = None /\ pypi = {}
    /\ pc = [r \in Runs |-> "none"]
    /\ event = [r \in Runs |-> None] /\ labels = [r \in Runs |-> {}]
    /\ version = [r \in Runs |-> None] /\ sha = [r \in Runs |-> None]
    /\ head = [r \in Runs |-> None]
    /\ marks = [r \in Runs |-> FALSE]
    /\ reruns = 0
    /\ main0 = [r \in Runs |-> First]

GoTo(r, place) == pc' = [pc EXCEPT ![r] = place]

\* A step that changes nothing outside the run.
Keeps == UNCHANGED <<remote, run, reruns>>

Newer(v, w) ==
    \/ v[1] > w[1]
    \/ v[1] = w[1] /\ v[2] > w[2]
    \/ v[1] = w[1] /\ v[2] = w[2] /\ v[3] > w[3]

Bump(v, kind) ==
    CASE kind = "major" -> <<v[1] + 1, 0, 0>>
      [] kind = "minor" -> <<v[1], v[2] + 1, 0>>
      [] kind = "patch" -> <<v[1], v[2], v[3] + 1>>

-----------------------------------------------------------------------------
(* How a run starts                                                        *)

Begin(r, how, commit) ==
    /\ pc[r] = "none"
    /\ event' = [event EXCEPT ![r] = how]
    /\ main0' = [main0 EXCEPT ![r] = Last(main).version]
    /\ head' = [head EXCEPT ![r] = commit]

Merge(r) ==
    /\ Begin(r, "push", Len(main) + 1)
    /\ main' = Append(main, [version |-> Last(main).version, bump |-> FALSE])
    /\ \E some \in SUBSET Kinds : labels' = [labels EXCEPT ![r] = some]
    /\ GoTo(r, "labels")
    /\ UNCHANGED <<tags, releases, latest, pypi, version, sha, marks, reruns>>

\* The version asked for may be any; one main never had is refused like First.
Dispatch(r) ==
    /\ Begin(r, "dispatch", Len(main))
    /\ \E i \in DOMAIN main : version' = [version EXCEPT ![r] = main[i].version]
    /\ GoTo(r, "resolve")
    /\ UNCHANGED <<remote, labels, sha, marks, reruns>>

\* A run that failed is run again, from the commit it was started for.
Rerun(r) ==
    /\ pc[r] = "failed" /\ event[r] = "push" /\ reruns < MaxReruns
    /\ reruns' = reruns + 1
    /\ GoTo(r, "labels")
    /\ UNCHANGED <<remote, run, version, sha, head, marks>>

Fail(r) ==
    /\ pc[r] \notin {"none", "failed", "no release", "done"}
    /\ GoTo(r, "failed")
    /\ Keeps /\ UNCHANGED <<version, sha, head, marks>>

-----------------------------------------------------------------------------
(* The release job                                                         *)

\* More than one bump label fails the run, none ends it.
BumpVersion(r) ==
    /\ pc[r] = "labels"
    /\ \/ Cardinality(labels[r]) > 1 /\ GoTo(r, "failed") /\ UNCHANGED version
       \/ labels[r] = {} /\ GoTo(r, "no release") /\ UNCHANGED version
       \/ \E kind \in Kinds :
             /\ labels[r] = {kind}
             /\ version' = [version EXCEPT ![r] = Bump(main[head[r]].version, kind)]
             /\ GoTo(r, "push")
    /\ Keeps /\ UNCHANGED <<sha, head, marks>>

\* Seeded bug: the bump is put on top of whatever main has become.
BugFastForwards(r) == TRUE

\* git push origin HEAD:main is rejected when main has moved on.
FastForwards(r) == Len(main) = head[r]

PushBump(r) ==
    /\ pc[r] = "push"
    /\ \/ /\ FastForwards(r)
          /\ main' = Append(main, [version |-> version[r], bump |-> TRUE])
          /\ sha' = [sha EXCEPT ![r] = Len(main')]
          /\ marks' = [marks EXCEPT ![r] = TRUE]
          /\ GoTo(r, "tag")
       \/ /\ ~FastForwards(r)
          /\ GoTo(r, "failed")
          /\ UNCHANGED <<main, sha, marks>>
    /\ UNCHANGED <<tags, releases, latest, pypi, run, version, head, reruns>>

Tagged(v) == \E t \in tags : t.version = v

\* Seeded bug: an untagged version is released from the head of main.
BugCommitOf(v) == {i \in DOMAIN main : i = Len(main) /\ main[i].version = v}

\* The commit of the version's tag, or else its latest bump commit on main.
CommitOf(v) ==
    IF Tagged(v)
    THEN {t.commit : t \in {t \in tags : t.version = v}}
    ELSE {i \in DOMAIN main :
            /\ main[i].bump /\ main[i].version = v
            /\ \A j \in (i + 1)..Len(main) : ~(main[j].bump /\ main[j].version = v)}

\* Seeded bug: whatever is released is the latest.
BugIsLatest(r, commit) == TRUE

\* git fetch has just brought origin/main.
IsLatest(r, commit) == Last(main).version = version[r] \/ commit = head[r]

Resolve(r) ==
    /\ pc[r] = "resolve"
    /\ \/ /\ CommitOf(version[r]) = {}
          /\ GoTo(r, "failed")
          /\ UNCHANGED <<sha, marks>>
       \/ \E commit \in CommitOf(version[r]) :
             /\ main[commit].version = version[r]
             /\ sha' = [sha EXCEPT ![r] = commit]
             /\ marks' = [marks EXCEPT ![r] = IsLatest(r, commit)]
             /\ GoTo(r, "tag")
    /\ Keeps /\ UNCHANGED <<version, head>>

LookForTag(r) ==
    /\ pc[r] = "tag"
    /\ GoTo(r, IF Tagged(version[r]) THEN "release" ELSE "push tag")
    /\ Keeps /\ UNCHANGED <<version, sha, head, marks>>

\* Pushing a tag that has appeared meanwhile changes nothing, or is rejected.
PushTag(r) ==
    /\ pc[r] = "push tag"
    /\ LET mine == [version |-> version[r], commit |-> sha[r]]
       IN  \/ /\ ~Tagged(version[r]) \/ mine \in tags
              /\ tags' = tags \cup {mine}
              /\ GoTo(r, "release")
           \/ /\ Tagged(version[r]) /\ mine \notin tags
              /\ GoTo(r, "failed")
              /\ UNCHANGED tags
    /\ UNCHANGED <<main, releases, latest, pypi, run, version, sha, head, marks, reruns>>

LookForRelease(r) ==
    /\ pc[r] = "release"
    /\ GoTo(r, IF version[r] \in releases THEN "build" ELSE "create")
    /\ Keeps /\ UNCHANGED <<version, sha, head, marks>>

\* A Release that has appeared meanwhile is not created twice.
CreateRelease(r) ==
    /\ pc[r] = "create"
    /\ \/ /\ version[r] \notin releases
          /\ releases' = releases \cup {version[r]}
          /\ latest' = IF marks[r] THEN [version |-> version[r], run |-> r] ELSE latest
          /\ GoTo(r, "build")
       \/ /\ version[r] \in releases
          /\ GoTo(r, "failed")
          /\ UNCHANGED <<releases, latest>>
    /\ UNCHANGED <<main, tags, pypi, run, version, sha, head, marks, reruns>>

-----------------------------------------------------------------------------
(* The PyPI jobs                                                           *)

Build(r) ==
    /\ pc[r] = "build"
    /\ GoTo(r, IF main[sha[r]].version = version[r] THEN "publish" ELSE "failed")
    /\ Keeps /\ UNCHANGED <<version, sha, head, marks>>

There(v) == {f.file : f \in {f \in pypi : f.version = v}}

\* Seeded bug: a version PyPI has files of is taken for published.
BugMissing(v) == IF There(v) = {} THEN Files ELSE {}

\* skip-existing: only files PyPI does not have are uploaded.
Missing(v) == Files \ There(v)

\* The upload may stop after any of its files.
Publish(r) ==
    /\ pc[r] = "publish"
    /\ \E some \in SUBSET Missing(version[r]) :
          /\ pypi' = pypi \cup {[version |-> version[r], file |-> f, commit |-> sha[r]] : f \in some}
          /\ GoTo(r, IF some = Missing(version[r]) THEN "done" ELSE "failed")
    /\ UNCHANGED <<main, tags, releases, latest, run, version, sha, head, marks, reruns>>

-----------------------------------------------------------------------------
Finished ==
    /\ \A r \in Runs : pc[r] \in {"failed", "no release", "done"}
    /\ UNCHANGED vars

Next ==
    \/ \E r \in Runs :
          \/ Merge(r) \/ Dispatch(r) \/ Rerun(r) \/ Fail(r)
          \/ BumpVersion(r) \/ PushBump(r) \/ Resolve(r) \/ LookForTag(r) \/ PushTag(r)
          \/ LookForRelease(r) \/ CreateRelease(r) \/ Build(r) \/ Publish(r)
    \/ Finished

Spec == Init /\ [][Next]_vars

-----------------------------------------------------------------------------
(* Properties                                                              *)

\* However runs overlap, fail and are run again, no version is bumped to twice: the
\* versions along main only increase, by one bump commit each.
VersionsIncrease ==
    \A i, j \in DOMAIN main : i < j =>
        /\ ~Newer(main[i].version, main[j].version)
        /\ main[j].bump => Newer(main[j].version, main[i].version)

\* release.yml:16-18: a version is tagged, and every file of it on PyPI is built, at
\* its bump commit: no merge that landed since leaks into it.
ReleasedFromBump ==
    \A t \in tags \cup pypi :
        /\ main[t.commit].bump /\ main[t.commit].version = t.version
        /\ \A u \in tags \cup pypi : u.version = t.version => u.commit = t.commit

\* release.yml:182: a run never makes latest a version older than the one main was
\* at when the run was started.
LatestNotBack ==
    latest # None => ~Newer(main0[latest.run], latest.version)

\* release.yml:18: every step is safe to repeat.  A run that ends well has released
\* its version completely, whatever runs of the version failed before.
DoneIsComplete ==
    \A r \in Runs : pc[r] = "done" =>
        /\ Tagged(version[r]) /\ version[r] \in releases
        /\ There(version[r]) = Files
=============================================================================
