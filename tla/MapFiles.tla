------------------------------- MODULE MapFiles -------------------------------
(***************************************************************************)
(* hdmap.py's MapFiles: a map set the runtime wrote, opened in one format, *)
(* and the traffic lights of a step named by that format's elements.  A    *)
(* converted set is followed through its traces, OpenDRIVE to the          *)
(* intermediate map and from there to the format; a Lanelet2 map given as  *)
(* it is is searched (GivenLanelet2).                                      *)
(***************************************************************************)
EXTENDS GivenLanelet2

CONSTANTS
    MapSets, \* the sets a driver may be pointed at
    Formats, \* the formats it may read
    Lights   \* the lights a step may carry, with their stop points

\* The tables of a set are lists: what each element it was read from became, the rules
\* of the intermediate map, and what each element of it became in a format.
ASSUME TablesAssumption ==
    \A m \in MapSets :
        /\ m.readTrace \in Seq(Range(m.readTrace))
        /\ \A k \in Range(m.readTrace) : k = [ref |-> k.ref, ir |-> k.ir]
        /\ m.ir \in Seq(Range(m.ir)) /\ m.trace \in Seq(Range(m.trace))

\* The file of a set: its lanelets, each once, the regulatory elements of each, and its
\* bounds, which are drawn over points unless they are not there.
ASSUME FilesAssumption ==
    \A m \in MapSets :
        /\ m.file.ids \in Seq(Range(m.file.ids)) /\ IsInjective(m.file.ids)
        /\ \A l \in Range(m.file.ids) :
              /\ m.file.elements[l] \in Seq(Range(m.file.elements[l]))
              /\ \A side \in {m.file.left, m.file.right} :
                    \/ m.file.ways[side[l]] = None
                    \/ /\ m.file.ways[side[l]] \in Seq(Int \X Int)
                       /\ m.file.ways[side[l]] # <<>>

VARIABLES
    mapSet,  \* the set in the directory
    format,  \* the format asked for
    opened   \* how __init__ ended

vars == <<mapSet, format, opened, givenVars>>

Init ==
    /\ mapSet \in MapSets
    /\ format \in Formats
    /\ opened = "not yet"
    /\ file = mapSet.file
    /\ GivenInit

Open ==
    /\ opened = "not yet"
    /\ opened' = CASE ~mapSet.manifest -> "no map set"
                   [] mapSet.manifest /\ format \notin mapSet.written -> "not written so"
                   [] OTHER -> "open"
    /\ UNCHANGED <<mapSet, format, givenVars>>

Given == format = "lanelet2" /\ mapSet.provided

\* _read_trace: the IR elements an OpenDRIVE element became.
FromOpenDrive(set, ref) ==
    LET links == Only(set.readTrace, {k \in Range(set.readTrace) : k.ref = ref})
    IN  Once([i \in DOMAIN links |-> links[i].ir])

\* _ir_rules_by_object
RulesByObject(set, object) ==
    LET naming == Only(set.ir, {r \in Range(set.ir) : object \in r.objects})
    IN  [i \in DOMAIN naming |-> naming[i].id]

\* _LANE_ROLES.get(format)
LaneRole(fmt) == IF fmt = "lanelet2" THEN "lanelet" ELSE None

\* _ids over _trace_refs
Ids(set, ir, role) ==
    LET refs == Only(set.trace,
                     {k \in Range(set.trace) : k.ir = ir /\ role \in {None, k.role}})
    IN  [i \in DOMAIN refs |-> refs[i].ref]

IdsOf(set, irs, role) == FlattenSeq([i \in DOMAIN irs |-> Ids(set, irs[i], role)])

\* Seeded bug: a rule is named once for every object of the light.
BugRulesOf(set, objects) ==
    FlattenSeq([i \in DOMAIN objects |-> RulesByObject(set, objects[i])])

RulesOf(set, objects) ==
    Once(FlattenSeq([i \in DOMAIN objects |-> RulesByObject(set, objects[i])]))

\* The stop lines of a light, by a set in a format.
StopLines(set, fmt, l) ==
    LET objects == FromOpenDrive(set, l.id)
    IN  [light |-> l,
         laneIds |-> [i \in DOMAIN l.onLanes |->
                        IdsOf(set, FromOpenDrive(set, l.onLanes[i]), LaneRole(fmt))],
         ruleIds |-> IdsOf(set, RulesOf(set, objects), None),
         lightIds |-> IdsOf(set, objects, None)]

AnswerConverted(d) ==
    /\ pc[d] = "points"
    /\ answers' = answers \cup {StopLines(mapSet, format, light[d])}
    /\ GoTo(d, "idle")
    /\ UNCHANGED <<map, cache, light, at, search, rules, lanes, asks>>

Finished ==
    /\ \/ opened \in {"no map set", "not written so"}
       \/ asks = MaxAsks /\ \A d \in Drives : pc[d] = "idle"
    /\ UNCHANGED vars

Next ==
    \/ Open
    \/ /\ opened = "open"
       /\ \E d \in Drives : \/ \E l \in Lights : Ask(d, l)
                            \/ Given /\ Resolve(d)
                            \/ ~Given /\ AnswerConverted(d)
       /\ UNCHANGED <<mapSet, format, opened>>
    \/ Finished

Spec == Init /\ [][Next]_vars

-----------------------------------------------------------------------------
(* Properties                                                              *)

\* However a writer wrote its bounds -- against each other, against the travel,
\* or one way shared by lanes running opposite ways -- a lanelet runs the way it
\* is driven.
DirectionAsDriven ==
    \A l \in Range(net.ids) :
        /\ Start(net.outline[l]) = file.from[l]
        /\ net.end[l] = file.to[l]

\* A lanelet's successors are all lanelets that start within _JOIN_M of its end,
\* each once, whatever cells of the grid the two points fall into.
SuccessorsJoin ==
    \A l \in Range(net.ids) :
        /\ Range(net.successors[l]) =
             {o \in Range(net.ids) \ {l} :
                SquaredDistance(file.from[o], file.to[l]) < Square(Join)}
        /\ IsInjective(net.successors[l])

Unlit == {l \in Range(net.ids) : net.rules[l] = <<>>}

\* The ways on from the starts over lanelets without a light, none of them past the
\* search: where each leads, and the metres and the lanelets driven past the starts.
Ways(starts) ==
    LET onward(w) ==
            {[to |-> o,
              metres |-> IF w.to \in starts THEN w.metres ELSE w.metres + net.length[w.to],
              hops |-> w.hops + 1] : o \in Range(net.successors[w.to])}
        ways[n \in 0..Len(net.ids)] ==
            IF n = 0 THEN {[to |-> l, metres |-> 0, hops |-> 0] : l \in starts}
            ELSE LET fewer == ways[n - 1]
                 IN  fewer \cup UNION {{v \in onward(w) : v.metres <= LightSearch} :
                                         w \in {v \in fewer : v.to \in Unlit}}
    IN  ways[Len(net.ids)]

\* A point's rules are those of lights on or ahead of it, never of a light
\* behind another light or beyond the search, and a cached point keeps them.
OnlyLightsAhead ==
    \A p \in DOMAIN resolved : \A r \in Range(resolved[p].ahead) :
        \E w \in Ways(Range(resolved[p].lanes)) : r \in Range(net.rules[w.to])

\* Two ways lead to a lanelet, and the one over no more lanelets is the longer: the
\* search, which visits a lanelet once, measures on from the longer.
Detour(ways) ==
    \E v, w \in ways : v.to = w.to /\ v.metres < w.metres /\ w.hops <= v.hops

\* hdmap.py:49 says how far ahead a light is searched for.  No light a way leads to
\* is missed, unless a detour over fewer lanelets leads to the same place.
MissedOnlyByDetour ==
    \A p \in DOMAIN resolved :
        LET ways == Ways(Range(resolved[p].lanes)) IN
        \/ \A w \in ways : Range(net.rules[w.to]) \subseteq Range(resolved[p].ahead)
        \/ Detour(ways)

\* Drives of any sessions that ask for one light, at once or one after the other,
\* are given the same stop lines.
AnswersAgree == \A a, b \in answers : a.light = b.light => a = b

\* What an OpenDRIVE element became in the map format, by the two traces.
Became(ref, role) ==
    {k.ref : k \in {k \in Range(mapSet.trace) :
                      /\ role \in {None, k.role}
                      /\ [ref |-> ref, ir |-> k.ir] \in Range(mapSet.readTrace)}}

\* A light of a converted set is answered with exactly what it was traced to: the
\* lanelets of its points' lanes and none of their boundaries, its line strings, and
\* the rules of any of its objects, each once though objects share them.
TracedExactly ==
    ~Given => \A a \in answers :
        /\ \A i \in DOMAIN a.laneIds :
              Range(a.laneIds[i]) =
                Became(a.light.onLanes[i], IF format = "lanelet2" THEN "lanelet" ELSE None)
        /\ Range(a.lightIds) = Became(a.light.id, None)
        /\ Range(a.ruleIds) =
              {k.ref : k \in {k \in Range(mapSet.trace) :
                 \E r \in Range(mapSet.ir) : \E o \in r.objects :
                    /\ k.ir = r.id
                    /\ [ref |-> a.light.id, ir |-> o] \in Range(mapSet.readTrace)}}
        /\ IsInjective(a.ruleIds) /\ IsInjective(a.lightIds)

-----------------------------------------------------------------------------
(* What the map sets and the lights are                                    *)

\* The rules of a set that name any of some objects.
NamingAny(m, objects) == {r \in Range(m.ir) : \E o \in objects : o \in r.objects}

\* Apart: no two of the entries of the set's trace that lead from irs name one thing.
TracedApart(m, irs) ==
    \A i, j \in DOMAIN m.trace :
        i # j /\ m.trace[i].ir \in irs /\ m.trace[j].ir \in irs => m.trace[i].ref # m.trace[j].ref

\* Nothing else became what a light's objects and their rules became.
TracedOnce(m, l) ==
    LET objects == {k.ir : k \in {k \in Range(m.readTrace) : k.ref = l.id}}
    IN  /\ TracedApart(m, objects)
        /\ TracedApart(m, {r.id : r \in NamingAny(m, objects)})

\* A lanelet of a file is drawn along the way it is driven, from f.from[l] to f.to[l]:
\* once each of its two ways is written that way, the ends that belong together lie
\* nearer each other than those that do not, and the left way is on the left.
DrawnAsDriven(f, l) ==
    LET left == f.ways[f.left[l]]
        right == f.ways[f.right[l]]
    IN  \E a \in {left, Reverse(left)}, b \in {right, Reverse(right)} :
           /\ Middle(Head(a), Head(b)) = f.from[l] /\ Middle(Last(a), Last(b)) = f.to[l]
           /\ Distance(Head(a), Head(b)) + Distance(Last(a), Last(b))
                < Distance(Head(a), Last(b)) + Distance(Last(a), Head(b))
           /\ SignedArea(a \o Reverse(b)) < 0
=============================================================================
