---------------------------- MODULE GivenLanelet2 ----------------------------
(***************************************************************************)
(* hdmap.py's _GivenLanelet2: a Lanelet2 map given to the runtime as it    *)
(* is, and the traffic lights found on it for the stop points of a light.  *)
(*                                                                         *)
(* A road is drawn as it is driven; a file has its bounds as some writer   *)
(* wrote them, either way round.  One map is shared by the drives of all   *)
(* sessions, on any threads, and so is its cache of resolved points, which *)
(* no lock protects.                                                       *)
(*                                                                         *)
(* Coordinates and lengths are decimetres; bounds start and end on even    *)
(* ones, so that the middle between two of them is exact.                  *)
(***************************************************************************)
EXTENDS Integers, Sequences, FiniteSets, SequencesExt, FiniteSetsExt

CONSTANTS
    Drives,   \* drives of any sessions that ask the map
    MaxAsks,  \* how often they ask, together (bounds a run)
    None      \* what is not there

LightSearch == 500  \* _LIGHT_SEARCH_M
Join == 3           \* _JOIN_M

VARIABLES
    file,      \* the parsed map file
    net,       \* what __init__ makes of it
    resolved,  \* _resolved: point -> [lanes, ahead]
    setOrder,  \* the order in which set(lanes) of a point iterates here
    \* drives
    pc,        \* where its stop_lines is
    light,     \* the light it asks for
    at,        \* stop points behind it
    search,    \* rules_ahead: [queue, seen, found]
    rules,     \* the rules of the points so far
    lanes,     \* the lanes of the points so far
    asks,      \* how often the map has been asked
    answers    \* history: what any drive was answered

map == <<file, net>>
cache == <<resolved, setOrder>>
asking == <<pc, light, at, search, rules, lanes>>
history == <<asks, answers>>
givenVars == <<map, cache, asking, history>>

-----------------------------------------------------------------------------
(* Reading the map                                                         *)

\* The elements of a sequence that are in a set, in their order.
Only(elements, set) ==
    FoldLeft(LAMBDA kept, e : IF e \in set THEN Append(kept, e) ELSE kept, <<>>, elements)

Square(n) == n * n

SquaredDistance(p, q) == Square(p[1] - q[1]) + Square(p[2] - q[2])

\* np.linalg.norm, to the decimetre.
Distance(p, q) ==
    LET s == SquaredDistance(p, q)
        n == Max({p[1] - q[1], q[1] - p[1]}) + Max({p[2] - q[2], q[2] - p[2]})
    IN  CHOOSE k \in 0..n : Square(k) <= s /\ s < Square(k + 1)

Length(points) ==
    MapThenSumSet(LAMBDA i : Distance(points[i], points[i + 1]), 1..(Len(points) - 1))

Middle(p, q) == <<(p[1] + q[1]) \div 2, (p[2] + q[2]) \div 2>>

\* np.roll(points, -1)
After(polygon, i) == polygon[(i % Len(polygon)) + 1]

\* Twice _signed_area.
SignedArea(polygon) ==
    MapThenSumSet(LAMBDA i : LET p == polygon[i]
                                 q == After(polygon, i)
                             IN  p[1] * q[2] - q[1] * p[2],
                  1..Len(polygon))

\* The right bound runs with the left.
AlongLeft(left, right) ==
    IF Distance(Head(left), Last(right)) + Distance(Last(left), Head(right))
         < Distance(Head(left), Head(right)) + Distance(Last(left), Last(right))
    THEN Reverse(right)
    ELSE right

\* Seeded bug: a lanelet runs as its left bound is written.
BugBounds(left, right) == [left |-> left, right |-> AlongLeft(left, right)]

\* And the lanelet runs with its left bound on the left.
Bounds(left, right) ==
    LET with == AlongLeft(left, right)
    IN  IF SignedArea(left \o Reverse(with)) > 0
        THEN [left |-> Reverse(left), right |-> Reverse(with)]
        ELSE [left |-> left, right |-> with]

\* A lanelet without both bounds, or off the local frame, is skipped.
Readable(f, l) == f.ways[f.left[l]] # None /\ f.ways[f.right[l]] # None

Start(outline) == Middle(Head(outline), Last(outline))

Cell(p) == <<p[1] \div 10, p[2] \div 10>>

\* Seeded bug: only the cell an end lies in is searched.
BugCellsAround(p) == <<Cell(p)>>

CellsAround(p) ==
    [i \in 1..9 |-> <<Cell(p)[1] + ((i - 1) \div 3) - 1, Cell(p)[2] + ((i - 1) % 3) - 1>>]

Read(f) ==
    LET ids == Only(f.ids, {l \in Range(f.ids) : Readable(f, l)})
        bounds == [l \in Range(ids) |-> Bounds(f.ways[f.left[l]], f.ways[f.right[l]])]
        outline == [l \in Range(ids) |-> bounds[l].left \o Reverse(bounds[l].right)]
        end == [l \in Range(ids) |-> Middle(Last(bounds[l].left), Last(bounds[l].right))]
        in(cell) == Only(ids, {l \in Range(ids) : Cell(Start(outline[l])) = cell})
        near(l) == FlattenSeq([i \in DOMAIN CellsAround(end[l]) |-> in(CellsAround(end[l])[i])])
    IN  [ids |-> ids,
         outline |-> outline,
         end |-> end,
         length |-> [l \in Range(ids) |->
                       (Length(bounds[l].left) + Length(bounds[l].right)) \div 2],
         rules |-> [l \in Range(ids) |-> Only(f.elements[l], DOMAIN f.lights)],
         successors |-> [l \in Range(ids) |->
                           Only(near(l),
                                {o \in Range(ids) \ {l} :
                                   SquaredDistance(Start(outline[o]), end[l]) < Square(Join)})]]

-----------------------------------------------------------------------------
(* Resolving a stop point                                                  *)

InBox(p, outline) ==
    \A k \in 1..2 : LET c == {outline[i][k] : i \in 1..Len(outline)}
                    IN  Min(c) <= p[k] /\ p[k] <= Max(c)

\* _inside: the edges right of p that cross its height are odd in number.
Inside(p, outline) ==
    LET crosses(a, b) ==
            /\ (a[2] > p[2]) # (b[2] > p[2])
            /\ IF b[2] > a[2]
               THEN (p[1] - a[1]) * (b[2] - a[2]) < (p[2] - a[2]) * (b[1] - a[1])
               ELSE (p[1] - a[1]) * (b[2] - a[2]) > (p[2] - a[2]) * (b[1] - a[1])
    IN  Cardinality({i \in 1..Len(outline) : crosses(outline[i], After(outline, i))}) % 2 = 1

LaneletsAt(n, p) ==
    Only(n.ids, {l \in Range(n.ids) : InBox(p, n.outline[l]) /\ Inside(p, n.outline[l])})

NoSearch == [queue |-> <<>>, start |-> {}, seen |-> {}, found |-> <<>>]

GivenInit ==
    /\ net = Read(file)
    /\ resolved = <<>>
    /\ setOrder = <<>>
    /\ pc = [d \in Drives |-> "idle"]
    /\ light = [d \in Drives |-> None]
    /\ at = [d \in Drives |-> 0]
    /\ search = [d \in Drives |-> NoSearch]
    /\ rules = [d \in Drives |-> <<>>]
    /\ lanes = [d \in Drives |-> <<>>]
    /\ asks = 0
    /\ answers = {}

GoTo(d, place) == pc' = [pc EXCEPT ![d] = place]

\* dict.fromkeys: each element once, in the order first met.
Once(elements) ==
    FoldLeft(LAMBDA kept, e : IF Contains(kept, e) THEN kept ELSE Append(kept, e),
             <<>>, elements)

\* A drive's policy asks for the stop lines of a light its step carries.
Ask(d, l) ==
    /\ pc[d] = "idle" /\ asks < MaxAsks
    /\ asks' = asks + 1
    /\ light' = [light EXCEPT ![d] = l]
    /\ at' = [at EXCEPT ![d] = 0]
    /\ rules' = [rules EXCEPT ![d] = <<>>]
    /\ lanes' = [lanes EXCEPT ![d] = <<>>]
    /\ GoTo(d, "points")
    /\ UNCHANGED <<map, cache, search, answers>>

Point(d) == light[d].points[at[d] + 1]

MorePoints(d) == pc[d] = "points" /\ at[d] < Len(light[d].points)

\* What stop_lines keeps of a resolved point before it goes on to the next.
Keep(d, answer) ==
    /\ rules' = [rules EXCEPT ![d] = Once(@ \o answer.ahead)]
    /\ lanes' = [lanes EXCEPT ![d] = Append(@, answer.lanes)]
    /\ at' = [at EXCEPT ![d] = @ + 1]
    /\ GoTo(d, "points")

\* A dict with the entry of p made, or made anew.
With(dict, p, entry) ==
    [q \in DOMAIN dict \cup {p} |-> IF q = p THEN entry ELSE dict[q]]

\* Seeded bug: the entry is made before the search that fills it.
BugReserve(p) == With(resolved, p, [lanes |-> LaneletsAt(net, p), ahead |-> <<>>])

\* The cache is left alone until the point is resolved.
Reserve(p) == resolved

TakeResolved(d) ==
    /\ MorePoints(d) /\ Point(d) \in DOMAIN resolved
    /\ Keep(d, resolved[Point(d)])
    /\ UNCHANGED <<map, cache, light, search, history>>

\* rules_ahead starts at the point's lanelets in the order their set iterates,
\* which is the same each time in one process.
BeginSearch(d) ==
    /\ MorePoints(d) /\ Point(d) \notin DOMAIN resolved
    /\ LET p == Point(d)
           here == Range(LaneletsAt(net, p))
       IN  \E order \in IF p \in DOMAIN setOrder THEN {setOrder[p]} ELSE SetToSeqs(here) :
             /\ setOrder' = With(setOrder, p, order)
             /\ search' = [search EXCEPT ![d] =
                             [queue |-> [i \in DOMAIN order |-> <<order[i], 0>>],
                              start |-> here, seen |-> {}, found |-> <<>>]]
             /\ resolved' = Reserve(p)
    /\ GoTo(d, "search")
    /\ UNCHANGED <<map, light, at, rules, lanes, history>>

Lanelet(d) == Head(search[d].queue)[1]

Travelled(d) == Head(search[d].queue)[2]

\* Seeded bug: the stop point's own lanelet counts.
BugAhead(d) == Travelled(d) + net.length[Lanelet(d)]

\* What lies behind the lanelet's end; a stop point's own lanelet does not count.
Ahead(d) ==
    IF Lanelet(d) \in search[d].start
    THEN Travelled(d)
    ELSE Travelled(d) + net.length[Lanelet(d)]

\* Seeded bug: a branch goes on past its first light.
BugStops(l) == FALSE

Stops(l) == net.rules[l] # <<>>

\* One turn of the loop in rules_ahead.
Visit(d) ==
    /\ pc[d] = "search" /\ search[d].queue # <<>>
    /\ LET l == Lanelet(d)
           s == search[d]
           rest == Tail(s.queue)
           onward == IF Ahead(d) <= LightSearch
                     THEN [i \in DOMAIN net.successors[l] |-> <<net.successors[l][i], Ahead(d)>>]
                     ELSE <<>>
       IN  search' = [search EXCEPT ![d] =
             IF l \in s.seen THEN [s EXCEPT !.queue = rest]
             ELSE IF Stops(l)
             THEN [s EXCEPT !.queue = rest, !.seen = @ \cup {l},
                            !.found = Once(@ \o net.rules[l])]
             ELSE [s EXCEPT !.queue = rest \o onward, !.seen = @ \cup {l},
                            !.found = Once(@ \o net.rules[l])]]
    /\ UNCHANGED <<map, cache, pc, light, at, rules, lanes, history>>

EndSearch(d) ==
    /\ pc[d] = "search" /\ search[d].queue = <<>>
    /\ LET answer == [lanes |-> LaneletsAt(net, Point(d)), ahead |-> search[d].found]
       IN  /\ resolved' = With(resolved, Point(d), answer)
           /\ Keep(d, answer)
    /\ search' = [search EXCEPT ![d] = NoSearch]
    /\ UNCHANGED <<map, setOrder, light, history>>

\* The stop lines of one light: its points' lanelets, and the rules and line
\* strings all of them share.
AnswerGiven(d) ==
    /\ pc[d] = "points" /\ at[d] = Len(light[d].points)
    /\ answers' = answers \cup
         {[light |-> light[d], laneIds |-> lanes[d], ruleIds |-> rules[d],
           lightIds |-> Once(FlattenSeq([i \in DOMAIN rules[d] |-> file.lights[rules[d][i]]]))]}
    /\ GoTo(d, "idle")
    /\ UNCHANGED <<map, cache, light, at, search, rules, lanes, asks>>

Resolve(d) ==
    TakeResolved(d) \/ BeginSearch(d) \/ Visit(d) \/ EndSearch(d) \/ AnswerGiven(d)
=============================================================================
