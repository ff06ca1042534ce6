----------------------------- MODULE MCMapFiles -----------------------------
(***************************************************************************)
(* Map sets for MapFiles.  The given maps: a diamond whose straight way    *)
(* has more lanelets than its detour, the same with a single straight      *)
(* lanelet, a small loop, and a two-way road that crosses the origin and   *)
(* whose lanes share their middle way.                                     *)
(***************************************************************************)
EXTENDS MapFiles

\* A straight lane from x to y along the axis: its two bounds.
West(x, y, c) == <<<<x, c + 20>>, <<y, c + 20>>>>
East(x, y, c) == <<<<x, c - 20>>, <<y, c - 20>>>>

Left(height) ==
    [A |-> West(0, 100, 0), C |-> West(100, 150, 0), D |-> West(150, 200, 0),
     E |-> West(100, 200, 0), M |-> West(200, 300, 0), L |-> West(302, 352, 0),
     B |-> <<<<100, 20>>, <<120, 20>>, <<120, height>>, <<180, height>>, <<180, 20>>, <<200, 20>>>>,
     F |-> West(0, 40, 0),
     R |-> <<<<40, 20>>, <<80, 20>>, <<80, -80>>, <<-40, -80>>, <<-40, 20>>, <<0, 20>>>>,
     G |-> <<<<-100, 0>>, <<0, 0>>>>, H |-> <<<<0, 0>>, <<100, 0>>>>,
     I |-> <<<<0, 0>>, <<100, 0>>>>, J |-> None]

Right ==
    [A |-> East(0, 100, 0), C |-> East(100, 150, 0), D |-> East(150, 200, 0),
     E |-> East(100, 200, 0), M |-> East(200, 300, 0), L |-> East(302, 352, 0),
     B |-> <<<<100, -20>>, <<200, -20>>>>, F |-> East(0, 40, 0),
     R |-> <<<<40, -20>>, <<60, -20>>, <<60, -60>>, <<-20, -60>>, <<-20, -20>>, <<0, -20>>>>,
     G |-> <<<<-102, -40>>, <<-2, -40>>>>, H |-> <<<<0, -40>>, <<100, -40>>>>,
     I |-> <<<<0, 40>>, <<100, 40>>>>, J |-> <<<<0, 40>>, <<-100, 40>>>>]

Names == DOMAIN Right

From == [A |-> <<0, 0>>, B |-> <<100, 0>>, C |-> <<100, 0>>, D |-> <<150, 0>>,
         E |-> <<100, 0>>, M |-> <<200, 0>>, L |-> <<302, 0>>, F |-> <<0, 0>>,
         R |-> <<40, 0>>, G |-> <<-101, -20>>, H |-> <<0, -20>>, I |-> <<100, 20>>]

To == [A |-> <<100, 0>>, B |-> <<200, 0>>, C |-> <<150, 0>>, D |-> <<200, 0>>,
       E |-> <<200, 0>>, M |-> <<300, 0>>, L |-> <<352, 0>>, F |-> <<40, 0>>,
       R |-> <<0, 0>>, G |-> <<-1, -20>>, H |-> <<100, -20>>, I |-> <<0, 20>>]

\* The lanes of the two-way road share one way.
WayLeft(l) == IF l = "I" THEN "left H" ELSE "left " \o l

Written(points, back) == IF points = None \/ ~back THEN points ELSE Reverse(points)

\* The file of some of the lanelets, in that order, some of its ways written back.
File(ids, height, lit, back) ==
    [ids |-> ids,
     ways |-> [w \in {"left " \o l : l \in Names} |->
                 LET l == CHOOSE n \in Names : w = "left " \o n
                 IN  Written(Left(height)[l], "left" \in back)]
              @@ [w \in {"right " \o l : l \in Names} |->
                    LET l == CHOOSE n \in Names : w = "right " \o n
                    IN  Written(Right[l], "right" \in back)],
     left |-> [l \in Names |-> WayLeft(l)],
     right |-> [l \in Names |-> "right " \o l],
     elements |-> [l \in Names |-> IF l \in lit THEN <<"speed limit", "light " \o l, "light">>
                                   ELSE <<"speed limit">>],
     lights |-> [r \in {"light"} \cup {"light " \o l : l \in Names} |-> <<"lamp", "lamp of " \o r>>],
     from |-> From, to |-> To]

Files ==
    {File(ids, height, lit, back) :
        ids \in {<<"A", "B", "C", "D", "M", "L">>, <<"L", "M", "E", "B", "A">>},
        height \in {100, 400}, lit \in {{"L"}, {"B", "L"}, {"M", "L"}}, back \in {{}, {"left"}}}
    \cup {File(<<"A", "B", "E", "M", "L">>, 400, {"L"}, {"right"}),
          File(<<"F", "R">>, 100, {}, {}), File(<<"F", "R">>, 100, {"R"}, {"left", "right"})}
    \cup {File(<<"G", "H", "I", "J">>, 100, {"H"}, back) : back \in SUBSET {"left", "right"}}

Converted ==
    [manifest |-> TRUE, written |-> {"lanelet2", "clipgt"}, provided |-> FALSE,
     file |-> [File(<<>>, 100, {}, {}) EXCEPT !.ids = <<>>],
     readTrace |-> <<[ref |-> "signal 1", ir |-> "object a"], [ref |-> "signal 1", ir |-> "object b"],
                     [ref |-> "signal 1", ir |-> "object a"], [ref |-> "lane 1", ir |-> "ir lane 1"],
                     [ref |-> "lane 2", ir |-> "ir lane 2"]>>,
     ir |-> <<[id |-> "rule 1", objects |-> {"object a", "object b"}],
              [id |-> "rule 2", objects |-> {"object b"}]>>,
     trace |-> <<[ir |-> "ir lane 1", ref |-> "10", role |-> "lanelet"],
                 [ir |-> "ir lane 1", ref |-> "11", role |-> "boundary"],
                 [ir |-> "ir lane 2", ref |-> "11", role |-> "boundary"],
                 [ir |-> "rule 1", ref |-> "20", role |-> None],
                 [ir |-> "rule 2", ref |-> "21", role |-> None],
                 [ir |-> "object a", ref |-> "30", role |-> None]>>]

MCMapSets ==
    {[Converted EXCEPT !.provided = TRUE, !.written = {"lanelet2"}, !.file = f] : f \in Files}
    \cup {Converted, [Converted EXCEPT !.manifest = FALSE],
          [Converted EXCEPT !.written = {"lanelet2"}]}

Light(points) ==
    [id |-> "signal 1", points |-> points,
     onLanes |-> [i \in DOMAIN points |-> IF i = 1 THEN "lane 1" ELSE "lane 2"]]

MCLights ==
    {Light(<<<<90, 6>>>>), Light(<<<<110, 10>>, <<-90, -10>>>>), Light(<<<<10, 10>>, <<10, 1000>>>>)}

\* These sets and lights are as the theorems of MapFilesProofs take them to be.
ASSUME LightsTraced == \A m \in MapSets, l \in Lights : TracedOnce(m, l)

ASSUME LaneletsDriven ==
    \A m \in MapSets : \A l \in Range(m.file.ids) :
        Readable(m.file, l) => DrawnAsDriven(m.file, l)

DriveSymmetry == Permutations(Drives)
=============================================================================
