---------------------------- MODULE MCDriverImage ----------------------------
(***************************************************************************)
(* Orders and configs for DriverImage: two builds whose tags share a       *)
(* context directory, of a policy of one's own, a misspelt one and a       *)
(* bundled one, and wizard configs that change the image's policy.         *)
(***************************************************************************)
EXTENDS DriverImage

CONSTANTS b1, b2, w1, w2

RouteFollower == [module |-> None, attribute |-> "route_follower"]
Own == [module |-> "my_policy", attribute |-> "Policy"]
Misspelt == [module |-> "my_policy", attribute |-> "Polcy"]

MCContents == [carla |-> {}, my_policy |-> {Own}]

MCTakes == RouteFollower :> {"speed"} @@ Own :> {"speed", "weights"} @@ Misspelt :> {}

MCContextDir == [t \in {"my/policy", "my_policy"} |-> "my_policy"]

Requirement(kind, name) == [kind |-> kind, name |-> name, index |-> 0]

Order(tag, policy, args, install) ==
    [tag |-> tag, dir |-> None, policy |-> policy, args |-> args, install |-> install,
     self |-> Requirement("index", "carla"), check |-> TRUE, build |-> TRUE]

MCOrders ==
    LET own == Order("my/policy", Own, [weights |-> 1], <<Requirement("project", "my_policy")>>)
    IN  {own, [own EXCEPT !.policy = Misspelt, !.args = <<>>, !.tag = "my_policy"],
         [own EXCEPT !.check = FALSE, !.build = FALSE], [own EXCEPT !.args = None],
         Order("my_policy", RouteFollower, [speed |-> 1], <<>>),
         [Order("my_policy", RouteFollower, <<>>, <<Requirement("wheel", "my_policy")>>)
             EXCEPT !.self = Requirement("project", "carla"), !.dir = "elsewhere"],
         [Order("my_policy", Own, <<>>, <<Requirement("wheel", "my_policy")>>)
             EXCEPT !.check = FALSE]}

Config(policy, args) ==
    [name |-> "car", image |-> "my/policy", policy |-> policy, args |-> args,
     environment |-> None, plainName |-> TRUE, cameras |-> {"front"}, pinholes |-> {}]

MCConfigs ==
    {Config(None, [speed |-> 2]), Config(RouteFollower, <<>>), Config(Own, [speed |-> 2]),
     [Config(None, <<>>) EXCEPT !.environment = RouteFollower],
     [Config(None, <<>>) EXCEPT !.pinholes = {"front", "rear"}],
     [Config(None, <<>>) EXCEPT !.plainName = FALSE]}

CommandSymmetry == Permutations(Builds) \cup Permutations(Wizards)
=============================================================================
