SPECIFICATION Spec
CONSTANTS
    None = None
    b1 = b1
    b2 = b2
    w1 = w1
    w2 = w2
    Builds = {b1, b2}
    Wizards = {w1, w2}
    Orders <- MCOrders
    Configs <- MCConfigs
    Tags = {"my/policy", "my_policy"}
    Dirs = {"my_policy", "elsewhere"}
    Names = {"car"}
    ContextDir <- MCContextDir
    Contents <- MCContents
    Takes <- MCTakes
SYMMETRY CommandSymmetry
INVARIANTS ImageOfItsOrder ArgsOfItsPolicy CheckedPolicyLoads ConfigsPaired
