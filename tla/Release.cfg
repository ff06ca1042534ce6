SPECIFICATION Spec
CONSTANTS
    None = None
    r1 = r1
    r2 = r2
    r3 = r3
    Runs = {r1, r2, r3}
    First <- MCFirst
    MaxReruns = 1
SYMMETRY RunSymmetry
INVARIANTS VersionsIncrease ReleasedFromBump LatestNotBack DoneIsComplete
