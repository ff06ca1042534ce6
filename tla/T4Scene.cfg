SPECIFICATION T4Spec
CONSTANTS
    None = None
    u1 = u1
    map1 = map1
    map2 = map2
    off = off
    Calls = {c1, c2, c3, c4}
    Uuids = {u1}
    Sensors = {}
    Times = {1}
    MapIds = {map1, map2}
    Indicators = {off}
    NoCommand = off
    PolicyIndicators = {off}
    Requests <- SceneRequests
    Mode = "carla"
    HasMapDir = TRUE
    FrameHistoryLength = 1
    MaxWorkers = 3
    FailingHooks = {"on_session_start", "drive"}
    LockingHooks = {}
    MaxMaps = 1
SYMMETRY CallSymmetry
INVARIANTS OneDriveAtATime MapAlwaysResolved OwnT4State NoT4StateLeft
