SPECIFICATION Spec
CONSTANTS
    None = None
    u1 = u1
    cam = cam
    roof = roof
    map1 = map1
    off = off
    left = left
    bad = bad
    Calls = {c1, c2, c3, c4}
    Uuids = {u1}
    Sensors = {cam, roof}
    Times = {0, 1, 2, 3}
    MapIds = {map1}
    Indicators = {off, left}
    NoCommand = off
    PolicyIndicators = {left}
    Requests <- RegistryRequests
    Mode = "carla"
    HasMapDir = TRUE
    FrameHistoryLength = 0
    MaxWorkers = 4
    FailingHooks = {"on_session_start", "on_session_close", "on_route"}
    LockingHooks = {"on_session_start"}
SYMMETRY CallSymmetry
INVARIANTS ClosedOnce EndedStaysEnded SessionsReachable OwnObservations FrameHistory
