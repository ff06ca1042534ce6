SPECIFICATION StopSpec
CONSTANTS
    None = None
    u1 = u1
    map1 = map1
    off = off
    Calls = {c1, c2, c3}
    Uuids = {u1}
    Sensors = {}
    Times = {1}
    MapIds = {map1}
    Indicators = {off}
    NoCommand = off
    PolicyIndicators = {off}
    Requests <- AnyRequest
    Mode = "carla"
    HasMapDir = TRUE
    FrameHistoryLength = 1
    MaxWorkers = 2
    FailingHooks = {"on_session_start", "drive"}
    LockingHooks = {"on_egomotion", "drive"}
    HangingHooks = {"drive"}
PROPERTIES EveryCallAnswered StopsCleanly
CHECK_DEADLOCK FALSE
