SPECIFICATION LoopSpec
CONSTANTS
    None = None
    cam = cam
    off = off
    left = left
    l1 = l1
    l2 = l2
    Loops = {l1, l2}
    Steps = 2
    Camera = cam
    Overruns = {"get_vehicle_command", "drive"}
    Calls <- LoopCalls
    Uuids = {l1, l2}
    Sensors = {cam}
    Times = {0, 1}
    MapIds = {}
    Indicators = {off, left}
    NoCommand = off
    PolicyIndicators = {off, left}
    Requests <- LoopRequests
    Mode = "carla"
    HasMapDir = FALSE
    FrameHistoryLength = 2
    MaxWorkers = 2
    FailingHooks = {"on_session_start", "drive"}
    LockingHooks = {"on_session_start"}
SYMMETRY LoopSymmetry
INVARIANTS NoSessionLeft CommandOfItsDrive FramesOldestFirst
PROPERTIES ImplementsLifecycle
