SPECIFICATION Spec
CONSTANTS
    Drives = {d1, d2}
    MaxAsks = 2
    None = None
    MapSets <- MCMapSets
    Formats = {"lanelet2", "clipgt"}
    Lights <- MCLights
SYMMETRY DriveSymmetry
INVARIANTS
    DirectionAsDriven
    SuccessorsJoin
    OnlyLightsAhead
    MissedOnlyByDetour
    AnswersAgree
    TracedExactly
