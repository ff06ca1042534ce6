SPECIFICATION Spec
CONSTANTS
    None = None
    Calls = {c1}
    Requests <- AllRequests
    Codes = {"OK", "NOT_FOUND"}
    Registered <- RegisteredHandlers
    Generics <- GenericHandlers
    MaxClock = 2
    MaxCallbacks = 2
INVARIANTS CallbacksRunOnce AbortedNeverAnswers
PROPERTIES ImplementsWire
