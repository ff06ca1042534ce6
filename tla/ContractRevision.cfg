SPECIFICATION Spec
CONSTANTS
    None = None
    Junk = Junk
    c1 = c1
    c2 = c2
    Clients = {c1, c2}
    Mount <- Mounts
INVARIANTS PolicySeesOptical OlderPolicySeesBody RefusedOnlyUnknown
