\* The registry as cmd/main.go builds it: grants stay in the memory of the registry.
CONSTANTS
    c1 = c1  c2 = c2  w1 = w1  w2 = w2  p1 = p1  p2 = p2
    None = None
    Connectors = {c1}
    Workspaces = {w1, w2}
    Owner <- MCOwner
    Stamped <- MCStamped
    Procs = {p1}
    Backend = "memory"
    TTL = 2
    MaxDelay = 1
    Asked = {}
SPECIFICATION Spec
INVARIANTS AcknowledgedTakesEffect
