\* Two processes, two attempts, two near duplicates of one agent.
CONSTANTS
    f1 = f1  f2 = f2  f3 = f3
    a1 = a1  a2 = a2
    p1 = p1  p2 = p2
    d1 = d1  d2 = d2
    None = None
    Facts = {f1, f2}
    Procs = {p1, p2}
    Decayers = {d1, d2}
    AgentOf <- MCAgentOf
    Similar <- MCSimilar
    Rank <- MCRank
    HalfLife = 1
    ScrollLimit = 512
    MaxIdle = 2
    Recalls = TRUE
    Failures = TRUE
SPECIFICATION Spec
INVARIANTS RememberedOrArchived
PROPERTIES ArchivedBeforeDeleted
SYMMETRY Interchangeable
