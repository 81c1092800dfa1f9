\* One fact, nobody recalls, a half-life of six days.
CONSTANTS
    f1 = f1  f2 = f2  f3 = f3
    a1 = a1  a2 = a2
    p1 = p1  p2 = p2
    d1 = d1  d2 = d2
    None = None
    Facts = {f1}
    Procs = {p1}
    Decayers = {d1}
    AgentOf <- MCAgentOf
    Similar <- MCSimilar
    Rank <- MCRank
    HalfLife = 6
    ScrollLimit = 512
    MaxIdle = 14
    Recalls = FALSE
    Failures = FALSE
SPECIFICATION Spec
PROPERTIES KeptForHalfLife
