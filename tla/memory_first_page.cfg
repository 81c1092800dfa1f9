\* Two unrelated facts, a page of one entry.
CONSTANTS
    f1 = f1  f2 = f2  f3 = f3
    a1 = a1  a2 = a2
    p1 = p1  p2 = p2
    d1 = d1  d2 = d2
    None = None
    Facts = {f1, f2}
    Procs = {p1}
    Decayers = {d1}
    AgentOf <- MCAgentOf
    Similar <- NothingSimilar
    Rank <- MCRank
    HalfLife = 1
    ScrollLimit = 1
    MaxIdle = 3
    Recalls = TRUE
    Failures = FALSE
SPECIFICATION FairSpec
PROPERTIES UnusedEntriesLeave
