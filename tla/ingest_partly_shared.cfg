\* Two connectors whose sources have some of their texts in common.
CONSTANTS
    c1 = c1  c2 = c2  w1 = w1  w2 = w2
    v0 = v0  v1 = v1  v2 = v2  v3 = v3
    t1 = t1  t2 = t2  t3 = t3  t4 = t4
    r1 = r1  r2 = r2
    None = None
    Connectors = {c1, c2}
    Workspaces = {w1, w2}
    Readers <- MCReaders
    Resources = {r1, r2}
    Contents = {v0, v1, v2, v3}
    ContentsOf <- MCPartly
    Texts = {t1, t2, t3, t4}
    Chunks <- MCChunks
    Rank <- MCRank
    Window = 2
    TopK = 1
    MaxEdits = 2
    MaxFails = 1
SPECIFICATION Spec
INVARIANTS SyncedIsIndexed
PROPERTY OneCycleSuffices
CHECK_DEADLOCK FALSE
