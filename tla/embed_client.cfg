\* Four coroutines, three texts, a cache of two entries.
CONSTANTS
    c1 = c1  c2 = c2  c3 = c3  c4 = c4
    k1 = k1  k2 = k2  k3 = k3
    None = None
    Callers = {c1, c2, c3, c4}
    Keys = {k1, k2, k3}
    TTL = 3
    Limit = 2
SPECIFICATION EmbedSpec
INVARIANTS SingleFlight NoStrandedWaiter CacheBounded
PROPERTIES EveryCallAnswered
