\* A reader overlaps the only checkpointing process; nothing fails.
CONSTANTS
    w1 = w1  w2 = w2  r1 = r1 
    small = small  medium = medium  large = large
    None = None  Torn = Torn
    Writers = {w1}
    Readers = {r1}
    Payloads = {small, medium}
    ChunksOf <- MCChunks
    MaxChunks = 2
    TTL = 1
    Deaths = {}
SPECIFICATION Spec
PROPERTIES EmptyOnlyWithoutSession
