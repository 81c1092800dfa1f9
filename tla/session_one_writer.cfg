\* One process that checkpoints turn lists of every size and also reads, one reader.
CONSTANTS
    w1 = w1  w2 = w2  r1 = r1 
    small = small  medium = medium  large = large
    None = None  Torn = Torn
    Writers = {w1}
    Readers = {w1, r1}
    Payloads = {small, medium, large}
    ChunksOf <- MCChunks
    MaxChunks = 3
    TTL = 2
    Deaths = {}
SPECIFICATION Spec
INVARIANTS NoOrphanChunks
