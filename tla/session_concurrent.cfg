\* Two checkpointing processes, one of which also reads, and a reader;
\* a checkpoint may be abandoned before it has deleted anything.
CONSTANTS
    w1 = w1  w2 = w2  r1 = r1 
    small = small  medium = medium  large = large
    None = None  Torn = Torn
    Writers = {w1, w2}
    Readers = {w2, r1}
    Payloads = {small, medium, large}
    ChunksOf <- MCChunks
    MaxChunks = 3
    TTL = 2
    Deaths = {"delete", "write"}
SPECIFICATION Spec
INVARIANTS CheckpointDurable KeysExpireTogether
PROPERTIES QuietFetchExact
