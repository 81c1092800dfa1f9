CONSTANTS
    Ids = {i1}
    Workspaces = {w1, w2}
    Values = {0, 1, 2}
    Zero = 0
    Bodies <- MCBodies
    Requests = {r1, r2, r3}
    None = None
SPECIFICATION Spec
INVARIANTS TypeOK AcknowledgedIsListed StoredIsAcknowledged
PROPERTIES KeepsTable PatchesMerge
SYMMETRY Symmetric
