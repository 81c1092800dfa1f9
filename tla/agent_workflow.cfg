CONSTANTS
    a = a
    b = b
    Workflows = {a, b}
    Findings <- MCFindings
    Given = {a}
    AutoPromote = {b}
SPECIFICATION FairSpec
INVARIANTS TurnsInContext LostOnlyByOverlap FindingsPromoted
PROPERTY EndsUnlessRecalled
\* Workflows end.
CHECK_DEADLOCK FALSE
