\* A workflow without a given output recalls a memory.
CONSTANTS
    a = a
    b = b
    Workflows = {a, b}
    Findings <- MCFindings
    Given = {a}
    AutoPromote = {b}
SPECIFICATION FairSpec
PROPERTY RecalledIsCheckpointed
\* Workflows end.
CHECK_DEADLOCK FALSE
