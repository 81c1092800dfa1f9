\* A budget below the preamble, raised to room for 10, and room for 17; sizes that
\* fill the first exactly and of which one exceeds half of the second.
CONSTANTS
    DefaultWeight <- MCDefaultWeight
    Configs <- MCConfigs
    Poll = 2
    N = 4
    LayerOf <- MCLayerOf
    SourceOf <- MCSourceOf
    Score <- MCScore
    Domains = {"none", "code"}
    Sizes = {5, 9}
    MaxTurns = 2
    Budgets = {100, 217}
    Graphiti = TRUE
SPECIFICATION Spec
INVARIANTS TypeOK BudgetRespected DroppedOnlyForRoom FailuresReported
PROPERTY ConfigTakesEffect
\* A request ends.
CHECK_DEADLOCK FALSE
