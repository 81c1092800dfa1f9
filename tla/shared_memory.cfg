\* Three findings in three deployments.
CONSTANTS
    f1 = f1  f2 = f2  f3 = f3
    p1 = p1  p2 = p2
    None = None
    Findings = {f1, f2, f3}
    Similar <- MCSimilar
    Procs = {p1, p2}
    Setups <- MCSetups
SPECIFICATION Spec
INVARIANTS PromotedIsSearchable OneEntryWhenAlone
