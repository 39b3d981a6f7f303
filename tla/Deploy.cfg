CONSTANTS
    Packagers = {p, q}
    Versions = {v1, v2}
    Artifacts = {a1, a2}
    Pythons = {y1, y2}
    None = None
    Budgets <- MCBudgets
    Shells = {s1, s2}
    Bodies <- MCBodies
    MaxReplaces = 1
SPECIFICATION DeploySpec
INVARIANT ActiveIsLocked
INVARIANT UpdateIsTruthful
PROPERTY ActivationIsVerified
PROPERTY VerifyIsTrue
SYMMETRY Symmetries
CHECK_DEADLOCK FALSE
