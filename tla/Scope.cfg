SPECIFICATION Spec
CONSTANTS
    Fibers = {f1, f2}
    Cancelable = {f1}
    Scopes = {root, a, b}
    Root = root
    Resources = {r1, r2}
SYMMETRY Symmetry
CHECK_DEADLOCK FALSE
INVARIANTS
    ReleasedOnce
    NoneForgotten
