SPECIFICATION Spec
CONSTANTS
    d1 = d1
    a1 = a1
    Dsets = {d1}
    Links = {l1}
    GroupAttrs = {g1}
    DsetAttrs = {a1}
    Owner <- MCOwner
    None = None
    Reqs = {q1, q2}
    Faults = {"early"}
    MaxSteps = 2
    MaxEntries = 2
    MaxFails = 1
SYMMETRY Symmetric
INVARIANTS
    LinkFollows
    GroupAttrsArrive
    CellsAccounted
    CalledBackOnce
