SPECIFICATION Spec
CONSTANTS
    n1 = n1
    v1 = v1
    b1 = b1
    on = on
    off = off
    None = None
    Nodes = {n1}
    Values = {v1, b1}
    Groups = {1}
    NodeOf <- NodeOfAll
    InstanceOf <- OneInstance
    ClassOf <- TwoClasses
    BitSets = {b1}
    Data = {on, off}
    MaxStarts = 1
SYMMETRY DataSymmetry
INVARIANT RetainedIsLatest
CHECK_DEADLOCK FALSE
