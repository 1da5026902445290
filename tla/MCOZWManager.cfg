SPECIFICATION Spec
CONSTANTS
    n1 = n1
    n2 = n2
    v1 = v1
    v2 = v2
    Nodes = {n1, n2}
    Values = {v1, v2}
    Data = {d1, d2}
    Owner <- OneEach
    QueueBound = 3
    None = None
INVARIANTS
    TypeOK
    NodesConverge
    ValuesConverge
    RowsAreListed
    HomeIdGuardsModels
    WatchedOnce
PROPERTY CopySpec
