SPECIFICATION SpecCommands
CONSTANTS
    n1 = n1
    v1 = v1
    Nodes = {n1}
    Values = {v1}
    Data = {d1, d2}
    Owner <- OneOwner
    QueueBound = 2
    None = None
    Numbers <- SomeNumbers
    Narrow <- In8Bits
    NotUint <- Negatives
    Kinds <- SomeKinds
INVARIANTS
    TypeOKCommands
    CheckedIsAsked
    NoNetworkNoCall
    AnsweredOnce
PROPERTY MirrorSpec
