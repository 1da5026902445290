SPECIFICATION Spec
CONSTANTS
    n1 = n1
    n2 = n2
    g1 = g1
    g2 = g2
    t1 = t1
    t2 = t2
    Nodes = {n1}
    Groups = {g1}
    TargetNodes = {t1}
    Instances = {0, 1}
    MultiInstance <- FirstGroup
    QueueBound = 3
INVARIANT
    MembersRefreshed
