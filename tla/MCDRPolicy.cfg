SPECIFICATION FairSpecPolicy
CONSTANTS
    p1 = p1
    p2 = p2
    k1 = k1
    k2 = k2
    k3 = k3
    s1 = s1
    s2 = s2
    none = none
    Policies = {p1, p2}
    DRClusters = {k1, k2, k3}
    Secrets = {s1, s2}
    None = none
    Scenes <- EveryScene
INVARIANTS
    PeersAreComplete
PROPERTIES
    SecretsKept
    SchemeKept
    SecretsDelivered
CHECK_DEADLOCK FALSE
