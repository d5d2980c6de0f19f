SPECIFICATION FairSpec
CONSTANTS
    Node = {n1, n2, n3, n4}
    Object = {o1, o2}
    Target <- MCTarget
    RateLimit = 1
    MaxEvents = 2
INVARIANTS TypeOK AnyKSuffice
PROPERTIES NeverWeakens EveryObjectHeals PassesQuiesce
