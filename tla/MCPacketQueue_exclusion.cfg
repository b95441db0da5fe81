CONSTANTS
    cpu = cpu
    web = web
    n1 = n1
    n2 = n2
    n3 = n3
    NULL = NULL
    Web = web
    Producers <- MCProducers
    Nodes <- MCNodes
    MaxCalls <- MCCalls
SPECIFICATION SpecSafety
INVARIANT MutualExclusion
