SPECIFICATION TableSpec
CONSTANTS
    k1 = k1
    k2 = k2
    k3 = k3
    k4 = k4
    Key <- MCKey
    Value = {v1, v2}
    NoValue = NoValue
    Capacity = 3
    Node = {n1, n2, n3, n4}
    Nil = Nil
    HashCode <- MCHashCode
    MaxGeneration = 1
SYMMETRY Interchangeable
INVARIANTS StructuresAgree
PROPERTIES KeepsPromise
