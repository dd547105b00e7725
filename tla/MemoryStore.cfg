SPECIFICATION StoreSpec
CONSTANTS
    s1 = s1
    s2 = s2
    g1 = g1
    e1 = e1
    e2 = e2
    q1 = q1
    k1 = k1
    id1 = id1
    c1 = c1
    c2 = c2
    Nothing = Nothing
    Ops <- MCOps
    Keys = {k1}
    EventIds = {id1}
    Kind <- MCKind
    KeyOf <- MCKeyOf
    EventOf <- MCEventOf
    Closers <- MCClosers
SYMMETRY MCSymmetry
INVARIANT ReadsSeeEarlierWrites
PROPERTY ImplementsAtomicStore
CHECK_DEADLOCK FALSE
