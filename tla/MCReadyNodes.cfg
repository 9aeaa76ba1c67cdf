CONSTANTS
    Producers = {p1, p2}
    Nodes = {n1, n2, n3}
    Stub = Stub
    None = None
    capacity = 2
SPECIFICATION StorageSpec
INVARIANTS ReturnedNodeNotWritable NodesExclusive
PROPERTY ImplementsFifo
CHECK_DEADLOCK FALSE
